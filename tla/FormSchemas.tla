---------------------------- MODULE FormSchemas -----------------------------
(***************************************************************************)
(* What the designer and the server exchange: schemas, abstracted to what  *)
(* the two tell apart, and requests to save one.                           *)
(***************************************************************************)
EXTENDS Naturals, FiniteSets

CONSTANTS
    Contents,           \* the schemas
    Blank,              \* the schema of a new form
    Saves,              \* bound: the save requests, each used once
    Built,              \* a schema as buildSchema writes and the designer reads it
    Valid,              \* what validateDesignerSchema lets pass
    Parsable            \* what parseDesignerSource accepts

ASSUME SchemasAssumption ==
    /\ Blank \in Contents
    /\ IsFiniteSet(Saves)
    /\ Built \in [Contents -> Contents]
    /\ \A c \in Contents : Built[Built[c]] = Built[c]
    /\ Parsable \subseteq Valid /\ Valid \subseteq Contents

=============================================================================
