-------------------------------- MODULE Feed --------------------------------
(***************************************************************************)
(* What a mailbox promises: a log that only grows is copied into a local   *)
(* store from the front, event by event, and what is acknowledged has been *)
(* copied.  The copy may be thrown away and begun again.                   *)
(***************************************************************************)
EXTENDS Integers

VARIABLES
    log,        \* events written
    copied,     \* events of the log that the store has
    reached,    \* the most it has ever had
    acked       \* the most it has acknowledged

vars == <<log, copied, reached, acked>>

Init == log = 0 /\ copied = 0 /\ reached = 0 /\ acked = 0

Write == log' = log + 1 /\ UNCHANGED <<copied, reached, acked>>

Copy ==
    /\ copied < log
    /\ copied' = copied + 1
    /\ reached' = IF copied' > reached THEN copied' ELSE reached
    /\ UNCHANGED <<log, acked>>

Acknowledge ==
    /\ acked < reached
    /\ acked' \in (acked + 1) .. reached
    /\ UNCHANGED <<log, copied, reached>>

Forget == copied' = 0 /\ UNCHANGED <<log, reached, acked>>

Next == Write \/ Copy \/ Acknowledge \/ Forget

Spec == Init /\ [][Next]_vars
=============================================================================
