---------------------------- MODULE MailboxWire ----------------------------
(***************************************************************************)
(* The web sockets between the messaging server (MailboxServer) and the    *)
(* browser tabs of one user (MailboxClient).                               *)
(***************************************************************************)
EXTENDS Integers, Sequences, FiniteSets

CONSTANTS
    Tabs,        \* tabs of one browser: they share its IndexedDB
    MaxFaults    \* bound: crashes, lost connections, failed writes, reloads, clearings

ASSUME WireAssumption == MaxFaults \in Nat

VARIABLES
    link,        \* link[t]: the web socket of tab t
    syncs,       \* syncs[t]: lastMailboxSeq of the sync requests on their way
    acks,        \* acks[t]: the highest mailboxSeq acknowledged and on its way
    down,        \* down[t]: frames sent to tab t and not handled yet
    faults       \* how much has gone wrong

wireVars == <<link, syncs, acks, down, faults>>

Frame(type, seq) == [type |-> type, seq |-> seq]

WireInit ==
    /\ link = [t \in Tabs |-> "closed"]
    /\ syncs = [t \in Tabs |-> <<>>]
    /\ acks = [t \in Tabs |-> 0]
    /\ down = [t \in Tabs |-> <<>>]
    /\ faults = 0

Linked(t) == link[t] = "open"

Fault == faults < MaxFaults /\ faults' = faults + 1

\* The sockets of the tabs in T close, and what is on its way up is lost.
Disconnect(T) ==
    /\ link' = [t \in Tabs |-> IF t \in T THEN "closed" ELSE link[t]]
    /\ syncs' = [t \in Tabs |-> IF t \in T THEN <<>> ELSE syncs[t]]
    /\ acks' = [t \in Tabs |-> IF t \in T THEN 0 ELSE acks[t]]

\* Of what is on its way down, a tab still handles the frames it has received.
LoseFrames(T) ==
    \E kept \in [T -> UNION {0..Len(down[t]) : t \in T}] :
       /\ \A t \in T : kept[t] <= Len(down[t])
       /\ down' = [t \in Tabs |-> IF t \in T THEN SubSeq(down[t], 1, kept[t]) ELSE down[t]]
=============================================================================
