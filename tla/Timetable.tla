----------------------------- MODULE Timetable -----------------------------
(***************************************************************************)
(* What delayed-checks.conf promises the organisers of an event: a box     *)
(* waits until it is due, then its checks join the scored ones once; a box *)
(* whose checks are not valid goes nowhere instead.  A restart begins with *)
(* the file again.  Startup is shown to implement this specification.      *)
(***************************************************************************)
EXTENDS Naturals

CONSTANT Ids      \* the places of delayed boxes in the file

VARIABLES
    loaded,       \* whether this process has read the file
    place,        \* for each box, how often it waits and how often its checks are scored
    due,          \* the boxes whose time has come
    valid         \* the boxes whose checks validateChecks accepts

vars == <<loaded, place, due, valid>>

Nowhere == [waiting |-> 0, scored |-> 0]
Waiting == [waiting |-> 1, scored |-> 0]
Scored == [waiting |-> 0, scored |-> 1]

Init ==
    /\ loaded = FALSE
    /\ place = [k \in Ids |-> Nowhere]
    /\ due \subseteq Ids
    /\ valid \subseteq Ids

\* The file may list fewer boxes than there are places for.
Load ==
    /\ ~loaded
    /\ loaded' = TRUE
    /\ place' \in [Ids -> {Nowhere, Waiting}]
    /\ UNCHANGED <<due, valid>>

Leave(k) ==
    /\ k \in due
    /\ place[k] = Waiting
    /\ place' = [place EXCEPT ![k] = IF k \in valid THEN Scored ELSE Nowhere]
    /\ UNCHANGED <<loaded, due, valid>>

\* Time passes, or the event begins anew.
Elapse ==
    /\ due' \subseteq Ids
    /\ UNCHANGED <<loaded, place, valid>>

Restart ==
    /\ loaded' = FALSE
    /\ place' = [k \in Ids |-> Nowhere]
    /\ due' \subseteq Ids
    /\ UNCHANGED valid

Next == Load \/ (\E k \in Ids : Leave(k)) \/ Elapse \/ Restart

Spec == Init /\ [][Next]_vars
=============================================================================
