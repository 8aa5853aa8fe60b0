---------------------------- MODULE BoundedQueue ----------------------------
(***************************************************************************)
(* What a ready/valid crossing promises: words are delivered once each, in *)
(* the order in which they were accepted, and at most Capacity are held.   *)
(* Only a reset forgets words that were accepted.                          *)
(***************************************************************************)
EXTENDS Naturals, Sequences

CONSTANTS Data, ZeroData, Capacity
VARIABLES queue, delivered, resetting
vars == <<queue, delivered, resetting>>

Init == queue = <<>> /\ delivered = ZeroData /\ resetting = FALSE

Push(d) ==
    /\ ~resetting
    /\ Len(queue) < Capacity
    /\ queue' = Append(queue, d)
    /\ UNCHANGED <<delivered, resetting>>

Pop ==
    /\ ~resetting
    /\ queue # <<>>
    /\ delivered' = Head(queue)
    /\ queue' = Tail(queue)
    /\ UNCHANGED resetting

\* Both ends move in one instant.
PushPop(d) ==
    /\ ~resetting
    /\ queue # <<>>
    /\ Len(queue) < Capacity
    /\ delivered' = Head(queue)
    /\ queue' = Append(Tail(queue), d)
    /\ UNCHANGED resetting

Reset ==
    /\ resetting' = TRUE
    /\ queue' = <<>>
    /\ UNCHANGED delivered

Restart ==
    /\ resetting
    /\ resetting' = FALSE
    /\ UNCHANGED <<queue, delivered>>

Next == (\E d \in Data : Push(d) \/ PushPop(d)) \/ Pop \/ Reset \/ Restart

Spec == Init /\ [][Next]_vars
=============================================================================
