--------------------------- MODULE PacketArbiter ---------------------------
(***************************************************************************)
(* The packet arbiter of lower_packet_arbiter_module (simulation) and      *)
(* _emit_packet_arbiter (SystemVerilog): several packet sources, one       *)
(* destination, fixed-priority or round-robin order, and a grant that      *)
(* lasts for a beat or for a packet.                                       *)
(*                                                                         *)
(* A step is one clock edge, with what the sources offer and whether the   *)
(* destination is ready.  A payload is abstracted to the source that it    *)
(* comes from.  Sources keep the rule that the stall tracker checks at run *)
(* time: a beat that is refused is offered again, unchanged.               *)
(***************************************************************************)
EXTENDS Naturals

CONSTANTS Count,     \* number of sources
          Policies,  \* of "fixed_priority" and "round_robin"
          Scopes,    \* of "beat" and "packet"
          NoBeat,    \* nothing is offered, nothing is transferred
          Nobody     \* no packet is under way

Sources == 0..(Count - 1)
MaxBypass == Count
Beats == [from : Sources, last : BOOLEAN]

ASSUME ArbiterAssumption ==
    /\ Count \in Nat \ {0}
    /\ Policies \subseteq {"fixed_priority", "round_robin"}
    /\ Scopes \subseteq {"beat", "packet"}
    /\ NoBeat \notin Beats /\ Nobody \notin Sources

VARIABLES
    policy, grant_scope,    \* what the arbiter was built for
    grant_active, grant_owner, next_priority,
    stalled,        \* of each source, the beat that was refused at the last edge
    reset,
    \* what the last edge did: the beat offered to the destination, the one
    \* that it took, and the source whose packet is under way
    offered, transferred, under_way,
    bypassed        \* grants completed while a source waited, up to MaxBypass

grantVars == <<grant_active, grant_owner, next_priority>>
built == <<policy, grant_scope>>
arbiterVars == <<built, grantVars, stalled, reset, offered, transferred, under_way, bypassed>>

(* The grant registers name sources, and a source that was refused is held *)
(* to its own beat.                                                        *)
ArbiterTypeOK ==
    /\ policy \in Policies /\ grant_scope \in Scopes
    /\ grant_active \in BOOLEAN /\ reset \in BOOLEAN
    /\ grant_owner \in Sources /\ next_priority \in Sources
    /\ \A i \in Sources : stalled[i] # NoBeat => stalled[i] \in Beats /\ stalled[i].from = i
    /\ offered \in Beats \cup {NoBeat} /\ transferred \in Beats \cup {NoBeat}
    /\ under_way \in Sources \cup {Nobody}
    /\ bypassed \in [Sources -> 0..MaxBypass]

-----------------------------------------------------------------------------
(* What the sources may put up at an edge: each one nothing, or a beat     *)
(* that is or is not the last of its packet, but a refused beat again.     *)
Offers ==
    { [i \in Sources |-> IF stalled[i] # NoBeat THEN stalled[i]
                         ELSE IF last[i] = NoBeat THEN NoBeat
                         ELSE [from |-> i, last |-> last[i]]] :
          last \in [Sources -> BOOLEAN \cup {NoBeat}] }

Valid(o, i) == o[i] # NoBeat
candidate_valid(o) == \E i \in Sources : Valid(o, i)

(* The first source that offers a beat, beginning with `start`.            *)
Ahead(start, i) == IF i >= start THEN i - start ELSE i + Count - start
First(o, start) ==
    IF candidate_valid(o)
    THEN CHOOSE i \in Sources :
            Valid(o, i) /\ \A j \in Sources : Valid(o, j) => Ahead(start, i) <= Ahead(start, j)
    ELSE 0
candidate(o) == First(o, IF policy = "round_robin" THEN next_priority ELSE 0)

(* Mutant: the owner of the grant is asked again at every edge.            *)
selected_anew(o) == candidate(o)
selected(o) == IF grant_active THEN grant_owner ELSE candidate(o)
grant_valid(o) == ~reset /\ (grant_active \/ candidate_valid(o))
granted_valid(o) == grant_valid(o) /\ Valid(o, selected(o))
transfer(o, ready) == granted_valid(o) /\ ready
(* Mutant: a packet is taken to end with every beat.                       *)
grant_complete_beat(o, ready) == transfer(o, ready)
grant_complete(o, ready) == transfer(o, ready) /\ (grant_scope = "beat" \/ o[selected(o)].last)
acquire(o) == ~grant_active /\ candidate_valid(o)

(* Mutant: the priority does not move on.                                  *)
after_selected_same(o) == selected(o)
after_selected(o) == IF selected(o) = Count - 1 THEN 0 ELSE selected(o) + 1
(* Mutant: the owner is left with the grant.                               *)
active_next_kept(o, ready) == acquire(o) \/ grant_active
active_next(o, ready) == ~grant_complete(o, ready) /\ (acquire(o) \/ grant_active)
owner_next(o) == IF acquire(o) THEN selected(o) ELSE grant_owner

ArbiterInit ==
    /\ policy \in Policies /\ grant_scope \in Scopes
    /\ grant_active = FALSE /\ grant_owner = 0 /\ next_priority = 0
    /\ stalled = [i \in Sources |-> NoBeat]
    /\ reset = FALSE
    /\ offered = NoBeat /\ transferred = NoBeat /\ under_way = Nobody
    /\ bypassed = [i \in Sources |-> 0]

(* The books: what was offered and taken, whose packet is open, and who    *)
(* was passed over.                                                        *)
Record(o, ready) ==
    /\ offered' = IF granted_valid(o) THEN o[selected(o)] ELSE NoBeat
    /\ transferred' = IF transfer(o, ready) THEN o[selected(o)] ELSE NoBeat
    /\ under_way' = IF ~transfer(o, ready) THEN under_way
                    ELSE IF o[selected(o)].last THEN Nobody ELSE selected(o)
    /\ bypassed' = [i \in Sources |->
                       IF ~Valid(o, i) \/ (transfer(o, ready) /\ selected(o) = i) THEN 0
                       ELSE IF grant_complete(o, ready) /\ bypassed[i] < MaxBypass
                       THEN bypassed[i] + 1 ELSE bypassed[i]]

ArbiterEdge(o, ready) ==
    /\ ~reset
    /\ grant_active' = active_next(o, ready)
    /\ grant_owner' = owner_next(o)
    /\ next_priority' = IF policy = "round_robin" /\ grant_complete(o, ready)
                        THEN after_selected(o) ELSE next_priority
    /\ stalled' = [i \in Sources |->
                      IF transfer(o, ready) /\ selected(o) = i THEN NoBeat ELSE o[i]]
    /\ Record(o, ready)
    /\ UNCHANGED <<built, reset>>

(* An edge in reset clears the registers; nothing is granted.              *)
ArbiterResetEdge ==
    /\ reset
    /\ grant_active' = FALSE /\ grant_owner' = 0 /\ next_priority' = 0
    /\ stalled' = [i \in Sources |-> NoBeat]
    /\ offered' = NoBeat /\ transferred' = NoBeat /\ under_way' = Nobody
    /\ bypassed' = [i \in Sources |-> 0]
    /\ reset' \in BOOLEAN
    /\ UNCHANGED built

AssertArbiterReset ==
    /\ ~reset /\ reset' = TRUE
    /\ UNCHANGED <<built, grantVars, stalled, offered, transferred, under_way, bypassed>>

ArbiterClock == \E o \in Offers, ready \in BOOLEAN : ArbiterEdge(o, ready)

ArbiterNext == ArbiterClock \/ ArbiterResetEdge \/ AssertArbiterReset

ArbiterSpec == ArbiterInit /\ [][ArbiterNext]_arbiterVars

(* The clock runs and a reset ends; the destination is ready again and     *)
(* again, a source does not pause in a packet for ever, and packets end.   *)
Progress == \E o \in Offers : granted_valid(o) /\ ArbiterEdge(o, TRUE)
PacketEnds ==
    \E o \in Offers : granted_valid(o) /\ o[selected(o)].last /\ ArbiterEdge(o, TRUE)
FairArbiterSpec ==
    /\ ArbiterSpec
    /\ WF_arbiterVars(Progress) /\ SF_arbiterVars(PacketEnds)
    /\ WF_arbiterVars(ArbiterResetEdge) /\ SF_arbiterVars(ArbiterResetEdge /\ ~reset')

-----------------------------------------------------------------------------
(* Where a grant lasts for a packet, the beats of a packet reach the       *)
(* destination one after the other, with none of another source between.   *)
PacketsContiguous ==
    [][grant_scope = "packet" /\ under_way # Nobody /\ transferred' # NoBeat
          => transferred'.from = under_way]_arbiterVars

(* A beat offered to the destination and refused is offered again: no      *)
(* source that comes later takes its place, whatever its priority.         *)
GrantedBeatHolds ==
    [][offered # NoBeat /\ transferred = NoBeat /\ ~reset => offered' = offered]_arbiterVars

(* While a source waits in round-robin order, every other source completes *)
(* at most one grant.                                                      *)
BoundedBypass ==
    policy = "round_robin" => \A i \in Sources : bypassed[i] <= Count - 1

(* A source that waits in round-robin order is served, or reset.           *)
NoStarvation ==
    \A i \in Sources : []<>(policy = "round_robin" => stalled[i] = NoBeat)
=============================================================================
