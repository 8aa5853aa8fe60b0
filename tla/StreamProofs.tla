---------------------------- MODULE StreamProofs ----------------------------
(***************************************************************************)
(* Streams of words in one clock domain.                                   *)
(*                                                                         *)
(*  - The packet arbiter, for any number of sources: packets are           *)
(*    contiguous, a beat that was offered is offered until it is taken,    *)
(*    and in round-robin order a source is passed over at most Count - 1   *)
(*    times.                                                               *)
(*  - The chain of buffer, elastic region and credit link, for all depths  *)
(*    and capacities: it is a queue.  Each part is shown to move words     *)
(*    from its end to its front, parts in a row compose, and a move of at  *)
(*    most a word at each end is a step of the queue.                      *)
(***************************************************************************)
EXTENDS PacketArbiter, StreamChain, SequenceTheorems, NumberProofs

(* How far a source is from the head of the line tells the sources apart.  *)
LEMMA AheadFacts ==
    ASSUME NEW start \in Sources, NEW i \in Sources
    PROVE  /\ Ahead(start, i) \in 0..(Count - 1)
           /\ \A j \in Sources : Ahead(start, i) = Ahead(start, j) => i = j
BY ArbiterAssumption DEF Ahead, Sources

(* The source that the rotation gives is one that offers, and no other     *)
(* that offers is nearer to the head of the line.                          *)
LEMMA FirstFacts ==
    ASSUME NEW o, NEW start \in Sources, candidate_valid(o)
    PROVE  /\ First(o, start) \in Sources /\ Valid(o, First(o, start))
           /\ \A j \in Sources : Valid(o, j) => Ahead(start, First(o, start)) <= Ahead(start, j)
<1> DEFINE T == {Ahead(start, i) : i \in {j \in Sources : Valid(o, j)}}
           IsFirst(i) == Valid(o, i) /\ \A j \in Sources : Valid(o, j) => Ahead(start, i) <= Ahead(start, j)
<1>1. T \subseteq Nat /\ T # {}
  <2>1. \A i \in Sources : Ahead(start, i) \in Nat
    BY AheadFacts, ArbiterAssumption
  <2> QED
    BY <2>1 DEF candidate_valid
<1>2. \E i \in Sources : IsFirst(i)
  <2> HIDE DEF T
  <2>1. PICK x \in T : \A y \in T : x <= y
    BY <1>1, Least
  <2> QED
    BY <2>1 DEF T
<1> HIDE DEF IsFirst
<1>3. First(o, start) = CHOOSE i \in Sources : IsFirst(i)
    BY DEF First, IsFirst
<1>4. First(o, start) \in Sources /\ IsFirst(First(o, start))
    BY <1>2, <1>3
<1> QED
    BY <1>4 DEF IsFirst

-----------------------------------------------------------------------------
ArbiterTypes ==
    /\ policy \in Policies /\ grant_scope \in Scopes
    /\ grant_active \in BOOLEAN /\ reset \in BOOLEAN
    /\ grant_owner \in Sources /\ next_priority \in Sources
    /\ stalled \in [Sources -> Beats \cup {NoBeat}]
    /\ \A i \in Sources : stalled[i] # NoBeat => stalled[i].from = i
    /\ offered \in Beats \cup {NoBeat} /\ transferred \in Beats \cup {NoBeat}
    /\ under_way \in Sources \cup {Nobody}
    /\ bypassed \in [Sources -> 0..MaxBypass]

(* A beat that was offered and not taken is the refused beat of the source *)
(* that holds the grant.                                                   *)
RefusedIsHeld ==
    offered # NoBeat /\ transferred = NoBeat => grant_active /\ stalled[grant_owner] = offered

(* An open packet has the grant; the last beat taken, unless it ended its  *)
(* packet, is of the open packet.                                          *)
OpenPacketIsGranted ==
    /\ grant_scope = "packet" /\ under_way # Nobody => grant_active /\ grant_owner = under_way
    /\ transferred # NoBeat /\ under_way # Nobody => transferred.from = under_way

(* How many grants other sources can still complete before source i is     *)
(* served, in round-robin order.                                           *)
After(s) == IF s = Count - 1 THEN 0 ELSE s + 1
InLine(i) ==
    IF ~grant_active THEN Ahead(next_priority, i)
    ELSE IF grant_owner = i THEN 0 ELSE 1 + Ahead(After(grant_owner), i)
LineMoves == policy = "round_robin" => \A i \in Sources : bypassed[i] + InLine(i) <= Count - 1

ArbiterInv == ArbiterTypes /\ RefusedIsHeld /\ OpenPacketIsGranted /\ LineMoves

(* What sources may offer: a refused beat again, and otherwise beats of    *)
(* their own.                                                              *)
LEMMA OffersFacts ==
    ASSUME ArbiterTypes, NEW o \in Offers
    PROVE  /\ o \in [Sources -> Beats \cup {NoBeat}]
           /\ \A i \in Sources : /\ stalled[i] # NoBeat => o[i] = stalled[i]
                                 /\ o[i] # NoBeat => o[i].from = i
<1>1. PICK last \in [Sources -> BOOLEAN \cup {NoBeat}] :
          o = [i \in Sources |-> IF stalled[i] # NoBeat THEN stalled[i]
                                 ELSE IF last[i] = NoBeat THEN NoBeat
                                 ELSE [from |-> i, last |-> last[i]]]
    BY DEF Offers
<1>2. \A i \in Sources : last[i] # NoBeat => [from |-> i, last |-> last[i]] \in Beats
    BY DEF Beats
<1> QED
    BY <1>1, <1>2 DEF ArbiterTypes

(* The source that an edge selects.                                        *)
LEMMA SelectedFacts ==
    ASSUME ArbiterTypes, NEW o \in Offers
    PROVE  /\ selected(o) \in Sources
           /\ grant_active => selected(o) = grant_owner
           /\ ~grant_active /\ candidate_valid(o) =>
                 /\ Valid(o, selected(o))
                 /\ policy = "round_robin" =>
                       \A j \in Sources : Valid(o, j) =>
                           Ahead(next_priority, selected(o)) <= Ahead(next_priority, j)
<1> DEFINE start == IF policy = "round_robin" THEN next_priority ELSE 0
<1>1. 0 \in Sources /\ start \in Sources
    BY ArbiterAssumption DEF ArbiterTypes, Sources
<1> HIDE DEF start
<1>2. candidate(o) = First(o, start)
    BY DEF candidate, start
<1>3. ~candidate_valid(o) => First(o, start) = 0
    BY DEF First
<1>4. candidate(o) \in Sources
    BY <1>1, <1>2, <1>3, FirstFacts
<1>5. selected(o) \in Sources /\ (grant_active => selected(o) = grant_owner)
      /\ (~grant_active => selected(o) = First(o, start))
    BY <1>2, <1>4 DEF selected, ArbiterTypes
<1>6. policy = "round_robin" => start = next_priority
    BY DEF start
<1> QED
    BY <1>1, <1>5, <1>6, FirstFacts

-----------------------------------------------------------------------------
(* The four kinds of edges: nothing is offered; a beat is offered and      *)
(* refused; it is taken and the grant goes on; it is taken and the grant   *)
(* is complete.                                                            *)
Pauses(o) ==
    /\ offered' = NoBeat /\ transferred' = NoBeat /\ under_way' = under_way
    /\ grant_active' = grant_active /\ grant_owner' = grant_owner
    /\ next_priority' = next_priority /\ stalled' = [i \in Sources |-> o[i]]
    /\ bypassed' = [i \in Sources |-> IF ~Valid(o, i) THEN 0 ELSE bypassed[i]]
Refuses(o) ==
    /\ offered' = o[selected(o)] /\ transferred' = NoBeat /\ under_way' = under_way
    /\ grant_active' /\ grant_owner' = selected(o)
    /\ next_priority' = next_priority /\ stalled' = [i \in Sources |-> o[i]]
    /\ bypassed' = [i \in Sources |-> IF ~Valid(o, i) THEN 0 ELSE bypassed[i]]
Taken(o) ==
    /\ offered' = o[selected(o)] /\ transferred' = o[selected(o)]
    /\ under_way' = (IF o[selected(o)].last THEN Nobody ELSE selected(o))
    /\ grant_owner' = selected(o)
    /\ stalled' = [i \in Sources |-> IF selected(o) = i THEN NoBeat ELSE o[i]]
GoesOn(o) ==
    /\ Taken(o) /\ grant_active' /\ next_priority' = next_priority
    /\ bypassed' = [i \in Sources |-> IF ~Valid(o, i) \/ selected(o) = i THEN 0 ELSE bypassed[i]]
Completes(o) ==
    /\ Taken(o) /\ ~grant_active' /\ (grant_scope = "beat" \/ o[selected(o)].last)
    /\ next_priority' = (IF policy = "round_robin" THEN After(selected(o)) ELSE next_priority)
    /\ bypassed' = [i \in Sources |-> IF ~Valid(o, i) \/ selected(o) = i THEN 0
                                      ELSE IF bypassed[i] < MaxBypass
                                      THEN bypassed[i] + 1 ELSE bypassed[i]]

(* What an edge does is one of three things.                               *)
LEMMA EdgeKinds ==
    ASSUME ArbiterTypes, NEW o \in Offers, NEW ready \in BOOLEAN, ArbiterEdge(o, ready)
    PROVE  /\ policy' = policy /\ grant_scope' = grant_scope /\ reset' = reset
           /\ \/ Pauses(o) /\ (~grant_active => ~candidate_valid(o))
                           /\ (grant_active => ~Valid(o, grant_owner))
              \/ /\ Valid(o, selected(o)) /\ (~grant_active => candidate_valid(o))
                 /\ Refuses(o) \/ GoesOn(o) \/ Completes(o)
<1> DEFINE s == selected(o)
           Go == granted_valid(o)
           Done == grant_complete(o, ready)
<1>0. /\ policy' = policy /\ grant_scope' = grant_scope /\ reset' = reset /\ ~reset
    BY DEF ArbiterEdge, built
<1>1. grant_active => selected(o) = grant_owner
    BY SelectedFacts
<1>2. ~grant_active /\ candidate_valid(o) => Valid(o, selected(o))
    BY SelectedFacts
<1>3. /\ Go <=> (grant_active \/ candidate_valid(o)) /\ Valid(o, selected(o))
      /\ Done <=> Go /\ ready /\ (grant_scope = "beat" \/ o[selected(o)].last)
    BY <1>0 DEF granted_valid, grant_valid, grant_complete, transfer
<1>4. /\ grant_active' = (~Done /\ ((~grant_active /\ candidate_valid(o)) \/ grant_active))
      /\ grant_owner' = (IF ~grant_active /\ candidate_valid(o) THEN selected(o) ELSE grant_owner)
      /\ next_priority' = (IF policy = "round_robin" /\ Done THEN After(selected(o)) ELSE next_priority)
      /\ stalled' = [i \in Sources |-> IF (Go /\ ready) /\ selected(o) = i THEN NoBeat ELSE o[i]]
    BY DEF ArbiterEdge, active_next, owner_next, acquire, after_selected, After, transfer
<1>5. /\ offered' = (IF Go THEN o[selected(o)] ELSE NoBeat)
      /\ transferred' = (IF Go /\ ready THEN o[selected(o)] ELSE NoBeat)
      /\ under_way' = (IF ~(Go /\ ready) THEN under_way
                       ELSE IF o[selected(o)].last THEN Nobody ELSE selected(o))
      /\ bypassed' = [i \in Sources |->
                       IF ~Valid(o, i) \/ ((Go /\ ready) /\ selected(o) = i) THEN 0
                       ELSE IF Done /\ bypassed[i] < MaxBypass THEN bypassed[i] + 1 ELSE bypassed[i]]
    BY DEF ArbiterEdge, Record, transfer
<1> HIDE DEF Go, Done, s
<1>6. CASE ~Go
  <2>1. Pauses(o)
    BY <1>1, <1>2, <1>3, <1>4, <1>5, <1>6 DEF Pauses, ArbiterTypes
  <2> QED
    BY <1>0, <1>1, <1>2, <1>3, <1>6, <2>1
<1>7. CASE Go /\ ~ready
  <2>1. Refuses(o)
    BY <1>1, <1>3, <1>4, <1>5, <1>7 DEF Refuses
  <2> QED
    BY <1>0, <1>3, <1>7, <2>1
<1>8. CASE Go /\ ready /\ ~Done
  <2>1. GoesOn(o)
    BY <1>1, <1>3, <1>4, <1>5, <1>8 DEF GoesOn, Taken
  <2> QED
    BY <1>0, <1>3, <1>8, <2>1
<1>9. CASE Go /\ ready /\ Done
  <2>1. Completes(o)
    BY <1>1, <1>3, <1>4, <1>5, <1>9 DEF Completes, Taken
  <2> QED
    BY <1>0, <1>3, <1>9, <2>1
<1> QED
    BY <1>6, <1>7, <1>8, <1>9

-----------------------------------------------------------------------------
(* Nobody is granted and nobody waits to begin with.                       *)
LEMMA ArbiterInitInv == ArbiterInit => ArbiterInv
<1> SUFFICES ASSUME ArbiterInit PROVE ArbiterInv
    OBVIOUS
<1>1. 0 \in Sources /\ 0 \in 0..MaxBypass
    BY ArbiterAssumption DEF Sources, MaxBypass
<1>2. ArbiterTypes
    BY <1>1 DEF ArbiterInit, ArbiterTypes
<1>3. RefusedIsHeld /\ OpenPacketIsGranted
    BY DEF ArbiterInit, RefusedIsHeld, OpenPacketIsGranted
<1>4. ASSUME NEW i \in Sources PROVE bypassed[i] + InLine(i) <= Count - 1
    BY <1>1, AheadFacts, ArbiterAssumption DEF ArbiterInit, InLine
<1> QED
    BY <1>2, <1>3, <1>4 DEF ArbiterInv, LineMoves

(* The head of the line moves past the source that was served.             *)
LEMMA AfterFacts ==
    ASSUME NEW s \in Sources
    PROVE  /\ After(s) \in Sources /\ Ahead(After(s), s) = Count - 1
           /\ \A i \in Sources : i # s => 1 + Ahead(After(s), i) <= Count - 1
           /\ \A i, np \in Sources : i # s /\ Ahead(np, s) <= Ahead(np, i) =>
                 1 + Ahead(After(s), i) <= Ahead(np, i)
BY ArbiterAssumption DEF After, Ahead, Sources

(* The registers of the arbiter stay what they are.                        *)
LEMMA ArbiterTypesStep ==
    ArbiterTypes /\ [ArbiterNext]_arbiterVars => ArbiterTypes'
<1> SUFFICES ASSUME ArbiterTypes, [ArbiterNext]_arbiterVars PROVE ArbiterTypes'
    OBVIOUS
<1>0. 0 \in Sources /\ 0 \in 0..MaxBypass
    BY ArbiterAssumption DEF Sources, MaxBypass
<1>1. ASSUME NEW o \in Offers, NEW ready \in BOOLEAN, ArbiterEdge(o, ready) PROVE ArbiterTypes'
  <2> DEFINE s == selected(o)
  <2>1. /\ o \in [Sources -> Beats \cup {NoBeat}]
        /\ \A i \in Sources : o[i] # NoBeat => o[i].from = i
        /\ s \in Sources
    BY OffersFacts, SelectedFacts
  <2>2. /\ policy' \in Policies /\ grant_scope' \in Scopes /\ reset' \in BOOLEAN
    BY <1>1, EdgeKinds DEF ArbiterTypes
  <2>3. grant_active' \in BOOLEAN
    BY <1>1 DEF ArbiterEdge, active_next
  <2>4. \A i \in Sources : bypassed[i] \in 0..MaxBypass
            /\ (bypassed[i] < MaxBypass => bypassed[i] + 1 \in 0..MaxBypass)
    BY ArbiterAssumption DEF ArbiterTypes, MaxBypass
  <2>5. After(s) \in Sources
    BY <2>1, AfterFacts
  <2> HIDE DEF s
  <2>6. CASE Pauses(o)
    BY <1>0, <2>1, <2>2, <2>3, <2>4, <2>6 DEF Pauses, ArbiterTypes
  <2>7. CASE Refuses(o)
    BY <1>0, <2>1, <2>2, <2>3, <2>4, <2>7 DEF Refuses, ArbiterTypes, s
  <2>8. CASE GoesOn(o)
    BY <1>0, <2>1, <2>2, <2>3, <2>4, <2>8 DEF GoesOn, Taken, ArbiterTypes, s
  <2>9. CASE Completes(o)
    BY <1>0, <2>1, <2>2, <2>3, <2>4, <2>5, <2>9 DEF Completes, Taken, ArbiterTypes, s
  <2> QED
    BY <1>1, <2>6, <2>7, <2>8, <2>9, EdgeKinds
<1>2. CASE ArbiterResetEdge
    BY <1>0, <1>2 DEF ArbiterResetEdge, ArbiterTypes, built
<1>3. CASE AssertArbiterReset
    BY <1>3 DEF AssertArbiterReset, ArbiterTypes, built, grantVars
<1>4. CASE UNCHANGED arbiterVars
    BY <1>4 DEF arbiterVars, ArbiterTypes, built, grantVars
<1> QED
    BY <1>1, <1>2, <1>3, <1>4 DEF ArbiterNext, ArbiterClock

(* A beat that was refused stays the one that is offered.                  *)
LEMMA HeldStep ==
    ArbiterInv /\ [ArbiterNext]_arbiterVars => RefusedIsHeld' /\ OpenPacketIsGranted'
<1> SUFFICES ASSUME ArbiterInv, [ArbiterNext]_arbiterVars
             PROVE RefusedIsHeld' /\ OpenPacketIsGranted'
    OBVIOUS
<1>0. ArbiterTypes /\ RefusedIsHeld /\ OpenPacketIsGranted
    BY DEF ArbiterInv
<1>1. ASSUME NEW o \in Offers, NEW ready \in BOOLEAN, ArbiterEdge(o, ready)
      PROVE RefusedIsHeld' /\ OpenPacketIsGranted'
  <2>1. /\ o \in [Sources -> Beats \cup {NoBeat}]
        /\ \A i \in Sources : o[i] # NoBeat => o[i].from = i
        /\ selected(o) \in Sources /\ (grant_active => selected(o) = grant_owner)
        /\ Nobody \notin Sources
        /\ policy' = policy /\ grant_scope' = grant_scope
    BY <1>0, <1>1, OffersFacts, SelectedFacts, EdgeKinds, ArbiterAssumption
  <2>2. Scopes \subseteq {"beat", "packet"} /\ grant_scope \in Scopes
    BY <1>0, ArbiterAssumption DEF ArbiterTypes
  <2> USE <1>0, <2>1 DEF RefusedIsHeld, OpenPacketIsGranted
  <2>6. CASE Pauses(o)
    BY <2>6 DEF Pauses
  <2>7. CASE Refuses(o)
    BY <2>7 DEF Refuses
  <2>8. CASE GoesOn(o) /\ Valid(o, selected(o))
    BY <2>8 DEF GoesOn, Taken, Valid
  <2>9. CASE Completes(o) /\ Valid(o, selected(o))
    BY <2>2, <2>9 DEF Completes, Taken, Valid
  <2> QED
    BY <1>1, <2>6, <2>7, <2>8, <2>9, EdgeKinds
<1>2. CASE ArbiterResetEdge
    BY <1>2 DEF ArbiterResetEdge, RefusedIsHeld, OpenPacketIsGranted
<1>3. CASE AssertArbiterReset
    BY <1>0, <1>3 DEF AssertArbiterReset, built, grantVars, RefusedIsHeld, OpenPacketIsGranted
<1>4. CASE UNCHANGED arbiterVars
    BY <1>0, <1>4 DEF arbiterVars, built, grantVars, RefusedIsHeld, OpenPacketIsGranted
<1> QED
    BY <1>1, <1>2, <1>3, <1>4 DEF ArbiterNext, ArbiterClock

(* Each grant that another source completes brings a waiting source one    *)
(* place nearer to the head of the line.                                   *)
LEMMA LineStep == ArbiterInv /\ [ArbiterNext]_arbiterVars => LineMoves'
<1> SUFFICES ASSUME ArbiterInv, [ArbiterNext]_arbiterVars,
                    policy' = "round_robin", NEW i \in Sources
             PROVE bypassed'[i] + InLine(i)' <= Count - 1
    BY DEF LineMoves
<1>0. ArbiterTypes /\ ArbiterTypes' /\ LineMoves /\ Count \in Nat \ {0}
    BY ArbiterTypesStep, ArbiterAssumption DEF ArbiterInv
<1>1. ASSUME NEW o \in Offers, NEW ready \in BOOLEAN, ArbiterEdge(o, ready)
      PROVE bypassed'[i] + InLine(i)' <= Count - 1
  <2> DEFINE s == selected(o)
             np == next_priority
             b == bypassed[i]
  <2>1. /\ s \in Sources /\ np \in Sources /\ b \in 0..Count
        /\ policy = "round_robin"
        /\ b + InLine(i) <= Count - 1
    BY <1>0, <1>1, SelectedFacts, EdgeKinds DEF ArbiterTypes, LineMoves, MaxBypass
  <2>2. /\ \A start \in Sources : Ahead(start, i) \in 0..(Count - 1)
        /\ Ahead(After(s), s) = Count - 1
        /\ i # s => 1 + Ahead(After(s), i) <= Count - 1
        /\ After(s) \in Sources
    BY <2>1, AheadFacts, AfterFacts
  <2>3. /\ grant_active => s = grant_owner
        /\ ~grant_active /\ candidate_valid(o) /\ Valid(o, i) /\ i # s =>
              1 + Ahead(After(s), i) <= Ahead(np, i)
    BY <1>0, <2>1, SelectedFacts, AfterFacts
  <2> DEFINE line == IF i = s THEN 0 ELSE 1 + Ahead(After(s), i)
  <2>4. Valid(o, i) /\ (~grant_active => candidate_valid(o)) => b + line <= Count - 1
    BY <1>0, <2>1, <2>2, <2>3 DEF InLine
  <2>5. 0 + line <= Count - 1
    BY <1>0, <2>2
  <2>6. CASE Pauses(o)
    <3>1. InLine(i)' = InLine(i) /\ bypassed'[i] \in {0, b}
        BY <2>6 DEF Pauses, InLine
    <3>2. InLine(i) \in 0..(Count - 1)
        BY <2>1, <2>2, <2>3, <2>5, <1>0 DEF InLine
    <3> QED
        BY <1>0, <2>1, <3>1, <3>2
  <2>7. CASE (Refuses(o) \/ GoesOn(o)) /\ (~grant_active => candidate_valid(o))
    <3>1. InLine(i)' = line
        BY <2>7 DEF Refuses, GoesOn, Taken, InLine
    <3>2. bypassed'[i] = 0 \/ (Valid(o, i) /\ bypassed'[i] = b)
        BY <2>7 DEF Refuses, GoesOn
    <3> QED
        BY <2>4, <2>5, <2>7, <3>1, <3>2
  <2>8. CASE Completes(o) /\ (~grant_active => candidate_valid(o))
    <3>1. InLine(i)' = Ahead(After(s), i)
        BY <2>1, <2>8 DEF Completes, Taken, InLine
    <3>2. CASE i = s
        BY <1>0, <2>2, <2>8, <3>1, <3>2 DEF Completes
    <3>3. CASE i # s /\ ~Valid(o, i)
        BY <1>0, <2>2, <2>8, <3>1, <3>3 DEF Completes
    <3>4. CASE i # s /\ Valid(o, i)
        <4>1. bypassed'[i] \in {b, b + 1}
            BY <2>8, <3>4 DEF Completes
        <4>2. b + (1 + Ahead(After(s), i)) <= Count - 1
            BY <2>4, <2>8, <3>4
        <4> QED
            BY <1>0, <2>1, <2>2, <3>1, <4>1, <4>2
    <3> QED
        BY <3>2, <3>3, <3>4
  <2> QED
    BY <1>0, <1>1, <2>6, <2>7, <2>8, EdgeKinds
<1>2. CASE ArbiterResetEdge
  <2>1. bypassed'[i] = 0 /\ InLine(i)' = Ahead(0, i) /\ 0 \in Sources
    BY <1>0, <1>2 DEF ArbiterResetEdge, InLine, Sources
  <2> QED
    BY <1>0, <2>1, AheadFacts
<1>3. CASE AssertArbiterReset
    BY <1>0, <1>3 DEF AssertArbiterReset, built, grantVars, InLine, LineMoves
<1>4. CASE UNCHANGED arbiterVars
    BY <1>0, <1>4 DEF arbiterVars, built, grantVars, InLine, LineMoves
<1> QED
    BY <1>1, <1>2, <1>3, <1>4 DEF ArbiterNext, ArbiterClock

(* All of it together is inductive.                                        *)
LEMMA ArbiterInvariant == ArbiterSpec => []ArbiterInv
<1>1. ArbiterInv /\ [ArbiterNext]_arbiterVars => ArbiterInv'
    BY ArbiterTypesStep, HeldStep, LineStep DEF ArbiterInv
<1> QED
    BY ArbiterInitInv, <1>1, PTL DEF ArbiterSpec

(* The registers of the arbiter stay within the sources that there are.    *)
THEOREM ArbiterTypeCorrect == ArbiterSpec => []ArbiterTypeOK
<1>1. ArbiterInv => ArbiterTypeOK
    BY DEF ArbiterInv, ArbiterTypes, ArbiterTypeOK
<1> QED
    BY ArbiterInvariant, <1>1, PTL

(* In round-robin order a source that offers is passed over by at most     *)
(* Count - 1 grants, for any number of sources.                            *)
THEOREM BoundedBypassHolds == ArbiterSpec => []BoundedBypass
<1>1. ArbiterInv => BoundedBypass
  <2> SUFFICES ASSUME ArbiterInv, policy = "round_robin", NEW i \in Sources
               PROVE bypassed[i] <= Count - 1
    BY DEF BoundedBypass
  <2>1. bypassed[i] + InLine(i) <= Count - 1 /\ bypassed[i] \in 0..Count
    BY DEF ArbiterInv, LineMoves, ArbiterTypes, MaxBypass
  <2>2. InLine(i) \in Nat
    BY AheadFacts, AfterFacts, ArbiterAssumption DEF ArbiterInv, ArbiterTypes, InLine
  <2> QED
    BY <2>1, <2>2, ArbiterAssumption
<1> QED
    BY ArbiterInvariant, <1>1, PTL

(* With packet scope no beat of another source comes between the first and *)
(* the last beat of a packet.                                              *)
THEOREM PacketsContiguousHolds == ArbiterSpec => PacketsContiguous
<1> DEFINE Contiguous == grant_scope = "packet" /\ under_way # Nobody /\ transferred' # NoBeat
                            => transferred'.from = under_way
<1>1. ArbiterInv /\ [ArbiterNext]_arbiterVars => [Contiguous]_arbiterVars
  <2> SUFFICES ASSUME ArbiterInv, ArbiterNext,
                      grant_scope = "packet", under_way # Nobody, transferred' # NoBeat
               PROVE transferred'.from = under_way
    BY DEF Contiguous
  <2>0. ArbiterTypes /\ grant_active /\ grant_owner = under_way
    BY DEF ArbiterInv, OpenPacketIsGranted
  <2>1. ASSUME NEW o \in Offers, NEW ready \in BOOLEAN, ArbiterEdge(o, ready)
        PROVE transferred'.from = under_way
    <3>1. transferred' = o[selected(o)] /\ selected(o) = under_way /\ under_way \in Sources
        BY <2>0, <2>1, EdgeKinds, SelectedFacts
        DEF Pauses, Refuses, GoesOn, Completes, Taken
    <3> QED
        BY <2>0, <3>1, OffersFacts
  <2>2. CASE ArbiterResetEdge
    BY <2>2 DEF ArbiterResetEdge
  <2>3. CASE AssertArbiterReset
    BY <2>3 DEF AssertArbiterReset, ArbiterInv, OpenPacketIsGranted
  <2> QED
    BY <2>1, <2>2, <2>3 DEF ArbiterNext, ArbiterClock
<1> QED
    BY ArbiterInvariant, <1>1, PTL DEF ArbiterSpec, PacketsContiguous

(* A beat that the arbiter offers and that is not taken is offered again,  *)
(* unchanged, until it is taken or the reset comes.                        *)
THEOREM GrantedBeatIsHeld == ArbiterSpec => GrantedBeatHolds
<1> DEFINE Holds == offered # NoBeat /\ transferred = NoBeat /\ ~reset => offered' = offered
<1>1. ArbiterInv /\ [ArbiterNext]_arbiterVars => [Holds]_arbiterVars
  <2> SUFFICES ASSUME ArbiterInv, ArbiterNext, offered # NoBeat, transferred = NoBeat, ~reset
               PROVE offered' = offered
    BY DEF Holds
  <2>0. ArbiterTypes /\ grant_active /\ stalled[grant_owner] = offered /\ grant_owner \in Sources
    BY DEF ArbiterInv, ArbiterTypes, RefusedIsHeld
  <2>1. ASSUME NEW o \in Offers, NEW ready \in BOOLEAN, ArbiterEdge(o, ready)
        PROVE offered' = offered
    <3>1. selected(o) = grant_owner /\ o[grant_owner] = offered
        BY <2>0, SelectedFacts, OffersFacts
    <3>2. Valid(o, grant_owner)
        BY <3>1 DEF Valid
    <3> QED
        BY <2>0, <2>1, <3>1, <3>2, EdgeKinds DEF Refuses, GoesOn, Completes, Taken
  <2>2. CASE AssertArbiterReset
    BY <2>2 DEF AssertArbiterReset
  <2> QED
    BY <2>1, <2>2 DEF ArbiterNext, ArbiterClock, ArbiterResetEdge
<1> QED
    BY ArbiterInvariant, <1>1, PTL DEF ArbiterSpec, GrantedBeatHolds

-----------------------------------------------------------------------------
(* The stream in one clock domain: recursion over the stages.              *)

(* An address past the end of the memory wraps once.                       *)
LEMMA Wrapping ==
    ASSUME NEW depth \in Nat \ {0}, NEW a \in 0..(2 * depth - 1)
    PROVE  a % depth = IF a < depth THEN a ELSE a - depth
OBVIOUS

StageRule(valid, data, f, n) ==
    f = [i \in 0..n |-> IF i = 0 THEN <<>>
                        ELSE (IF valid[i] THEN <<data[i]>> ELSE <<>>) \o f[i - 1]]

(* The recursion over the stages defines a function.                       *)
LEMMA StageFunction ==
    ASSUME NEW valid, NEW data
    PROVE  StageRule(valid, data, StageContents(valid, data), Stages)
<1>1. StageContents(valid, data) = CHOOSE f : StageRule(valid, data, f, Stages)
    BY DEF StageContents, StageRule
<1> DEFINE S == {n \in 0..Stages : \E f : StageRule(valid, data, f, n)}
<1>2. Stages \in Nat
    BY ChainAssumption
<1>3. 0 \in S
  <2>1. StageRule(valid, data, [i \in 0..0 |-> <<>>], 0)
    BY DEF StageRule
  <2> QED
    BY <1>2, <2>1
<1>4. ASSUME NEW n \in 1..Stages, n - 1 \in S PROVE n \in S
  <2>1. PICK f : StageRule(valid, data, f, n - 1)
    BY <1>4
  <2> DEFINE One(i) == IF valid[i] THEN <<data[i]>> ELSE <<>>
             g == [i \in 0..n |-> IF i = n THEN One(n) \o f[n - 1] ELSE f[i]]
  <2>2. \A i \in 0..(n - 1) : f[i] = IF i = 0 THEN <<>> ELSE One(i) \o f[i - 1]
    BY <2>1 DEF StageRule
  <2>3. n \in Nat /\ n > 0 /\ n - 1 \in 0..(n - 1)
    BY <1>2
  <2> HIDE DEF One
  <2>4. \A i \in 0..n : g[i] = IF i = 0 THEN <<>> ELSE One(i) \o g[i - 1]
    <3> SUFFICES ASSUME NEW i \in 0..n
                 PROVE  g[i] = IF i = 0 THEN <<>> ELSE One(i) \o g[i - 1]
      OBVIOUS
    <3>1. CASE i = n
      <4>1. g[i - 1] = f[n - 1] /\ g[i] = One(n) \o f[n - 1]
        BY <2>3, <3>1
      <4> QED
        BY <2>3, <3>1, <4>1
    <3>2. CASE i # n
      <4>1. i \in 0..(n - 1) /\ g[i] = f[i]
        BY <2>3, <3>2
      <4>2. i # 0 => g[i - 1] = f[i - 1]
        BY <2>3, <3>2
      <4> QED
        BY <2>2, <4>1, <4>2
    <3> QED
      BY <3>1, <3>2
  <2>5. g = [i \in 0..n |-> IF i = 0 THEN <<>> ELSE One(i) \o g[i - 1]]
    <3>1. g = [i \in 0..n |-> g[i]]
      OBVIOUS
    <3> HIDE DEF g
    <3> QED
      BY <2>4, <3>1
  <2>6. StageRule(valid, data, g, n)
    <3> HIDE DEF g
    <3> QED
      BY <2>5 DEF StageRule, One
  <2> QED
    BY <2>6
<1>5. Stages \in S
  <2> HIDE DEF S
  <2>1. \A i \in 0..Stages : i \in S
    BY <1>2, <1>3, <1>4, UpTo
  <2> QED
    BY <1>2, <2>1
<1> QED
    BY <1>1, <1>5

-----------------------------------------------------------------------------
Streams == Seq(Words)
Cat(s, t) == s \o t
One(there, word) == IF there THEN <<word>> ELSE <<>>

(* A word at a port, or none.                                              *)
LEMMA OneFacts ==
    ASSUME NEW there \in BOOLEAN, NEW word, there => word \in Words
    PROVE  /\ One(there, word) \in Streams
           /\ Len(One(there, word)) = IF there THEN 1 ELSE 0
BY DEF One, Streams

(* What the proofs use of concatenation.                                   *)
LEMMA JoinFacts ==
    /\ \A s, t \in Streams : Cat(s, t) \in Streams /\ Len(Cat(s, t)) = Len(s) + Len(t)
    /\ \A s, t, u \in Streams : Cat(Cat(s, t), u) = Cat(s, Cat(t, u))
    /\ <<>> \in Streams /\ Len(<<>>) = 0
    /\ \A s \in Streams : Cat(s, <<>>) = s /\ Cat(<<>>, s) = s /\ Len(s) \in Nat
                          /\ (Len(s) = 0 <=> s = <<>>)
<1>1. \A s, t \in Streams : Cat(s, t) \in Streams /\ Len(Cat(s, t)) = Len(s) + Len(t)
    BY ConcatProperties DEF Streams, Cat
<1>2. \A s, t, u \in Streams : Cat(Cat(s, t), u) = Cat(s, Cat(t, u))
    BY DEF Streams, Cat
<1>3. /\ <<>> \in Streams /\ Len(<<>>) = 0
      /\ \A s \in Streams : Cat(s, <<>>) = s /\ Cat(<<>>, s) = s /\ Len(s) \in Nat
                            /\ (Len(s) = 0 <=> s = <<>>)
    BY DEF Streams, Cat
<1> QED
    BY <1>1, <1>2, <1>3

(* What the stages of the pipeline hold.                                   *)
LEMMA StageFacts ==
    ASSUME NEW valid \in [1..Stages -> BOOLEAN], NEW data \in [1..Stages -> Words]
    PROVE  LET F == StageContents(valid, data)
           IN /\ F[0] = <<>>
              /\ \A i \in 1..Stages : F[i] = Cat(One(valid[i], data[i]), F[i - 1])
              /\ \A i \in 0..Stages : F[i] \in Streams /\ Len(F[i]) <= i
<1> DEFINE F == StageContents(valid, data)
<1>1. Stages \in Nat
    BY ChainAssumption
<1>2. F = [i \in 0..Stages |-> IF i = 0 THEN <<>>
                               ELSE (IF valid[i] THEN <<data[i]>> ELSE <<>>) \o F[i - 1]]
    BY StageFunction DEF StageRule
<1> HIDE DEF F
<1>3. \A i \in 0..Stages : F[i] = IF i = 0 THEN <<>>
                                  ELSE Cat(One(valid[i], data[i]), F[i - 1])
    BY <1>2 DEF Cat, One
<1>4. F[0] = <<>>
    BY <1>1, <1>3
<1>5. \A i \in 1..Stages : F[i] = Cat(One(valid[i], data[i]), F[i - 1])
    BY <1>1, <1>3
<1> DEFINE S == {i \in 0..Stages : F[i] \in Streams /\ Len(F[i]) <= i}
<1>6. 0 \in S
    BY <1>1, <1>4, JoinFacts
<1>7. ASSUME NEW i \in 1..Stages, i - 1 \in S PROVE i \in S
  <2>0. F[i - 1] \in Streams /\ Len(F[i - 1]) <= i - 1
    BY <1>7
  <2>1. Len(F[i - 1]) \in Nat
    BY <2>0, JoinFacts
  <2> DEFINE o == One(valid[i], data[i])
  <2>2. o \in Streams /\ Len(o) \in Nat /\ Len(o) <= 1
    <3>1. valid[i] \in BOOLEAN /\ data[i] \in Words
      OBVIOUS
    <3>2. o \in Streams /\ Len(o) = IF valid[i] THEN 1 ELSE 0
      BY <3>1, OneFacts
    <3> QED
      BY <3>1, <3>2
  <2> HIDE DEF o
  <2>3. F[i] = Cat(o, F[i - 1])
    BY <1>5 DEF o
  <2>4. F[i] \in Streams /\ Len(F[i]) = Len(o) + Len(F[i - 1])
    <3>1. ASSUME NEW r \in Streams
          PROVE  Cat(o, r) \in Streams /\ Len(Cat(o, r)) = Len(o) + Len(r)
      BY <2>2, JoinFacts
    <3> QED
      BY <2>0, <2>3, <3>1
  <2>5. Len(F[i]) <= i
    BY <1>1, <2>0, <2>1, <2>2, <2>4
  <2> QED
    BY <1>1, <2>4, <2>5
<1>8. \A i \in 0..Stages : i \in S
  <2> HIDE DEF S
  <2> QED
    BY <1>1, <1>6, <1>7, UpTo
<1> QED
    BY <1>4, <1>5, <1>8 DEF F

(* x goes in at the end of q, y comes out at its front, and q2 is left.    *)
Moves(q, x, y, q2) == q2 \in Streams /\ Cat(q, x) = Cat(y, q2)

(* Two parts in a row, where what leaves the second enters the first.      *)
LEMMA TwoInARow ==
    ASSUME NEW p \in Streams, NEW q \in Streams, NEW x \in Streams, NEW y \in Streams,
           NEW z \in Streams, NEW p2, NEW q2,
           Moves(q, x, y, q2), Moves(p, y, z, p2)
    PROVE  Moves(Cat(p, q), x, z, Cat(p2, q2))
<1>1. /\ p2 \in Streams /\ q2 \in Streams
      /\ Cat(q, x) = Cat(y, q2) /\ Cat(p, y) = Cat(z, p2)
    BY DEF Moves
<1>2. Cat(Cat(p, q), x) = Cat(p, Cat(q, x)) /\ Cat(p, Cat(y, q2)) = Cat(Cat(p, y), q2)
    BY <1>1, JoinFacts
<1>3. Cat(Cat(z, p2), q2) = Cat(z, Cat(p2, q2))
    BY <1>1, JoinFacts
<1>4. Cat(p2, q2) \in Streams
    BY <1>1, JoinFacts
<1> QED
    BY <1>1, <1>2, <1>3, <1>4 DEF Moves

(* The stages advance together: each holds what the one before it held.    *)
Shifted(new, first, old) ==
    new = [i \in 1..Stages |-> IF i = 1 THEN first ELSE old[i - 1]]

(* After an advance the last stage is gone, and the new word comes last.   *)
LEMMA StagesAdvance ==
    ASSUME NEW valid \in [1..Stages -> BOOLEAN], NEW data \in [1..Stages -> Words],
           NEW there \in BOOLEAN, NEW word \in Words,
           NEW valid2, NEW data2,
           Shifted(valid2, there, valid), Shifted(data2, word, data)
    PROVE  StageContents(valid2, data2)[Stages]
             = Cat(StageContents(valid, data)[Stages - 1], One(there, word))
<1> DEFINE F == StageContents(valid, data)
           G == StageContents(valid2, data2)
           x == One(there, word)
<1>1. Stages \in Nat /\ Stages # 0
    BY ChainAssumption
<1> USE DEF Shifted
<1>2. valid2 \in [1..Stages -> BOOLEAN] /\ data2 \in [1..Stages -> Words]
    BY <1>1
<1>3. /\ F[0] = <<>> /\ \A i \in 1..Stages : F[i] = Cat(One(valid[i], data[i]), F[i - 1])
      /\ \A i \in 0..Stages : F[i] \in Streams
    BY StageFacts
<1>4. G[0] = <<>> /\ \A i \in 1..Stages : G[i] = Cat(One(valid2[i], data2[i]), G[i - 1])
    BY <1>2, StageFacts
<1>5. x \in Streams
    BY OneFacts
<1> HIDE DEF F, G
<1> DEFINE S == {i \in 0..Stages : i = 0 \/ G[i] = Cat(F[i - 1], x)}
<1>6. 0 \in S
    BY <1>1
<1>7. ASSUME NEW i \in 1..Stages, i - 1 \in S PROVE i \in S
  <2>1. CASE i = 1
    <3>1. G[1] = Cat(x, <<>>) /\ 1 - 1 = 0
      <4>1. 1 \in 1..Stages /\ valid2[1] = there /\ data2[1] = word /\ 1 - 1 = 0
        BY <1>1
      <4> QED
        BY <1>4, <4>1
    <3>2. Cat(x, <<>>) = x /\ Cat(<<>>, x) = x
      BY <1>5, JoinFacts
    <3>3. G[i] = Cat(F[i - 1], x)
      BY <1>3, <2>1, <3>1, <3>2
    <3> QED
      BY <1>1, <3>3
  <2>2. CASE i # 1
    <3>1. i - 1 \in 1..Stages /\ i - 1 \in 0..Stages /\ (i - 1) - 1 \in 0..Stages /\ i \in 0..Stages
      BY <1>1, <2>2
    <3>2. valid2[i] = valid[i - 1] /\ data2[i] = data[i - 1]
      BY <2>2
    <3>3. G[i - 1] = Cat(F[(i - 1) - 1], x)
      BY <1>7, <2>2, <3>1
    <3> DEFINE o == One(valid[i - 1], data[i - 1])
               r == F[(i - 1) - 1]
    <3>4. o \in Streams /\ r \in Streams
      BY <1>3, <3>1, OneFacts
    <3>5. G[i] = Cat(o, G[i - 1]) /\ F[i - 1] = Cat(o, r)
      BY <1>3, <1>4, <3>1, <3>2
    <3> HIDE DEF o, r, x
    <3>6. Cat(Cat(o, r), x) = Cat(o, Cat(r, x))
      BY <1>5, <3>4, JoinFacts
    <3>7. G[i] = Cat(F[i - 1], x)
      BY <3>3, <3>5, <3>6 DEF r
    <3> QED
      BY <3>1, <3>7
  <2> QED
    BY <2>1, <2>2
<1>8. \A i \in 0..Stages : i \in S
  <2> HIDE DEF S
  <2> QED
    BY <1>1, <1>6, <1>7, UpTo
<1>9. G[Stages] = Cat(F[Stages - 1], x)
    BY <1>1, <1>8
<1> QED
    BY <1>9 DEF F, G

-----------------------------------------------------------------------------
(* A FIFO: its write pointer stands behind its words.                      *)
Wrap(a, depth) == IF a < depth THEN a ELSE a - depth
Linked(f, depth) == f.wr = Wrap(f.rd + f.count, depth)

(* The pointers of a FIFO as they advance.                                 *)
LEMMA WrapFacts ==
    ASSUME NEW depth \in Nat \ {0}, NEW r \in 0..(depth - 1), NEW c \in 0..depth
    PROVE  /\ c # 0 => Wrap((IF r = depth - 1 THEN 0 ELSE r + 1) + (c - 1), depth)
                          = Wrap(r + c, depth)
           /\ c < depth => Wrap(r + (c + 1), depth)
                             = IF Wrap(r + c, depth) = depth - 1 THEN 0
                               ELSE Wrap(r + c, depth) + 1
           /\ c < depth => \A i \in 1..c : /\ Wrap(r + i - 1, depth) # Wrap(r + c, depth)
                                            /\ Wrap(r + i - 1, depth) \in 0..(depth - 1)
BY DEF Wrap

(* The fields of a FIFO.                                                   *)
LEMMA FifoFields ==
    ASSUME NEW depth \in Nat \ {0}, NEW f \in FifoOf(depth)
    PROVE  /\ f.storage \in [0..(depth - 1) -> Words]
           /\ f.rd \in 0..(depth - 1) /\ f.wr \in 0..(depth - 1)
           /\ f.count \in 0..depth
BY DEF FifoOf

(* The words in a FIFO lie in its memory from the read pointer on.         *)
LEMMA HeldFacts ==
    ASSUME NEW depth \in Nat \ {0}, NEW f \in FifoOf(depth)
    PROVE  /\ FifoContents(f, depth) \in Streams
           /\ Len(FifoContents(f, depth)) = f.count
           /\ \A i \in 1..f.count :
                 FifoContents(f, depth)[i] = f.storage[Wrap(f.rd + i - 1, depth)]
<1> DEFINE h == FifoContents(f, depth)
<1>1. /\ f.storage \in [0..(depth - 1) -> Words]
      /\ f.rd \in 0..(depth - 1) /\ f.count \in 0..depth
    BY FifoFields
<1>2. ASSUME NEW i \in 1..f.count
      PROVE  /\ (f.rd + i - 1) % depth = Wrap(f.rd + i - 1, depth)
             /\ Wrap(f.rd + i - 1, depth) \in 0..(depth - 1)
  <2>1. f.rd + i - 1 \in 0..(2 * depth - 1)
    BY <1>1
  <2>2. (f.rd + i - 1) % depth = Wrap(f.rd + i - 1, depth)
    BY <2>1, Wrapping DEF Wrap
  <2>3. Wrap(f.rd + i - 1, depth) \in 0..(depth - 1)
    BY <2>1 DEF Wrap
  <2> QED
    BY <2>2, <2>3
<1>3. h = [i \in 1..f.count |-> f.storage[Wrap(f.rd + i - 1, depth)]]
    BY <1>2 DEF FifoContents
<1>4. ASSUME NEW i \in 1..f.count PROVE f.storage[Wrap(f.rd + i - 1, depth)] \in Words
    BY <1>1, <1>2
<1> HIDE DEF h
<1>5. h \in [1..f.count -> Words]
    BY <1>3, <1>4
<1>6. f.count \in Nat
    BY <1>1
<1>7. h \in Seq(Words) /\ Len(h) = f.count
    BY <1>5, <1>6
<1> QED
    BY <1>3, <1>7 DEF h, Streams

(* Two streams of one length and with the same words are one.              *)
LEMMA SameStream ==
    ASSUME NEW s \in Streams, NEW t \in Streams, Len(s) = Len(t),
           \A i \in 1..Len(s) : s[i] = t[i]
    PROVE  s = t
BY SeqEqual DEF Streams

(* The words of a concatenation.                                           *)
LEMMA JoinAt ==
    ASSUME NEW s \in Streams, NEW t \in Streams, NEW i \in 1..(Len(s) + Len(t))
    PROVE  Cat(s, t)[i] = IF i <= Len(s) THEN s[i] ELSE t[i - Len(s)]
BY ConcatProperties DEF Streams, Cat

(* A word leaves at the front.                                             *)
LEMMA FifoPops ==
    ASSUME NEW depth \in Nat \ {0}, NEW f \in FifoOf(depth), NEW w,
           Linked(f, depth), f.count # 0
    PROVE  LET g == FifoNext(f, depth, FALSE, w, TRUE)
           IN /\ g \in FifoOf(depth) /\ Linked(g, depth)
              /\ g.count = f.count - 1
              /\ FifoContents(f, depth) = Cat(<<FifoFront(f)>>, FifoContents(g, depth))
              /\ FifoFront(f) \in Words
<1> DEFINE g == FifoNext(f, depth, FALSE, w, TRUE)
           s == FifoContents(f, depth)
           t == FifoContents(g, depth)
           o == <<FifoFront(f)>>
<1>1. /\ f.storage \in [0..(depth - 1) -> Words]
      /\ f.rd \in 0..(depth - 1) /\ f.wr \in 0..(depth - 1) /\ f.count \in 0..depth
    BY FifoFields
<1>2. /\ g = [storage |-> f.storage, wr |-> f.wr, rd |-> AdvancePointer(f.rd, depth),
              count |-> f.count - 1]
    BY DEF FifoNext
<1> HIDE DEF g
<1>3. /\ g.storage = f.storage /\ g.wr = f.wr
      /\ g.rd = (IF f.rd = depth - 1 THEN 0 ELSE f.rd + 1) /\ g.count = f.count - 1
    BY <1>2 DEF AdvancePointer
<1>4. g.rd \in 0..(depth - 1) /\ g.count \in 0..depth
    BY <1>1, <1>3
<1>5. g \in FifoOf(depth)
    BY <1>1, <1>2, <1>3, <1>4 DEF FifoOf
<1>6. Linked(g, depth)
  <2>1. Wrap((IF f.rd = depth - 1 THEN 0 ELSE f.rd + 1) + (f.count - 1), depth)
          = Wrap(f.rd + f.count, depth)
    BY <1>1, WrapFacts
  <2> QED
    BY <1>3, <2>1 DEF Linked
<1>7. FifoFront(f) = f.storage[f.rd] /\ FifoFront(f) \in Words
    BY <1>1 DEF FifoFront
<1>8. o \in Streams /\ Len(o) = 1 /\ o[1] = FifoFront(f)
    BY <1>7 DEF Streams
<1>9. /\ s \in Streams /\ Len(s) = f.count
      /\ \A i \in 1..f.count : s[i] = f.storage[Wrap(f.rd + i - 1, depth)]
    BY HeldFacts
<1>10. /\ t \in Streams /\ Len(t) = f.count - 1
       /\ \A i \in 1..(f.count - 1) : t[i] = f.storage[Wrap(g.rd + i - 1, depth)]
    BY <1>3, <1>5, HeldFacts
<1> HIDE DEF s, t, o
<1>11. Cat(o, t) \in Streams /\ Len(Cat(o, t)) = f.count
  <2>1. Cat(o, t) \in Streams /\ Len(Cat(o, t)) = Len(o) + Len(t)
    BY <1>8, <1>10, JoinFacts
  <2> QED
    BY <1>1, <1>8, <1>10, <2>1
<1>12. ASSUME NEW i \in 1..f.count PROVE s[i] = Cat(o, t)[i]
  <2>1. i \in 1..(Len(o) + Len(t))
    BY <1>1, <1>8, <1>10
  <2>2. Cat(o, t)[i] = IF i <= 1 THEN o[i] ELSE t[i - 1]
    BY <1>8, <1>10, <2>1, JoinAt
  <2>3. CASE i = 1
    <3>1. Wrap(f.rd + 1 - 1, depth) = f.rd
      BY <1>1 DEF Wrap
    <3> QED
      BY <1>7, <1>8, <1>9, <2>2, <2>3, <3>1
  <2>4. CASE i # 1
    <3>1. i - 1 \in 1..(f.count - 1)
      BY <1>1, <2>4
    <3>2. Wrap(g.rd + (i - 1) - 1, depth) = Wrap(f.rd + i - 1, depth)
      BY <1>1, <1>3, <2>4 DEF Wrap
    <3>3. t[i - 1] = f.storage[Wrap(f.rd + i - 1, depth)]
      BY <1>10, <3>1, <3>2
    <3> QED
      BY <1>1, <1>9, <2>2, <2>4, <3>3
  <2> QED
    BY <2>3, <2>4
<1>13. s = Cat(o, t)
    BY <1>9, <1>11, <1>12, SameStream
<1> QED
    BY <1>3, <1>5, <1>6, <1>7, <1>13 DEF g, s, t, o

(* A word enters at the end: the cell it is written to is none of those    *)
(* that hold a word.                                                       *)
LEMMA FifoPushes ==
    ASSUME NEW depth \in Nat \ {0}, NEW f \in FifoOf(depth), NEW w \in Words,
           Linked(f, depth), f.count < depth
    PROVE  LET g == FifoNext(f, depth, TRUE, w, FALSE)
           IN /\ g \in FifoOf(depth) /\ Linked(g, depth)
              /\ g.count = f.count + 1
              /\ FifoContents(g, depth) = Cat(FifoContents(f, depth), <<w>>)
<1> DEFINE g == FifoNext(f, depth, TRUE, w, FALSE)
           s == FifoContents(f, depth)
           t == FifoContents(g, depth)
           o == <<w>>
<1>1. /\ f.storage \in [0..(depth - 1) -> Words]
      /\ f.rd \in 0..(depth - 1) /\ f.wr \in 0..(depth - 1) /\ f.count \in 0..depth
    BY FifoFields
<1>2. /\ g = [storage |-> [f.storage EXCEPT ![f.wr] = w],
              wr |-> AdvancePointer(f.wr, depth), rd |-> f.rd, count |-> f.count + 1]
    BY DEF FifoNext
<1> HIDE DEF g
<1>3. /\ g.storage = [f.storage EXCEPT ![f.wr] = w] /\ g.rd = f.rd
      /\ g.wr = (IF f.wr = depth - 1 THEN 0 ELSE f.wr + 1) /\ g.count = f.count + 1
    BY <1>2 DEF AdvancePointer
<1>4. g.wr \in 0..(depth - 1) /\ g.count \in 0..depth
    BY <1>1, <1>3
<1>5. g \in FifoOf(depth)
  <2>1. g.storage \in [0..(depth - 1) -> Words]
    BY <1>1, <1>3
  <2> QED
    BY <1>1, <1>2, <1>3, <1>4, <2>1 DEF FifoOf
<1>6. f.wr = Wrap(f.rd + f.count, depth)
    BY DEF Linked
<1>7. Linked(g, depth)
  <2>1. Wrap(f.rd + (f.count + 1), depth)
          = IF Wrap(f.rd + f.count, depth) = depth - 1 THEN 0
            ELSE Wrap(f.rd + f.count, depth) + 1
    BY <1>1, WrapFacts
  <2> QED
    BY <1>3, <1>6, <2>1 DEF Linked
<1>8. o \in Streams /\ Len(o) = 1 /\ o[1] = w
    BY DEF Streams
<1>9. /\ s \in Streams /\ Len(s) = f.count
      /\ \A i \in 1..f.count : s[i] = f.storage[Wrap(f.rd + i - 1, depth)]
    BY HeldFacts
<1>10. /\ t \in Streams /\ Len(t) = f.count + 1
       /\ \A i \in 1..(f.count + 1) : t[i] = g.storage[Wrap(f.rd + i - 1, depth)]
  <2>1. /\ t \in Streams /\ Len(t) = g.count
        /\ \A i \in 1..g.count : t[i] = g.storage[Wrap(g.rd + i - 1, depth)]
    BY <1>5, HeldFacts
  <2> QED
    BY <1>3, <2>1
<1> HIDE DEF s, t, o
<1>11. Cat(s, o) \in Streams /\ Len(Cat(s, o)) = f.count + 1
  <2>1. Cat(s, o) \in Streams /\ Len(Cat(s, o)) = Len(s) + Len(o)
    BY <1>8, <1>9, JoinFacts
  <2> QED
    BY <1>1, <1>8, <1>9, <2>1
<1>12. ASSUME NEW i \in 1..(f.count + 1) PROVE t[i] = Cat(s, o)[i]
  <2>1. i \in 1..(Len(s) + Len(o))
    BY <1>1, <1>8, <1>9
  <2>2. Cat(s, o)[i] = IF i <= f.count THEN s[i] ELSE o[i - f.count]
    BY <1>8, <1>9, <2>1, JoinAt
  <2>3. CASE i = f.count + 1
    <3>1. Wrap(f.rd + i - 1, depth) = f.wr
      BY <1>1, <1>6, <2>3
    <3>2. g.storage[f.wr] = w
      BY <1>1, <1>3
    <3>3. t[i] = w
      BY <1>10, <3>1, <3>2
    <3>4. ~(i <= f.count) /\ i - f.count = 1
      BY <1>1, <2>3
    <3> QED
      BY <1>8, <2>2, <3>3, <3>4
  <2>4. CASE i # f.count + 1
    <3>1. i \in 1..f.count
      BY <1>1, <2>4
    <3>2. /\ Wrap(f.rd + i - 1, depth) # f.wr
          /\ Wrap(f.rd + i - 1, depth) \in 0..(depth - 1)
      BY <1>1, <1>6, <3>1, WrapFacts
    <3>3. g.storage[Wrap(f.rd + i - 1, depth)] = f.storage[Wrap(f.rd + i - 1, depth)]
      BY <1>1, <1>3, <3>2
    <3>4. i <= f.count
      BY <1>1, <3>1
    <3> QED
      BY <1>9, <1>10, <2>2, <3>1, <3>3, <3>4
  <2> QED
    BY <2>3, <2>4
<1>13. t = Cat(s, o)
    BY <1>10, <1>11, <1>12, SameStream
<1> QED
    BY <1>3, <1>5, <1>7, <1>13 DEF g, s, t, o

AsNumber(b) == IF b THEN 1 ELSE 0

(* Both at one edge: as if the word at the front left first.               *)
LEMMA FifoMoves ==
    ASSUME NEW depth \in Nat \ {0}, NEW f \in FifoOf(depth), NEW push \in BOOLEAN,
           NEW w, push => w \in Words, NEW pop \in BOOLEAN,
           Linked(f, depth), pop => f.count # 0, push => f.count < depth \/ pop
    PROVE  LET g == FifoNext(f, depth, push, w, pop)
           IN /\ g \in FifoOf(depth) /\ Linked(g, depth)
              /\ g.count = (f.count + AsNumber(push)) - AsNumber(pop)
              /\ Moves(FifoContents(f, depth), One(push, w), One(pop, FifoFront(f)),
                       FifoContents(g, depth))
<1> DEFINE g == FifoNext(f, depth, push, w, pop)
           h == FifoNext(f, depth, FALSE, w, TRUE)
           s == FifoContents(f, depth)
           t == FifoContents(g, depth)
           u == FifoContents(h, depth)
<1>1. f.count \in 0..depth /\ s \in Streams
    BY FifoFields, HeldFacts
<1>2. CASE ~push /\ ~pop
  <2>1. g = f
    BY <1>2 DEF FifoNext, FifoOf
  <2>2. Cat(s, <<>>) = Cat(<<>>, s)
    BY <1>1, JoinFacts
  <2>3. One(push, w) = <<>> /\ One(pop, FifoFront(f)) = <<>>
    BY <1>2 DEF One
  <2> HIDE DEF g, s
  <2>4. Moves(s, One(push, w), One(pop, FifoFront(f)), s)
    BY <1>1, <2>2, <2>3 DEF Moves
  <2>5. f.count = (f.count + AsNumber(push)) - AsNumber(pop)
    BY <1>1, <1>2 DEF AsNumber
  <2> QED
    BY <2>1, <2>4, <2>5 DEF g, s
<1>3. CASE push /\ ~pop
  <2>1. g = FifoNext(f, depth, TRUE, w, FALSE) /\ w \in Words /\ f.count < depth
    BY <1>3 DEF FifoNext
  <2>2. /\ g \in FifoOf(depth) /\ Linked(g, depth) /\ g.count = f.count + 1
        /\ t = Cat(s, <<w>>)
    BY <2>1, FifoPushes
  <2>3. One(push, w) = <<w>> /\ One(pop, FifoFront(f)) = <<>>
    BY <1>3 DEF One
  <2>4. t \in Streams
    BY <2>2, HeldFacts
  <2>5. Cat(<<>>, t) = t
    BY <2>4, JoinFacts
  <2> HIDE DEF g, s, t
  <2>6. Moves(s, One(push, w), One(pop, FifoFront(f)), t)
    BY <2>2, <2>3, <2>4, <2>5 DEF Moves
  <2>7. g.count = (f.count + AsNumber(push)) - AsNumber(pop)
    BY <1>1, <1>3, <2>2 DEF AsNumber
  <2> QED
    BY <2>2, <2>6, <2>7 DEF g, s, t
<1>4. CASE pop
  <2>1. /\ h \in FifoOf(depth) /\ Linked(h, depth) /\ h.count = f.count - 1
        /\ s = Cat(<<FifoFront(f)>>, u) /\ FifoFront(f) \in Words
    BY <1>4, FifoPops
  <2>2. u \in Streams /\ <<FifoFront(f)>> \in Streams
    <3>1. u \in Streams
      BY <2>1, HeldFacts
    <3>2. <<FifoFront(f)>> \in Streams
      BY <2>1 DEF Streams
    <3> QED
      BY <3>1, <3>2
  <2>3. One(pop, FifoFront(f)) = <<FifoFront(f)>>
    BY <1>4 DEF One
  <2>4. CASE ~push
    <3>1. g = h
      BY <1>4, <2>4 DEF FifoNext
    <3>2. One(push, w) = <<>> /\ t = u
      BY <2>4, <3>1 DEF One
    <3>3. Cat(s, <<>>) = s
      BY <1>1, JoinFacts
    <3> HIDE DEF g, h, s, t, u
    <3>4. Moves(s, One(push, w), One(pop, FifoFront(f)), t)
      BY <2>1, <2>2, <2>3, <3>2, <3>3 DEF Moves
    <3>5. g.count = (f.count + AsNumber(push)) - AsNumber(pop)
      BY <1>1, <1>4, <2>1, <2>4, <3>1 DEF AsNumber
    <3> QED
      BY <2>1, <3>1, <3>4, <3>5 DEF g, s, t
  <2>5. CASE push
    <3>1. w \in Words /\ h.count < depth
      <4> HIDE DEF h
      <4> QED
        BY <1>1, <2>1, <2>5
    <3>2. /\ h.storage = f.storage /\ h.wr = f.wr
          /\ h.rd = AdvancePointer(f.rd, depth) /\ h.count = f.count - 1
      BY DEF FifoNext
    <3>3. g = [storage |-> [f.storage EXCEPT ![f.wr] = w],
               wr |-> AdvancePointer(f.wr, depth),
               rd |-> AdvancePointer(f.rd, depth), count |-> f.count]
      BY <1>4, <2>5 DEF FifoNext
    <3>4. FifoNext(h, depth, TRUE, w, FALSE)
            = [storage |-> [h.storage EXCEPT ![h.wr] = w],
               wr |-> AdvancePointer(h.wr, depth), rd |-> h.rd, count |-> h.count + 1]
      BY DEF FifoNext
    <3>5. (f.count - 1) + 1 = f.count
      BY <1>1
    <3>6. g = FifoNext(h, depth, TRUE, w, FALSE)
      <4> HIDE DEF g, h
      <4> QED
        BY <3>2, <3>3, <3>4, <3>5
    <3>7. /\ g \in FifoOf(depth) /\ Linked(g, depth) /\ g.count = h.count + 1
          /\ t = Cat(u, <<w>>)
      <4> HIDE DEF g, h
      <4> QED
        BY <2>1, <3>1, <3>6, FifoPushes
    <3>8. One(push, w) = <<w>> /\ <<w>> \in Streams
      BY <2>5, <3>1 DEF One, Streams
    <3>9. t \in Streams
      BY <3>7, HeldFacts
    <3> HIDE DEF g, h, s, t, u
    <3>10. Cat(Cat(<<FifoFront(f)>>, u), <<w>>) = Cat(<<FifoFront(f)>>, Cat(u, <<w>>))
      BY <2>2, <3>8, JoinFacts
    <3>11. Moves(s, One(push, w), One(pop, FifoFront(f)), t)
      BY <2>1, <2>3, <3>7, <3>8, <3>9, <3>10 DEF Moves
    <3>12. g.count = (f.count + AsNumber(push)) - AsNumber(pop)
      BY <1>1, <1>4, <2>1, <2>5, <3>7 DEF AsNumber
    <3> QED
      BY <3>7, <3>11, <3>12 DEF g, s, t
  <2> QED
    BY <2>4, <2>5
<1> QED
    BY <1>2, <1>3, <1>4

-----------------------------------------------------------------------------
(* The elastic region.                                                     *)
RegionRegisters ==
    IF region = "pipeline"
    THEN PipelineRegisters /\ UNCHANGED temporalVars
    ELSE TemporalRegisters /\ UNCHANGED pipelineVars

(* Both products of the schedule are of the word that was captured.        *)
OneWord ==
    /\ state \in {2, 3} => product0 = captured
    /\ state = 3 => product1 = captured

(* What a FIFO offers is a word.                                           *)
LEMMA FrontIsWord ==
    ASSUME NEW depth \in Nat \ {0}, NEW f \in FifoOf(depth)
    PROVE  FifoFront(f) \in Words
<1>1. f.storage[f.rd] \in Words
    BY FifoFields
<1> QED
    BY <1>1, ChainAssumption DEF FifoFront

(* The registers of the region keep their types, and its products agree.   *)
LEMMA RegionTyped ==
    ASSUME ChainTypeOK, OneWord, RegionRegisters
    PROVE  /\ stage_valid' \in [1..Stages -> BOOLEAN]
           /\ stage_data' \in [1..Stages -> Words]
           /\ state' \in 0..4
           /\ {captured', product0', product1', result'} \subseteq Words
           /\ OneWord'
<1>1. /\ buffer \in FifoOf(BufferDepth) /\ BufferDepth \in Nat \ {0}
      /\ Stages \in Nat \ {0}
      /\ stage_valid \in [1..Stages -> BOOLEAN] /\ stage_data \in [1..Stages -> Words]
      /\ state \in 0..4
      /\ captured \in Words /\ product0 \in Words /\ product1 \in Words /\ result \in Words
    BY ChainAssumption DEF ChainTypeOK
<1>2. FifoFront(buffer) \in Words /\ FifoValid(buffer) \in BOOLEAN
    BY <1>1, FrontIsWord DEF FifoValid
<1>3. CASE region = "pipeline"
  <2>1. PipelineRegisters /\ UNCHANGED temporalVars
    BY <1>3 DEF RegionRegisters
  <2>2. /\ stage_valid' \in [1..Stages -> BOOLEAN]
        /\ stage_data' \in [1..Stages -> Words]
    BY <1>1, <1>2, <2>1 DEF PipelineRegisters, pipelineVars
  <2> QED
    BY <1>1, <2>1, <2>2 DEF temporalVars, OneWord
<1>4. CASE region # "pipeline"
  <2>1. TemporalRegisters /\ UNCHANGED pipelineVars
    BY <1>4 DEF RegionRegisters
  <2>2. /\ stage_valid' \in [1..Stages -> BOOLEAN]
        /\ stage_data' \in [1..Stages -> Words]
    BY <1>1, <2>1 DEF pipelineVars
  <2>3. /\ state' = state_next
        /\ captured' = IF input_transfer THEN FifoFront(buffer) ELSE captured
        /\ product0' = IF state = 1 THEN captured ELSE product0
        /\ product1' = IF state = 2 THEN captured ELSE product1
        /\ result' = IF state = 3 THEN scheduled_sum ELSE result
    BY <2>1 DEF TemporalRegisters
  <2>4. state \in {1, 2, 3} => ~input_transfer
    BY <1>4 DEF input_transfer, region_ready, source_can_accept
  <2>5. /\ state' \in 0..4 /\ (state' = 2 => state = 1) /\ (state' = 3 => state = 2)
    BY <1>1, <2>3 DEF state_next
  <2>6. state = 3 => scheduled_sum = captured
    BY DEF scheduled_sum, OneWord
  <2>7. {captured', product0', product1', result'} \subseteq Words
    BY <1>1, <1>2, <2>3, <2>6
  <2>8. OneWord'
    BY <2>3, <2>4, <2>5 DEF OneWord
  <2> QED
    BY <2>2, <2>5, <2>7, <2>8
<1> QED
    BY <1>3, <1>4

(* The pipeline passes its words on in order ...                           *)
LEMMA PipelineMoves ==
    ASSUME ChainTypeOK, region = "pipeline", region' = region, RegionRegisters
    PROVE  Moves(RegionContents, One(input_transfer, FifoFront(buffer)),
                 One(credit_send, output_payload), RegionContents')
<1> DEFINE F == StageContents(stage_valid, stage_data)
           x == One(input_transfer, FifoFront(buffer))
           o == One(credit_send, output_payload)
<1>1. /\ buffer \in FifoOf(BufferDepth) /\ BufferDepth \in Nat \ {0}
      /\ Stages \in Nat \ {0}
      /\ stage_valid \in [1..Stages -> BOOLEAN] /\ stage_data \in [1..Stages -> Words]
    BY ChainAssumption DEF ChainTypeOK
<1>2. FifoFront(buffer) \in Words /\ FifoValid(buffer) \in BOOLEAN
    BY <1>1, FrontIsWord DEF FifoValid
<1>3. PipelineRegisters
    BY DEF RegionRegisters
<1>4. /\ RegionContents = F[Stages]
      /\ RegionContents' = StageContents(stage_valid', stage_data')[Stages]
    BY DEF RegionContents
<1>5. /\ \A i \in 1..Stages : F[i] = Cat(One(stage_valid[i], stage_data[i]), F[i - 1])
      /\ \A i \in 0..Stages : F[i] \in Streams
    BY <1>1, StageFacts
<1>6. Stages \in 1..Stages /\ Stages \in 0..Stages /\ Stages - 1 \in 0..Stages
    BY <1>1
<1>7. /\ F[Stages] = Cat(One(stage_valid[Stages], stage_data[Stages]), F[Stages - 1])
      /\ F[Stages] \in Streams /\ F[Stages - 1] \in Streams
    BY <1>5, <1>6
<1>8. /\ input_transfer = (FifoValid(buffer) /\ advance)
      /\ credit_send = (stage_valid[Stages] /\ credit_available)
      /\ output_payload = stage_data[Stages]
    BY DEF input_transfer, region_ready, credit_send, output_valid, output_payload
<1>9. stage_valid[Stages] \in BOOLEAN /\ stage_data[Stages] \in Words
    BY <1>1, <1>6
<1>10. CASE advance
  <2>1. /\ stage_valid' = [i \in 1..Stages |->
                              IF i = 1 THEN FifoValid(buffer) ELSE stage_valid[i - 1]]
        /\ stage_data' = [i \in 1..Stages |->
                              IF i = 1 THEN FifoFront(buffer) ELSE stage_data[i - 1]]
    BY <1>3, <1>10 DEF PipelineRegisters
  <2>2. RegionContents' = Cat(F[Stages - 1], One(FifoValid(buffer), FifoFront(buffer)))
    <3>1. /\ Shifted(stage_valid', FifoValid(buffer), stage_valid)
          /\ Shifted(stage_data', FifoFront(buffer), stage_data)
      BY <2>1 DEF Shifted
    <3>2. StageContents(stage_valid', stage_data')[Stages]
            = Cat(F[Stages - 1], One(FifoValid(buffer), FifoFront(buffer)))
      BY <1>1, <1>2, <3>1, StagesAdvance
    <3> QED
      BY <1>4, <3>2
  <2>3. input_transfer = FifoValid(buffer) /\ credit_send = stage_valid[Stages]
    BY <1>2, <1>8, <1>9, <1>10 DEF advance
  <2>4. /\ x = One(FifoValid(buffer), FifoFront(buffer))
        /\ o = One(stage_valid[Stages], stage_data[Stages])
    BY <1>8, <2>3
  <2>5. x \in Streams /\ o \in Streams
    BY <1>2, <1>9, <2>4, OneFacts
  <2> HIDE DEF F, x, o
  <2>6. Cat(Cat(o, F[Stages - 1]), x) = Cat(o, Cat(F[Stages - 1], x))
    <3>1. ASSUME NEW r \in Streams PROVE Cat(Cat(o, r), x) = Cat(o, Cat(r, x))
      BY <2>5, JoinFacts
    <3> QED
      BY <1>7, <3>1
  <2>7. Cat(F[Stages - 1], x) \in Streams
    BY <1>7, <2>5, JoinFacts
  <2>8. RegionContents = Cat(o, F[Stages - 1]) /\ RegionContents' = Cat(F[Stages - 1], x)
    BY <1>4, <1>7, <2>2, <2>4
  <2>9. Moves(RegionContents, x, o, RegionContents')
    BY <2>6, <2>7, <2>8 DEF Moves
  <2> QED
    BY <2>9 DEF x, o
<1>11. CASE ~advance
  <2>1. stage_valid' = stage_valid /\ stage_data' = stage_data
    BY <1>3, <1>11 DEF PipelineRegisters, pipelineVars
  <2>2. ~input_transfer /\ ~credit_send
    BY <1>8, <1>11 DEF advance
  <2>3. x = <<>> /\ o = <<>>
    BY <2>2 DEF One
  <2>4. RegionContents' = RegionContents /\ RegionContents \in Streams
    BY <1>4, <1>7, <2>1
  <2> HIDE DEF x, o
  <2>5. Moves(RegionContents, <<>>, <<>>, RegionContents)
    BY <2>4, JoinFacts DEF Moves
  <2>6. Moves(RegionContents, x, o, RegionContents')
    BY <2>3, <2>4, <2>5
  <2> QED
    BY <2>6 DEF x, o
<1> QED
    BY <1>10, <1>11

(* ... and so does the temporal schedule.                                  *)
LEMMA TemporalMoves ==
    ASSUME ChainTypeOK, OneWord, region = "temporal", region' = region, RegionRegisters
    PROVE  Moves(RegionContents, One(input_transfer, FifoFront(buffer)),
                 One(credit_send, output_payload), RegionContents')
<1> DEFINE x == One(input_transfer, FifoFront(buffer))
           o == One(credit_send, output_payload)
<1>1. /\ buffer \in FifoOf(BufferDepth) /\ BufferDepth \in Nat \ {0}
      /\ state \in 0..4 /\ captured \in Words /\ result \in Words
    BY ChainAssumption DEF ChainTypeOK
<1>2. FifoFront(buffer) \in Words
    BY <1>1, FrontIsWord
<1>3. TemporalRegisters
    BY DEF RegionRegisters
<1>4. /\ state' = state_next
      /\ captured' = IF input_transfer THEN FifoFront(buffer) ELSE captured
      /\ result' = IF state = 3 THEN scheduled_sum ELSE result
    BY <1>3 DEF TemporalRegisters
<1>5. /\ input_transfer => state = 0 \/ (state = 4 /\ credit_available)
      /\ (credit_send <=> (state = 4 /\ credit_available))
      /\ output_payload = result
    BY DEF input_transfer, region_ready, source_can_accept, credit_send, output_valid,
           output_payload
<1>6. state = 3 => scheduled_sum = captured
    BY DEF scheduled_sum, OneWord
<1>7. /\ RegionContents = IF state = 0 THEN <<>> ELSE IF state = 4 THEN <<result>>
                          ELSE <<captured>>
      /\ RegionContents' = IF state' = 0 THEN <<>> ELSE IF state' = 4 THEN <<result'>>
                           ELSE <<captured'>>
    BY DEF RegionContents
<1>8. \A s \in Streams : Cat(s, <<>>) = s /\ Cat(<<>>, s) = s
    BY JoinFacts
<1>9. <<>> \in Streams /\ \A w \in Words : <<w>> \in Streams
    BY DEF Streams
<1>10. input_transfer \in BOOLEAN /\ credit_send \in BOOLEAN
    BY DEF input_transfer, credit_send
<1>11. CASE state = 0
  <2>1. RegionContents = <<>> /\ o = <<>>
    <3>1. ~credit_send
      BY <1>5, <1>11
    <3> QED
      BY <1>7, <1>11, <3>1 DEF One
  <2>2. RegionContents' = x
    BY <1>4, <1>7, <1>11 DEF state_next, One
  <2>3. x \in Streams
    BY <1>2, <1>9 DEF One
  <2> HIDE DEF x, o
  <2> QED
    BY <1>8, <2>1, <2>2, <2>3 DEF Moves, x, o
<1>12. CASE state \in {1, 2, 3}
  <2>1. x = <<>> /\ o = <<>>
    <3>1. ~input_transfer /\ ~credit_send
      BY <1>5, <1>12
    <3> QED
      BY <3>1 DEF One
  <2>2. RegionContents = <<captured>> /\ RegionContents' = <<captured>>
    BY <1>4, <1>5, <1>6, <1>7, <1>12 DEF state_next
  <2>3. <<captured>> \in Streams
    BY <1>1, <1>9
  <2> QED
    BY <1>8, <2>1, <2>2, <2>3 DEF Moves
<1>13. CASE state = 4 /\ ~credit_available
  <2>1. x = <<>> /\ o = <<>>
    <3>1. ~input_transfer /\ ~credit_send
      BY <1>5, <1>13
    <3> QED
      BY <3>1 DEF One
  <2>2. RegionContents = <<result>> /\ RegionContents' = <<result>>
    BY <1>4, <1>7, <1>13 DEF state_next
  <2>3. <<result>> \in Streams
    BY <1>1, <1>9
  <2> QED
    BY <1>8, <2>1, <2>2, <2>3 DEF Moves
<1>14. CASE state = 4 /\ credit_available
  <2>1. RegionContents = <<result>> /\ o = <<result>>
    <3>1. credit_send /\ output_payload = result
      BY <1>5, <1>14
    <3> QED
      BY <1>7, <1>14, <3>1 DEF One
  <2>2. RegionContents' = x
    BY <1>4, <1>7, <1>14 DEF state_next, One
  <2>3. x \in Streams
    BY <1>2, <1>9 DEF One
  <2> HIDE DEF x, o
  <2>4. Moves(RegionContents, x, o, RegionContents')
    BY <2>1, <2>2, <2>3 DEF Moves
  <2> QED
    BY <2>4 DEF x, o
<1> QED
    BY <1>1, <1>11, <1>12, <1>13, <1>14

-----------------------------------------------------------------------------
(* A word before a stream is its head.                                     *)
LEMMA JoinHead ==
    ASSUME NEW a \in Words, NEW s \in Streams
    PROVE  /\ Cat(<<a>>, s) # <<>> /\ Head(Cat(<<a>>, s)) = a /\ Tail(Cat(<<a>>, s)) = s
           /\ Append(s, a) = Cat(s, <<a>>) /\ <<a>> \in Streams
BY DEF Streams, Cat

(* A stream is its head before its tail.                                   *)
LEMMA HeadJoin ==
    ASSUME NEW q \in Streams, q # <<>>
    PROVE  Head(q) \in Words /\ Tail(q) \in Streams /\ q = Cat(<<Head(q)>>, Tail(q))
<1>1. Head(q) \in Words /\ Tail(q) \in Streams
    BY HeadTailProperties DEF Streams
<1>2. q = Cat(<<Head(q)>>, Tail(q))
    BY DEF Streams, Cat
<1> QED
    BY <1>1, <1>2

(* A move of at most a word at each end is a step of a queue.              *)
LEMMA QueueStep ==
    ASSUME NEW q \in Streams, NEW q2, NEW put \in BOOLEAN, NEW take \in BOOLEAN,
           NEW d \in Words, NEW front \in Words, take => q # <<>>,
           Moves(q, One(put, d), One(take, front), q2)
    PROVE  /\ take => front = Head(q)
           /\ put /\ take => q2 = Append(Tail(q), d)
           /\ put /\ ~take => q2 = Append(q, d)
           /\ ~put /\ take => q2 = Tail(q)
           /\ ~put /\ ~take => q2 = q
<1>1. q2 \in Streams /\ Cat(q, One(put, d)) = Cat(One(take, front), q2)
    BY DEF Moves
<1>2. /\ (put => One(put, d) = <<d>>) /\ (~put => One(put, d) = <<>>)
      /\ (take => One(take, front) = <<front>>) /\ (~take => One(take, front) = <<>>)
    BY DEF One
<1>3. Cat(q, <<>>) = q /\ Cat(<<>>, q2) = q2
    BY <1>1, JoinFacts
<1>4. Append(q, d) = Cat(q, <<d>>) /\ <<d>> \in Streams
    BY JoinHead
<1>5. CASE ~take
  <2>1. Cat(q, One(put, d)) = q2
    BY <1>1, <1>2, <1>3, <1>5
  <2> QED
    BY <1>2, <1>3, <1>4, <1>5, <2>1
<1>6. CASE take
  <2>1. Cat(q, One(put, d)) = Cat(<<front>>, q2)
    BY <1>1, <1>2, <1>6
  <2>2. Head(Cat(<<front>>, q2)) = front /\ Tail(Cat(<<front>>, q2)) = q2
    BY <1>1, JoinHead
  <2>3. CASE ~put
    <3>1. q = Cat(<<front>>, q2)
      BY <1>2, <1>3, <2>1, <2>3
    <3> QED
      BY <1>6, <2>2, <2>3, <3>1
  <2>4. CASE put
    <3> DEFINE h == Head(q)
               t == Tail(q)
    <3>1. h \in Words /\ t \in Streams /\ q = Cat(<<h>>, t)
      BY <1>6, HeadJoin
    <3> HIDE DEF h, t
    <3>2. Cat(Cat(<<h>>, t), <<d>>) = Cat(<<front>>, q2)
      BY <1>2, <2>1, <2>4, <3>1
    <3>3. <<h>> \in Streams
      BY <3>1, JoinHead
    <3>4. Cat(Cat(<<h>>, t), <<d>>) = Cat(<<h>>, Cat(t, <<d>>)) /\ Cat(t, <<d>>) \in Streams
      BY <1>4, <3>1, <3>3, JoinFacts
    <3>5. /\ Head(Cat(<<h>>, Cat(t, <<d>>))) = h
          /\ Tail(Cat(<<h>>, Cat(t, <<d>>))) = Cat(t, <<d>>)
      BY <3>1, <3>4, JoinHead
    <3>6. h = front /\ Cat(t, <<d>>) = q2
      BY <2>2, <3>2, <3>4, <3>5
    <3>7. Append(t, d) = Cat(t, <<d>>)
      BY <3>1, JoinHead
    <3> QED
      BY <1>6, <2>4, <3>6, <3>7 DEF h, t
  <2> QED
    BY <2>3, <2>4
<1> QED
    BY <1>5, <1>6

-----------------------------------------------------------------------------
(* The inductive invariant: the FIFOs are linked, the credits and the      *)
(* words in the receiver are its capacity, the schedule works on one word. *)
ChainInv ==
    /\ ChainTypeOK /\ OneWord
    /\ Linked(buffer, BufferDepth) /\ Linked(receiver, CreditCapacity)
    /\ credits + receiver.count = CreditCapacity

(* What the parts of the chain hold.                                       *)
LEMMA ChainFacts ==
    ASSUME ChainInv
    PROVE  /\ FifoContents(buffer, BufferDepth) \in Streams
           /\ Len(FifoContents(buffer, BufferDepth)) = buffer.count
           /\ FifoContents(receiver, CreditCapacity) \in Streams
           /\ Len(FifoContents(receiver, CreditCapacity)) = receiver.count
           /\ RegionContents \in Streams /\ Len(RegionContents) <= Stages
           /\ input_transfer /\ ~credit_available => Len(RegionContents) < Stages
           /\ InChain = Cat(Cat(FifoContents(receiver, CreditCapacity), RegionContents),
                            FifoContents(buffer, BufferDepth))
<1>1. /\ buffer \in FifoOf(BufferDepth) /\ BufferDepth \in Nat \ {0}
      /\ receiver \in FifoOf(CreditCapacity) /\ CreditCapacity \in Nat \ {0}
      /\ Stages \in Nat \ {0} /\ region \in {"pipeline", "temporal"}
      /\ stage_valid \in [1..Stages -> BOOLEAN] /\ stage_data \in [1..Stages -> Words]
      /\ state \in 0..4 /\ captured \in Words /\ result \in Words
    BY ChainAssumption DEF ChainInv, ChainTypeOK
<1>2. /\ FifoContents(buffer, BufferDepth) \in Streams
      /\ Len(FifoContents(buffer, BufferDepth)) = buffer.count
      /\ FifoContents(receiver, CreditCapacity) \in Streams
      /\ Len(FifoContents(receiver, CreditCapacity)) = receiver.count
    BY <1>1, HeldFacts
<1>3. InChain = Cat(Cat(FifoContents(receiver, CreditCapacity), RegionContents),
                    FifoContents(buffer, BufferDepth))
    BY DEF InChain, Cat
<1>4. CASE region = "temporal"
  <2>1. RegionContents = IF state = 0 THEN <<>> ELSE IF state = 4 THEN <<result>>
                         ELSE <<captured>>
    BY <1>4 DEF RegionContents
  <2>2. RegionContents \in Streams /\ Len(RegionContents) = IF state = 0 THEN 0 ELSE 1
    BY <1>1, <2>1 DEF Streams
  <2>3. input_transfer /\ ~credit_available => state = 0
    BY <1>4 DEF input_transfer, region_ready, source_can_accept
  <2> QED
    BY <1>1, <1>2, <1>3, <2>2, <2>3
<1>5. CASE region = "pipeline"
  <2> DEFINE F == StageContents(stage_valid, stage_data)
             o == One(stage_valid[Stages], stage_data[Stages])
  <2>1. RegionContents = F[Stages]
    BY <1>5 DEF RegionContents
  <2>2. /\ \A i \in 1..Stages : F[i] = Cat(One(stage_valid[i], stage_data[i]), F[i - 1])
        /\ \A i \in 0..Stages : F[i] \in Streams /\ Len(F[i]) <= i
    BY <1>1, StageFacts
  <2>3. Stages \in 1..Stages /\ Stages \in 0..Stages /\ Stages - 1 \in 0..Stages
    BY <1>1
  <2> HIDE DEF F
  <2>4. /\ F[Stages] = Cat(o, F[Stages - 1])
        /\ F[Stages] \in Streams /\ Len(F[Stages]) <= Stages
        /\ F[Stages - 1] \in Streams /\ Len(F[Stages - 1]) <= Stages - 1
    BY <2>2, <2>3
  <2>5. input_transfer /\ ~credit_available => ~stage_valid[Stages]
    BY <1>5 DEF input_transfer, region_ready, advance
  <2>6. ~stage_valid[Stages] => o = <<>>
    BY DEF One
  <2>7. Cat(<<>>, F[Stages - 1]) = F[Stages - 1]
    BY <2>4, JoinFacts
  <2>8. Len(F[Stages]) \in Nat /\ Len(F[Stages - 1]) \in Nat
    BY <2>4, JoinFacts
  <2> HIDE DEF o
  <2>9. ~stage_valid[Stages] => Len(F[Stages]) < Stages
    <3> SUFFICES ASSUME ~stage_valid[Stages] PROVE Len(F[Stages]) < Stages
      OBVIOUS
    <3>1. F[Stages] = F[Stages - 1]
      BY <2>4, <2>6, <2>7
    <3> QED
      BY <1>1, <2>4, <2>8, <3>1
  <2> QED
    BY <1>2, <1>3, <2>1, <2>4, <2>5, <2>9
<1> QED
    BY <1>1, <1>4, <1>5

(* A clock edge out of reset.                                              *)
LEMMA EdgeMoves ==
    ASSUME ChainInv, NEW valid \in BOOLEAN, NEW word \in Words, NEW ready \in BOOLEAN,
           ChainRegisters(valid, word, ready), UNCHANGED <<build, region, chain_reset>>
    PROVE  /\ ChainInv'
           /\ Moves(InChain, One(valid /\ stream_ready, word),
                    One(credit_return(ready), FifoFront(receiver)), InChain')
<1> DEFINE b == FifoContents(buffer, BufferDepth)
           b2 == FifoContents(buffer', BufferDepth)
           r == FifoContents(receiver, CreditCapacity)
           r2 == FifoContents(receiver', CreditCapacity)
           put == valid /\ stream_ready
           x == One(put, word)
           y == One(input_transfer, FifoFront(buffer))
           z == One(credit_send, output_payload)
           t == One(credit_return(ready), FifoFront(receiver))
<1>1. /\ buffer \in FifoOf(BufferDepth) /\ BufferDepth \in Nat \ {0}
      /\ receiver \in FifoOf(CreditCapacity) /\ CreditCapacity \in Nat \ {0}
      /\ Stages \in Nat \ {0} /\ region \in Regions /\ region \in {"pipeline", "temporal"}
      /\ stage_data \in [1..Stages -> Words] /\ result \in Words /\ taken \in Words
      /\ credits \in 0..CreditCapacity /\ credits + receiver.count = CreditCapacity
      /\ Linked(buffer, BufferDepth) /\ Linked(receiver, CreditCapacity)
      /\ build \in Builds /\ chain_reset \in BOOLEAN
      /\ ChainTypeOK /\ OneWord
    BY ChainAssumption DEF ChainInv, ChainTypeOK
<1>2. /\ buffer' = FifoNext(buffer, BufferDepth, put, word, input_transfer)
      /\ RegionRegisters
      /\ credits' = credits_next(ready)
      /\ receiver' = FifoNext(receiver, CreditCapacity, credit_send /\ accepted(ready),
                              output_payload, credit_return(ready))
      /\ taken' = IF credit_return(ready) THEN FifoFront(receiver) ELSE taken
      /\ refused' = {}
    BY DEF ChainRegisters, RegionRegisters
<1>3. /\ buffer.count \in 0..BufferDepth /\ receiver.count \in 0..CreditCapacity
      /\ FifoFront(buffer) \in Words /\ FifoFront(receiver) \in Words
    BY <1>1, FifoFields, FrontIsWord
<1>4. output_payload \in Words
  <2>1. stage_data[Stages] \in Words
    BY <1>1
  <2> QED
    BY <1>1, <2>1 DEF output_payload
<1>5. /\ put \in BOOLEAN /\ input_transfer \in BOOLEAN /\ credit_send \in BOOLEAN
      /\ credit_return(ready) \in BOOLEAN
    BY DEF input_transfer, credit_send, credit_return, FifoPop
<1>6. /\ input_transfer => buffer.count # 0
      /\ put => buffer.count < BufferDepth \/ input_transfer
  <2>1. input_transfer => buffer.count # 0
    BY DEF input_transfer, FifoValid
  <2>2. stream_ready => buffer.count # BufferDepth \/ input_transfer
    BY DEF stream_ready, FifoReady, FifoFull, FifoPop
  <2> QED
    BY <1>1, <1>3, <2>1, <2>2
<1>7. credit_return(ready) => receiver.count # 0
    BY DEF credit_return, FifoPop, FifoValid
<1>8. credit_send => receiver.count < CreditCapacity
  <2>1. credit_send => credits # 0
    BY DEF credit_send, credit_available
  <2> QED
    BY <1>1, <1>3, <2>1
<1>9. (credit_send /\ accepted(ready)) = credit_send
  <2>1. receiver.count < CreditCapacity => accepted(ready)
    BY <1>1, <1>3 DEF accepted, FifoReady, FifoFull
  <2> QED
    BY <1>5, <1>8, <2>1
<1> HIDE DEF put
<1>10. /\ buffer' \in FifoOf(BufferDepth) /\ Linked(buffer', BufferDepth)
       /\ Moves(b, x, y, b2)
    BY <1>1, <1>2, <1>5, <1>6, FifoMoves
<1>11. /\ receiver' \in FifoOf(CreditCapacity) /\ Linked(receiver', CreditCapacity)
       /\ receiver'.count = (receiver.count + AsNumber(credit_send))
                              - AsNumber(credit_return(ready))
       /\ Moves(r, z, t, r2)
  <2>1. receiver' = FifoNext(receiver, CreditCapacity, credit_send, output_payload,
                             credit_return(ready))
    BY <1>2, <1>9
  <2>2. ASSUME NEW send \in BOOLEAN, NEW back \in BOOLEAN, NEW v \in Words,
               send => receiver.count < CreditCapacity, back => receiver.count # 0
        PROVE  LET g == FifoNext(receiver, CreditCapacity, send, v, back)
               IN /\ g \in FifoOf(CreditCapacity) /\ Linked(g, CreditCapacity)
                  /\ g.count = (receiver.count + AsNumber(send)) - AsNumber(back)
                  /\ Moves(r, One(send, v), One(back, FifoFront(receiver)),
                           FifoContents(g, CreditCapacity))
    <3> HIDE DEF r
    <3>1. receiver \in FifoOf(CreditCapacity) /\ Linked(receiver, CreditCapacity)
      BY <1>1
    <3>2. CreditCapacity \in Nat \ {0}
      BY <1>1
    <3> QED
      BY <2>2, <3>1, <3>2, FifoMoves DEF r
  <2> QED
    BY <1>4, <1>5, <1>7, <1>8, <2>1, <2>2
<1>12. Moves(RegionContents, y, z, RegionContents')
    BY <1>1, <1>2, PipelineMoves, TemporalMoves
<1>13. credits' \in 0..CreditCapacity /\ credits' + receiver'.count = CreditCapacity
  <2>1. credits' = credits + AsNumber(credit_return(ready)) - AsNumber(credit_send)
    BY <1>2 DEF credits_next, AsNumber
  <2>2. receiver'.count \in 0..CreditCapacity
    BY <1>1, <1>11, FifoFields
  <2>3. AsNumber(credit_return(ready)) \in 0..1 /\ AsNumber(credit_send) \in 0..1
    BY DEF AsNumber
  <2>4. receiver'.count = (receiver.count + AsNumber(credit_send)) - AsNumber(credit_return(ready))
    BY <1>11
  <2>5. credits' + receiver'.count = CreditCapacity /\ credits' \in Int
    <3>1. ASSUME NEW c \in Int, NEW k \in Int, NEW i \in 0..1, NEW j \in 0..1
          PROVE  (c + i - j) + ((k + j) - i) = c + k /\ c + i - j \in Int
      OBVIOUS
    <3>2. credits \in Int /\ receiver.count \in Int
      BY <1>1, <1>3
    <3> QED
      BY <1>1, <2>1, <2>3, <2>4, <3>1, <3>2
  <2> QED
    BY <1>1, <2>2, <2>5
<1>14. taken' \in Words
    BY <1>1, <1>2, <1>3
<1>15. /\ stage_valid' \in [1..Stages -> BOOLEAN]
       /\ stage_data' \in [1..Stages -> Words]
       /\ state' \in 0..4
       /\ {captured', product0', product1', result'} \subseteq Words
       /\ OneWord'
    BY <1>1, <1>2, RegionTyped
<1>16. ChainTypeOK'
    BY <1>1, <1>2, <1>10, <1>11, <1>13, <1>14, <1>15 DEF ChainTypeOK
<1>17. ChainInv'
    BY <1>10, <1>11, <1>13, <1>15, <1>16 DEF ChainInv
<1>18. b \in Streams /\ r \in Streams /\ RegionContents \in Streams
    BY ChainFacts
<1>19. x \in Streams /\ y \in Streams /\ z \in Streams /\ t \in Streams
    BY <1>3, <1>4, <1>5, OneFacts
<1>20. InChain = Cat(Cat(r, RegionContents), b) /\ InChain' = Cat(Cat(r2, RegionContents'), b2)
    BY DEF InChain, Cat
<1> HIDE DEF b, b2, r, r2, x, y, z, t
<1>21. Moves(Cat(r, RegionContents), y, t, Cat(r2, RegionContents'))
    BY <1>11, <1>12, <1>18, <1>19, TwoInARow
<1>22. Cat(r, RegionContents) \in Streams
    BY <1>18, JoinFacts
<1>23. Moves(Cat(Cat(r, RegionContents), b), x, t, Cat(Cat(r2, RegionContents'), b2))
    BY <1>10, <1>18, <1>19, <1>21, <1>22, TwoInARow
<1> QED
    BY <1>17, <1>20, <1>23 DEF x, t, put

-----------------------------------------------------------------------------
(* What a reset leaves: nothing is held anywhere.                          *)
NothingHeld ==
    /\ buffer.count = 0 /\ receiver.count = 0 /\ state = 0
    /\ stage_valid = [i \in 1..Stages |-> FALSE]

(* A chain with no word in any part is an empty queue.                     *)
LEMMA NothingInChain == ChainInv /\ NothingHeld => InChain = <<>>
<1> SUFFICES ASSUME ChainInv, NothingHeld PROVE InChain = <<>>
    OBVIOUS
<1> DEFINE F == StageContents(stage_valid, stage_data)
<1>1. /\ Stages \in Nat \ {0}
      /\ stage_valid \in [1..Stages -> BOOLEAN] /\ stage_data \in [1..Stages -> Words]
    BY ChainAssumption DEF ChainInv, ChainTypeOK
<1>2. F[0] = <<>> /\ \A i \in 1..Stages : F[i] = Cat(One(stage_valid[i], stage_data[i]), F[i - 1])
    BY <1>1, StageFacts
<1> HIDE DEF F
<1> DEFINE S == {i \in 0..Stages : F[i] = <<>>}
<1>3. 0 \in S
    BY <1>1, <1>2
<1>4. ASSUME NEW i \in 1..Stages, i - 1 \in S PROVE i \in S
  <2>1. ~stage_valid[i] /\ F[i - 1] = <<>>
    BY <1>4 DEF NothingHeld
  <2>2. F[i] = Cat(<<>>, <<>>)
    BY <1>2, <2>1 DEF One
  <2>3. Cat(<<>>, <<>>) = <<>>
    BY JoinFacts
  <2> QED
    BY <1>1, <2>2, <2>3
<1>5. \A i \in 0..Stages : i \in S
  <2> HIDE DEF S
  <2> QED
    BY <1>1, <1>3, <1>4, UpTo
<1>6. F[Stages] = <<>>
    BY <1>1, <1>5
<1>7. RegionContents = <<>>
    BY <1>6 DEF RegionContents, NothingHeld, F
<1> DEFINE b == FifoContents(buffer, BufferDepth)
           r == FifoContents(receiver, CreditCapacity)
<1>8. /\ b \in Streams /\ Len(b) = 0 /\ r \in Streams /\ Len(r) = 0
      /\ InChain = Cat(Cat(r, RegionContents), b)
    BY ChainFacts DEF NothingHeld
<1> HIDE DEF b, r
<1>9. b = <<>> /\ r = <<>>
    BY <1>8, JoinFacts
<1>10. Cat(<<>>, <<>>) = <<>>
    BY JoinFacts
<1> QED
    BY <1>7, <1>8, <1>9, <1>10

(* A FIFO that is cleared keeps its memory and holds nothing.              *)
LEMMA Cleared ==
    ASSUME NEW depth \in Nat \ {0}, NEW storage \in [0..(depth - 1) -> Words],
           NEW f, f = [storage |-> storage, rd |-> 0, wr |-> 0, count |-> 0]
    PROVE  f \in FifoOf(depth) /\ Linked(f, depth) /\ f.count = 0
<1>1. f \in FifoOf(depth)
    BY DEF FifoOf
<1>2. Linked(f, depth)
    BY DEF Linked, Wrap
<1> QED
    BY <1>1, <1>2

(* The invariant holds of the initial states ...                           *)
LEMMA ChainStarts == ChainInit => ChainInv /\ NothingHeld
<1> SUFFICES ASSUME ChainInit PROVE ChainInv /\ NothingHeld
    OBVIOUS
<1>1. /\ BufferDepth \in Nat \ {0} /\ CreditCapacity \in Nat \ {0} /\ Stages \in Nat \ {0}
      /\ ZeroWord \in Words
    BY ChainAssumption
<1>2. ASSUME NEW depth \in Nat \ {0}
      PROVE  EmptyFifo(depth) \in FifoOf(depth) /\ Linked(EmptyFifo(depth), depth)
             /\ EmptyFifo(depth).count = 0
  <2>1. [a \in 0..(depth - 1) |-> ZeroWord] \in [0..(depth - 1) -> Words]
    BY <1>1
  <2>2. EmptyFifo(depth) = [storage |-> [a \in 0..(depth - 1) |-> ZeroWord],
                            rd |-> 0, wr |-> 0, count |-> 0]
    BY DEF EmptyFifo
  <2> QED
    BY <2>1, <2>2, Cleared
<1>3. /\ buffer = EmptyFifo(BufferDepth) /\ receiver = EmptyFifo(CreditCapacity)
      /\ stage_valid = [i \in 1..Stages |-> FALSE]
      /\ stage_data = [i \in 1..Stages |-> ZeroWord]
      /\ state = 0
      /\ captured = ZeroWord /\ product0 = ZeroWord /\ product1 = ZeroWord
      /\ result = ZeroWord
      /\ credits = CreditCapacity
      /\ build \in Builds /\ region \in Regions
      /\ chain_reset = FALSE /\ taken = ZeroWord /\ refused = {}
    BY DEF ChainInit, ChainCleared
<1>4. /\ buffer \in FifoOf(BufferDepth) /\ Linked(buffer, BufferDepth) /\ buffer.count = 0
      /\ receiver \in FifoOf(CreditCapacity) /\ Linked(receiver, CreditCapacity)
      /\ receiver.count = 0
    BY <1>1, <1>2, <1>3
<1>5. ChainTypeOK
  <2>1. stage_valid \in [1..Stages -> BOOLEAN] /\ stage_data \in [1..Stages -> Words]
    BY <1>1, <1>3
  <2>2. state \in 0..4 /\ credits \in 0..CreditCapacity
    BY <1>1, <1>3
  <2>3. /\ {captured, product0, product1, result, taken} \subseteq Words
        /\ chain_reset \in BOOLEAN /\ refused \subseteq Checks
    BY <1>1, <1>3
  <2> QED
    BY <1>3, <1>4, <2>1, <2>2, <2>3 DEF ChainTypeOK
<1>6. OneWord
    BY <1>3 DEF OneWord
<1>7. credits + receiver.count = CreditCapacity
    BY <1>1, <1>3, <1>4
<1> QED
    BY <1>3, <1>4, <1>5, <1>6, <1>7 DEF ChainInv, NothingHeld

(* ... and after an edge in reset ...                                      *)
LEMMA ResetClears == ChainInv /\ ChainResetEdge => ChainInv' /\ NothingHeld'
<1> SUFFICES ASSUME ChainInv, ChainResetEdge PROVE ChainInv' /\ NothingHeld'
    OBVIOUS
<1>1. /\ BufferDepth \in Nat \ {0} /\ CreditCapacity \in Nat \ {0} /\ Stages \in Nat \ {0}
      /\ ZeroWord \in Words
      /\ buffer \in FifoOf(BufferDepth) /\ receiver \in FifoOf(CreditCapacity)
      /\ build \in Builds /\ region \in Regions /\ taken \in Words
    BY ChainAssumption DEF ChainInv, ChainTypeOK
<1>2. /\ buffer' = [EmptyFifo(BufferDepth) EXCEPT !.storage = buffer.storage]
      /\ receiver' = [EmptyFifo(CreditCapacity) EXCEPT !.storage = receiver.storage]
      /\ stage_valid' = [i \in 1..Stages |-> FALSE]
      /\ stage_data' = [i \in 1..Stages |-> ZeroWord]
      /\ state' = 0
      /\ captured' = ZeroWord /\ product0' = ZeroWord /\ product1' = ZeroWord
      /\ result' = ZeroWord
      /\ credits' = CreditCapacity
      /\ chain_reset' \in BOOLEAN /\ refused' = {}
      /\ build' = build /\ region' = region /\ taken' = taken
    BY DEF ChainResetEdge
<1>3. /\ buffer.storage \in [0..(BufferDepth - 1) -> Words]
      /\ receiver.storage \in [0..(CreditCapacity - 1) -> Words]
    BY <1>1, FifoFields
<1>4. /\ buffer' \in FifoOf(BufferDepth) /\ Linked(buffer', BufferDepth) /\ buffer'.count = 0
      /\ receiver' \in FifoOf(CreditCapacity) /\ Linked(receiver', CreditCapacity)
      /\ receiver'.count = 0
  <2>1. ASSUME NEW depth, NEW storage
        PROVE  [EmptyFifo(depth) EXCEPT !.storage = storage]
                 = [storage |-> storage, rd |-> 0, wr |-> 0, count |-> 0]
    BY DEF EmptyFifo
  <2>2. /\ buffer' = [storage |-> buffer.storage, rd |-> 0, wr |-> 0, count |-> 0]
        /\ receiver' = [storage |-> receiver.storage, rd |-> 0, wr |-> 0, count |-> 0]
    BY <1>2, <2>1
  <2>3. buffer' \in FifoOf(BufferDepth) /\ Linked(buffer', BufferDepth) /\ buffer'.count = 0
    BY <1>1, <1>3, <2>2, Cleared
  <2>4. /\ receiver' \in FifoOf(CreditCapacity) /\ Linked(receiver', CreditCapacity)
        /\ receiver'.count = 0
    BY <1>1, <1>3, <2>2, Cleared
  <2> QED
    BY <2>3, <2>4
<1>5. ChainTypeOK'
  <2>1. stage_valid' \in [1..Stages -> BOOLEAN] /\ stage_data' \in [1..Stages -> Words]
    BY <1>1, <1>2
  <2> QED
    BY <1>1, <1>2, <1>4, <2>1 DEF ChainTypeOK
<1>6. OneWord'
    BY <1>2 DEF OneWord
<1>7. credits' + receiver'.count = CreditCapacity
    BY <1>1, <1>2, <1>4
<1> QED
    BY <1>2, <1>4, <1>5, <1>6, <1>7 DEF ChainInv, NothingHeld

(* ... and every step keeps it.                                            *)
LEMMA ChainKept == ChainInv /\ [ChainNext]_chainVars => ChainInv'
<1> SUFFICES ASSUME ChainInv, [ChainNext]_chainVars PROVE ChainInv'
    OBVIOUS
<1> USE DEF pipelineVars, temporalVars
<1>1. ASSUME NEW ready \in BOOLEAN, NEW valid \in BOOLEAN, NEW word \in Words,
             ChainEdge(valid, word, ready)
      PROVE  ChainInv'
    BY <1>1, EdgeMoves DEF ChainEdge
<1>2. ASSUME NEW ready \in BOOLEAN, NEW valid \in BOOLEAN, RefusedEdge(valid, ready)
      PROVE  ChainInv'
    BY <1>2 DEF RefusedEdge, failed_checks, ChainInv, ChainTypeOK, OneWord
<1>3. CASE AssertChainReset
    BY <1>3 DEF AssertChainReset, ChainInv, ChainTypeOK, OneWord
<1>4. CASE ChainResetEdge
    BY <1>4, ResetClears
<1>5. CASE UNCHANGED chainVars
    BY <1>5 DEF chainVars, ChainInv, ChainTypeOK, OneWord
<1> QED
    BY <1>1, <1>2, <1>3, <1>4, <1>5 DEF ChainNext, ChainClock

(* Every register of the chain keeps its type, in either build and with    *)
(* either region: no word is garbled and no count leaves its range.        *)
THEOREM ChainTypeCorrect == ChainSpec => []ChainTypeOK
<1>1. ChainInv => ChainTypeOK
    BY DEF ChainInv
<1> QED
    BY ChainStarts, ChainKept, <1>1, PTL DEF ChainSpec

(* A word is only accepted where there is room for it.                     *)
LEMMA RoomForPush ==
    ASSUME ChainInv, stream_ready
    PROVE  Len(InChain) < BufferDepth + Stages + CreditCapacity
<1> DEFINE b == FifoContents(buffer, BufferDepth)
           r == FifoContents(receiver, CreditCapacity)
<1>1. /\ b \in Streams /\ Len(b) = buffer.count
      /\ r \in Streams /\ Len(r) = receiver.count
      /\ RegionContents \in Streams /\ Len(RegionContents) <= Stages
      /\ input_transfer /\ ~credit_available => Len(RegionContents) < Stages
      /\ InChain = Cat(Cat(r, RegionContents), b)
    BY ChainFacts
<1> HIDE DEF b, r
<1>2. Len(InChain) = Len(r) + Len(RegionContents) + Len(b) /\ Len(RegionContents) \in Nat
  <2>1. Cat(r, RegionContents) \in Streams
        /\ Len(Cat(r, RegionContents)) = Len(r) + Len(RegionContents)
    BY <1>1, JoinFacts
  <2>2. Len(Cat(Cat(r, RegionContents), b)) = Len(Cat(r, RegionContents)) + Len(b)
    BY <1>1, <2>1, JoinFacts
  <2>3. Len(RegionContents) \in Nat
    BY <1>1, JoinFacts
  <2> QED
    BY <1>1, <2>1, <2>2, <2>3
<1>3. /\ BufferDepth \in Nat /\ Stages \in Nat /\ CreditCapacity \in Nat
      /\ buffer.count \in 0..BufferDepth /\ receiver.count \in 0..CreditCapacity
      /\ credits \in Nat /\ credits + receiver.count = CreditCapacity
    BY ChainAssumption, FifoFields DEF ChainInv, ChainTypeOK
<1>4. buffer.count # BufferDepth \/ input_transfer
    BY DEF stream_ready, FifoReady, FifoFull, FifoPop
<1>5. credit_available => receiver.count < CreditCapacity
    BY <1>3 DEF credit_available
<1>6. \/ buffer.count < BufferDepth \/ Len(RegionContents) < Stages
      \/ receiver.count < CreditCapacity
    BY <1>1, <1>3, <1>4, <1>5
<1>7. ASSUME NEW i \in Nat, NEW j \in Nat, NEW k \in Nat,
             i <= CreditCapacity, j <= Stages, k <= BufferDepth,
             k < BufferDepth \/ j < Stages \/ i < CreditCapacity
      PROVE  i + j + k < BufferDepth + Stages + CreditCapacity
    BY <1>3, <1>7
<1>8. /\ Len(r) \in Nat /\ Len(b) \in Nat
      /\ Len(r) <= CreditCapacity /\ Len(b) <= BufferDepth
      /\ Len(b) < BufferDepth \/ Len(RegionContents) < Stages \/ Len(r) < CreditCapacity
    BY <1>1, <1>3, <1>6
<1>9. Len(r) + Len(RegionContents) + Len(b) < BufferDepth + Stages + CreditCapacity
    BY <1>1, <1>2, <1>7, <1>8
<1> QED
    BY <1>2, <1>9

(* From the source to the sink the chain is a queue: each word accepted is *)
(* given to the sink once, whole and in order, for all depths, capacities  *)
(* and payloads, in either build and with either elastic region.           *)
THEOREM ChainIsQueue == ChainSpec => ChainImplementsQueue
<1> DEFINE q == IF chain_reset THEN <<>> ELSE InChain
<1> USE DEF ChainQueue!vars
<1>1. ChainInit => ChainQueue!Init
  <2> SUFFICES ASSUME ChainInit PROVE ChainQueue!Init
    OBVIOUS
  <2>1. InChain = <<>>
    BY ChainStarts, NothingInChain
  <2>2. chain_reset = FALSE /\ taken = ZeroWord
    BY DEF ChainInit
  <2> QED
    BY <2>1, <2>2 DEF ChainQueue!Init
<1>2. ASSUME ChainInv, [ChainNext]_chainVars
      PROVE  [ChainQueue!Next]_(ChainQueue!vars)
  <2>1. ASSUME NEW ready \in BOOLEAN, NEW valid \in BOOLEAN, NEW word \in Words,
               ChainEdge(valid, word, ready)
        PROVE  [ChainQueue!Next]_(ChainQueue!vars)
    <3> DEFINE put == valid /\ stream_ready
               take == credit_return(ready)
    <3>1. /\ ChainRegisters(valid, word, ready) /\ UNCHANGED <<build, region, chain_reset>>
          /\ ~chain_reset
      BY <2>1 DEF ChainEdge
    <3>2. Moves(InChain, One(put, word), One(take, FifoFront(receiver)), InChain')
      BY <1>2, <3>1, EdgeMoves
    <3>3. q = InChain /\ q' = InChain' /\ chain_reset' = chain_reset
      BY <3>1
    <3>4. taken' = IF take THEN FifoFront(receiver) ELSE taken
      BY <3>1 DEF ChainRegisters
    <3>5. put \in BOOLEAN /\ take \in BOOLEAN
      BY DEF credit_return, FifoPop
    <3>6. FifoFront(receiver) \in Words
      BY <1>2, ChainAssumption, FrontIsWord DEF ChainInv, ChainTypeOK
    <3>7. InChain \in Streams /\ (take => InChain # <<>>)
      <4> DEFINE b == FifoContents(buffer, BufferDepth)
                 r == FifoContents(receiver, CreditCapacity)
      <4>1. /\ b \in Streams /\ r \in Streams /\ RegionContents \in Streams
            /\ Len(r) = receiver.count /\ InChain = Cat(Cat(r, RegionContents), b)
        BY <1>2, ChainFacts
      <4>2. take => receiver.count # 0
        BY DEF credit_return, FifoPop, FifoValid
      <4> HIDE DEF b, r, take
      <4>3. /\ Cat(r, RegionContents) \in Streams
            /\ Len(Cat(r, RegionContents)) = Len(r) + Len(RegionContents)
        BY <4>1, JoinFacts
      <4>4. InChain \in Streams /\ Len(InChain) = Len(Cat(r, RegionContents)) + Len(b)
        BY <4>1, <4>3, JoinFacts
      <4>5. Len(b) \in Nat /\ Len(r) \in Nat /\ Len(RegionContents) \in Nat
        BY <4>1, JoinFacts
      <4>6. take => Len(InChain) # 0
        BY <4>1, <4>2, <4>3, <4>4, <4>5
      <4> QED
        BY <4>4, <4>6, JoinFacts
    <3>8. put => Len(InChain) < BufferDepth + Stages + CreditCapacity
      BY <1>2, RoomForPush
    <3> HIDE DEF put, take
    <3>9. /\ take => FifoFront(receiver) = Head(InChain)
          /\ put /\ take => InChain' = Append(Tail(InChain), word)
          /\ put /\ ~take => InChain' = Append(InChain, word)
          /\ ~put /\ take => InChain' = Tail(InChain)
          /\ ~put /\ ~take => InChain' = InChain
      BY <3>2, <3>5, <3>6, <3>7, QueueStep
    <3> HIDE DEF q
    <3>10. CASE put /\ take
      <4>1. ChainQueue!PushPop(word)
        BY <3>1, <3>3, <3>4, <3>7, <3>8, <3>9, <3>10 DEF ChainQueue!PushPop, q
      <4> QED
        BY <4>1 DEF ChainQueue!Next
    <3>11. CASE put /\ ~take
      <4>1. ChainQueue!Push(word)
        BY <3>1, <3>3, <3>4, <3>7, <3>8, <3>9, <3>11 DEF ChainQueue!Push, q
      <4> QED
        BY <4>1 DEF ChainQueue!Next
    <3>12. CASE ~put /\ take
      <4>1. ChainQueue!Pop
        BY <3>1, <3>3, <3>4, <3>7, <3>9, <3>12 DEF ChainQueue!Pop, q
      <4> QED
        BY <4>1 DEF ChainQueue!Next
    <3>13. CASE ~put /\ ~take
      BY <3>1, <3>3, <3>4, <3>9, <3>13 DEF q
    <3> QED
      BY <3>10, <3>11, <3>12, <3>13
  <2>2. ASSUME q' = q, UNCHANGED <<chain_reset, taken>>
        PROVE  [ChainQueue!Next]_(ChainQueue!vars)
    BY <2>2
  <2>3. ASSUME UNCHANGED <<region, buffer, pipelineVars, temporalVars, receiver>>
        PROVE  InChain' = InChain
    BY <2>3 DEF InChain, FifoContents, RegionContents, pipelineVars, temporalVars
  <2>4. ASSUME NEW ready \in BOOLEAN, NEW valid \in BOOLEAN, RefusedEdge(valid, ready)
        PROVE  [ChainQueue!Next]_(ChainQueue!vars)
    <3>1. /\ UNCHANGED <<region, buffer, pipelineVars, temporalVars, receiver>>
          /\ UNCHANGED <<chain_reset, taken>>
      BY <2>4 DEF RefusedEdge
    <3> QED
      BY <2>2, <2>3, <3>1
  <2>5. CASE AssertChainReset
    <3>1. chain_reset' = TRUE /\ taken' = taken /\ q' = <<>>
      BY <2>5 DEF AssertChainReset
    <3> QED
      BY <3>1 DEF ChainQueue!Next, ChainQueue!Reset
  <2>6. CASE ChainResetEdge
    <3>1. ChainInv' /\ NothingHeld'
      BY <1>2, <2>6, ResetClears
    <3>2. (InChain = <<>>)'
      BY <3>1, NothingInChain, PTL
    <3>3. chain_reset /\ chain_reset \in BOOLEAN /\ chain_reset' \in BOOLEAN /\ taken' = taken
      BY <1>2, <2>6 DEF ChainResetEdge, ChainInv, ChainTypeOK
    <3>4. q = <<>> /\ q' = <<>>
      BY <3>2, <3>3
    <3>5. CASE chain_reset'
      BY <3>3, <3>4, <3>5
    <3>6. CASE ~chain_reset'
      <4>1. ChainQueue!Restart
        BY <3>3, <3>4, <3>6 DEF ChainQueue!Restart
      <4> QED
        BY <4>1 DEF ChainQueue!Next
    <3> QED
      BY <3>5, <3>6
  <2>7. CASE UNCHANGED chainVars
    <3>1. /\ UNCHANGED <<region, buffer, pipelineVars, temporalVars, receiver>>
          /\ UNCHANGED <<chain_reset, taken>>
      BY <2>7 DEF chainVars
    <3> QED
      BY <2>2, <2>3, <3>1
  <2> QED
    BY <1>2, <2>1, <2>4, <2>5, <2>6, <2>7 DEF ChainNext, ChainClock
<1> QED
    BY <1>1, <1>2, ChainStarts, ChainKept, PTL
       DEF ChainSpec, ChainImplementsQueue, ChainQueue!Spec
=============================================================================
