---------------------------- MODULE LinksProofs ----------------------------
(***************************************************************************)
(* The handshake crossing, for every set of payloads: one toggle at a time *)
(* goes round, so the payload is stable while it is offered, and the       *)
(* crossing is a queue of one word.                                        *)
(*                                                                         *)
(* And the links together, as MCLinks runs them: what is proved of each    *)
(* part holds in them.  The arbiter, the stream, the credit link, the      *)
(* requests and the registers share nothing, so that a behaviour of the    *)
(* links is one of each.  The three crossings share their resets, and each *)
(* keeps its invariant where it is the one that runs.                      *)
(***************************************************************************)
EXTENDS MCLinks, StreamProofs, InterfaceProofs

-----------------------------------------------------------------------------
(* The handshake crossing.                                                 *)
LEMMA InitInv == Init => Inv
  <1> SUFFICES ASSUME Init PROVE Inv
    OBVIOUS
  <1>1. TypeOK
    BY HandshakeAssumption DEF Init, TypeOK
  <1>2. ResetCoordinated
    BY DEF Init, ResetCoordinated
  <1>3. OneWave
    BY DEF Init, OneWave, Waves, Apart
  <1> QED BY <1>1, <1>2, <1>3 DEF Inv

(* With at most one wave the two ends of the chain are equal exactly when  *)
(* there is none.                                                          *)
LEMMA ReadyMeansNoWave ==
  ASSUME TypeOK, Waves <= 1, source_request = ack_sync2
  PROVE  /\ request_sync1 = source_request /\ request_sync2 = source_request
         /\ destination_acknowledge = source_request /\ ack_sync1 = source_request
  BY DEF TypeOK, Waves, Apart

LEMMA ValidMeansOtherwiseNoWave ==
  ASSUME TypeOK, Waves <= 1, request_sync2 # destination_acknowledge
  PROVE  /\ source_request = request_sync2 /\ request_sync1 = request_sync2
         /\ ack_sync1 = destination_acknowledge /\ ack_sync2 = destination_acknowledge
  BY DEF TypeOK, Waves, Apart

(* A step outside a reset episode, of either clock or of both.             *)
SourceHolds == UNCHANGED <<held_payload, source_request, ack_sync1, ack_sync2>>
DestinationHolds == UNCHANGED <<request_sync1, request_sync2, destination_acknowledge>>

LEMMA SourceType ==
  ASSUME TypeOK, NEW valid \in BOOLEAN, NEW payload \in Data, NEW s \in {0, 1},
         SourceRegisters(valid, payload, s)
  PROVE  /\ held_payload' \in Data /\ source_request' \in {0, 1}
         /\ ack_sync1' \in {0, 1} /\ ack_sync2' \in {0, 1}
         /\ request_next(valid) \in {0, 1}
  BY HandshakeAssumption DEF TypeOK, SourceRegisters, request_next

LEMMA DestinationType ==
  ASSUME TypeOK, NEW ready \in BOOLEAN, NEW s \in {0, 1}, DestinationRegisters(ready, s)
  PROVE  /\ delivered' \in Data /\ destination_acknowledge' \in {0, 1}
         /\ request_sync1' \in {0, 1} /\ request_sync2' \in {0, 1}
         /\ acknowledge_next(ready) \in {0, 1}
  BY DEF TypeOK, DestinationRegisters, acknowledge_next

(* What the source domain does to the chain.                               *)
SourceMoves ==
    \/ SourceHolds
    \/ source_request' = 0 /\ ack_sync1' = 0 /\ ack_sync2' = 0 /\ SourceCleared
    \/ /\ source_request' = source_request
       /\ ack_sync1' \in {destination_acknowledge, destination_acknowledge'}
       /\ ack_sync2' = ack_sync1
    \/ /\ source_request = ack_sync2
       /\ source_request' = 1 - source_request
       /\ ack_sync1' \in {destination_acknowledge, destination_acknowledge'}
       /\ ack_sync2' = ack_sync1

DestinationMoves ==
    \/ DestinationHolds
    \/ /\ request_sync1' = 0 /\ request_sync2' = 0 /\ destination_acknowledge' = 0
       /\ DestinationCleared
    \/ /\ destination_acknowledge' \in {destination_acknowledge, request_sync2}
       /\ request_sync1' \in {source_request, source_request'}
       /\ request_sync2' = request_sync1

LEMMA WavesStep ==
  ASSUME TypeOK, TypeOK', Waves <= 1, SourceMoves, DestinationMoves
  PROVE  Waves' <= 1
  <1>1. CASE source_request = ack_sync2
    <2>1. /\ request_sync1 = source_request /\ request_sync2 = source_request
          /\ destination_acknowledge = source_request /\ ack_sync1 = source_request
      BY <1>1, ReadyMeansNoWave
    <2>2. /\ request_sync2' = source_request /\ destination_acknowledge' = source_request
          /\ request_sync1' \in {source_request, source_request'}
      BY <2>1 DEF DestinationMoves, DestinationHolds, DestinationCleared
    <2>3. ack_sync1' = source_request /\ ack_sync2' = source_request
      BY <2>1, <2>2, <1>1 DEF SourceMoves, SourceHolds, SourceCleared
    <2> QED BY <2>2, <2>3 DEF TypeOK, Waves, Apart
  <1>2. CASE source_request # ack_sync2
    <2>1. source_request' = source_request
      BY <1>2 DEF SourceMoves, SourceHolds, SourceCleared
    <2>2. \/ ack_sync1' = ack_sync1 /\ ack_sync2' = ack_sync2
          \/ /\ ack_sync2' = ack_sync1
             /\ ack_sync1' \in {destination_acknowledge, destination_acknowledge'}
      BY <1>2 DEF SourceMoves, SourceHolds, SourceCleared
    <2>3. \/ DestinationHolds
          \/ /\ request_sync2' = request_sync1
             /\ request_sync1' = source_request
             /\ destination_acknowledge' \in {destination_acknowledge, request_sync2}
          \/ /\ request_sync1' = 0 /\ request_sync2' = 0 /\ destination_acknowledge' = 0
             /\ DestinationCleared
      BY <2>1 DEF DestinationMoves
    <2> QED BY <1>2, <2>1, <2>2, <2>3
            DEF TypeOK, Waves, Apart, DestinationHolds, DestinationCleared
  <1> QED BY <1>1, <1>2

(* A step in which some of the clocks have an edge.                        *)
LEMMA EdgeStep ==
  ASSUME Inv, UNCHANGED resetVars,
         NEW edges \in SUBSET {"source", "destination"}, Clear(edges),
         NEW valid \in BOOLEAN, NEW payload \in Data, NEW ready \in BOOLEAN,
         NEW a \in {0, 1}, NEW r \in {0, 1},
         IF "source" \in edges THEN SourceRegisters(valid, payload, a) ELSE SourceHolds,
         IF "destination" \in edges THEN DestinationRegisters(ready, r)
         ELSE DestinationHolds /\ delivered' = delivered,
         ~source_reset => a \in {destination_acknowledge, destination_acknowledge'},
         ~destination_reset => r \in {source_request, source_request'}
  PROVE  Inv'
  <1> USE DEF Inv, resetVars
  <1>1. TypeOK'
    <2>1. /\ held_payload' \in Data /\ source_request' \in {0, 1}
          /\ ack_sync1' \in {0, 1} /\ ack_sync2' \in {0, 1}
      BY SourceType DEF SourceHolds, TypeOK
    <2>2. /\ delivered' \in Data /\ destination_acknowledge' \in {0, 1}
          /\ request_sync1' \in {0, 1} /\ request_sync2' \in {0, 1}
      BY DestinationType DEF DestinationHolds, TypeOK
    <2>3. cleared' \subseteq {"source", "destination"}
      BY DEF Clear, TypeOK
    <2> QED BY <2>1, <2>2, <2>3 DEF TypeOK
  <1>2. cleared \subseteq cleared'
    BY DEF Clear
  <1>3. source_reset /\ "source" \in cleared' => SourceCleared'
    <2>1. CASE "source" \in edges
      BY <2>1 DEF SourceRegisters, request_next, SourceCleared
    <2>2. CASE "source" \notin edges
      BY <2>2 DEF Clear, SourceHolds, SourceCleared, ResetCoordinated
    <2> QED BY <2>1, <2>2
  <1>4. destination_reset /\ "destination" \in cleared' => DestinationCleared'
    <2>1. CASE "destination" \in edges
      BY <2>1 DEF DestinationRegisters, acknowledge_next, DestinationCleared
    <2>2. CASE "destination" \notin edges
      BY <2>2 DEF Clear, DestinationHolds, DestinationCleared, ResetCoordinated
    <2> QED BY <2>1, <2>2
  <1>5. ResetCoordinated'
    <2>1. cleared = {"source", "destination"} => cleared' = {"source", "destination"}
      BY <1>1, <1>2 DEF TypeOK
    <2> QED BY <1>3, <1>4, <2>1 DEF ResetCoordinated
  <1>6. OneWave'
    <2>1. CASE Resetting
      <3>1. CASE cleared' = {"source", "destination"}
        <4>1. SourceCleared' /\ DestinationCleared'
          BY <1>3, <1>4, <2>1, <3>1 DEF Resetting
        <4> QED BY <4>1 DEF SourceCleared, DestinationCleared, OneWave, Waves, Apart
      <3>2. CASE cleared' # {"source", "destination"}
        BY <2>1, <3>2 DEF Resetting, OneWave
      <3> QED BY <3>1, <3>2
    <2>2. CASE ~Resetting
      <3>1. /\ source_reset => SourceCleared
            /\ destination_reset => DestinationCleared
        BY <2>2 DEF ResetCoordinated, Resetting
      <3>2. SourceMoves
        BY <3>1 DEF SourceMoves, SourceHolds, SourceRegisters, request_next,
                    source_transfer, source_ready, SourceCleared
      <3>3. DestinationMoves
        BY <3>1 DEF DestinationMoves, DestinationHolds, DestinationRegisters,
                    acknowledge_next, DestinationCleared
      <3>4. Waves' <= 1
        BY <1>1, <2>2, <3>2, <3>3, WavesStep DEF OneWave
      <3> QED BY <3>4 DEF OneWave
    <2> QED BY <2>1, <2>2
  <1> QED BY <1>1, <1>5, <1>6

LEMMA ResetStep ==
  ASSUME Inv, AssertReset \/ ReleaseSource \/ ReleaseDestination
  PROVE  Inv'
  <1> USE DEF Inv, sourceVars, destinationVars
  <1>1. UNCHANGED <<sourceVars, destinationVars>>
    BY DEF AssertReset, ReleaseSource, ReleaseDestination
  <1>2. TypeOK'
    BY <1>1 DEF AssertReset, ReleaseSource, ReleaseDestination, TypeOK
  <1>3. ResetCoordinated'
    BY <1>1 DEF AssertReset, ReleaseSource, ReleaseDestination, ResetCoordinated,
                SourceCleared, DestinationCleared
  <1>4. OneWave'
    BY <1>1 DEF AssertReset, ReleaseSource, ReleaseDestination, OneWave, Resetting,
                Waves
  <1> QED BY <1>2, <1>3, <1>4

LEMMA NextInv == Inv /\ [Next]_vars => Inv'
  <1> SUFFICES ASSUME Inv, [Next]_vars PROVE Inv'
    OBVIOUS
  <1> USE DEF sourceVars, destinationVars
  <1>0. /\ source_request \in {0, 1} /\ destination_acknowledge \in {0, 1}
        /\ ZeroData \in Data /\ TRUE \in BOOLEAN
    BY HandshakeAssumption DEF Inv, TypeOK
  <1>1. ASSUME NEW valid \in BOOLEAN, NEW payload \in Data, SourceEdge(valid, payload)
        PROVE  Inv'
    <2>1. "source" \in {"source"} /\ "destination" \notin {"source"}
      OBVIOUS
    <2>2. DestinationHolds /\ delivered' = delivered
      BY <1>1 DEF SourceEdge, DestinationHolds
    <2>3. /\ UNCHANGED resetVars /\ Clear({"source"})
          /\ SourceRegisters(valid, payload, destination_acknowledge)
      BY <1>1 DEF SourceEdge
    <2> QED BY <1>0, <2>1, <2>2, <2>3, EdgeStep
  <1>2. ASSUME NEW ready \in BOOLEAN, DestinationEdge(ready)
        PROVE  Inv'
    <2>1. "destination" \in {"destination"} /\ "source" \notin {"destination"}
      OBVIOUS
    <2>2. SourceHolds
      BY <1>2 DEF DestinationEdge, SourceHolds
    <2>3. /\ UNCHANGED resetVars /\ Clear({"destination"})
          /\ DestinationRegisters(ready, source_request)
      BY <1>2 DEF DestinationEdge
    <2> QED BY <1>0, <2>1, <2>2, <2>3, EdgeStep
  <1>3. ASSUME NEW valid \in BOOLEAN, NEW payload \in Data, NEW ready \in BOOLEAN,
               BothEdges(valid, payload, ready)
        PROVE  Inv'
    <2>1. PICK a \in {destination_acknowledge, acknowledge_next(ready)},
               r \in {source_request, request_next(valid)} :
             /\ SourceRegisters(valid, payload, a)
             /\ DestinationRegisters(ready, r)
             /\ Clear({"source", "destination"})
             /\ UNCHANGED resetVars
      BY <1>3 DEF BothEdges
    <2>2. a \in {destination_acknowledge, destination_acknowledge'}
      BY <2>1 DEF DestinationRegisters
    <2>3. r \in {source_request, source_request'}
      BY <2>1 DEF SourceRegisters
    <2>4. a \in {0, 1} /\ r \in {0, 1}
      BY <1>0, <2>1 DEF Inv, TypeOK, request_next, acknowledge_next
    <2> QED BY <2>1, <2>2, <2>3, <2>4, EdgeStep
  <1>4. CASE AssertReset \/ ReleaseSource \/ ReleaseDestination
    BY <1>4, ResetStep
  <1>5. CASE UNCHANGED vars
    BY <1>5 DEF vars, resetVars, Inv, TypeOK, ResetCoordinated, SourceCleared,
                DestinationCleared, OneWave, Resetting, Waves
  <1> QED
    BY <1>1, <1>2, <1>3, <1>4, <1>5
       DEF Next, SourceClock, DestinationClock, BothClocks

-----------------------------------------------------------------------------
(* Every register of the crossing keeps its width, whatever the order of   *)
(* the clock edges and the resets.                                         *)
THEOREM TypeCorrect == Spec => []TypeOK
  BY InitInv, NextInv, PTL DEF Spec, Inv

(* At most one toggle is under way between the two domains.                *)
THEOREM OneWaveHolds == Spec => []OneWave
  BY InitInv, NextInv, PTL DEF Spec, Inv

(* Ready and offered exclude each other.                                   *)
LEMMA InvHeld == Inv => HeldWhileOffered
  <1> SUFFICES ASSUME Inv, destination_valid, ~Resetting, source_ready PROVE FALSE
    BY DEF HeldWhileOffered
  <1>1. TypeOK /\ Waves <= 1
    BY DEF Inv, OneWave
  <1> QED BY <1>1, ReadyMeansNoWave DEF destination_valid, source_ready

(* The payload register cannot be overwritten while it is offered.         *)
THEOREM HeldWhileOfferedHolds == Spec => []HeldWhileOffered
  BY InvHeld, InitInv, NextInv, PTL DEF Spec

-----------------------------------------------------------------------------
(* What a step of the clocks does outside a reset episode.                 *)
Transfers(valid, payload, ready) ==
    /\ source_request' = IF source_transfer(valid) THEN 1 - source_request
                         ELSE source_request
    /\ source_transfer(valid) => held_payload' = payload
    /\ ~source_transfer(valid) /\ ~source_reset => held_payload' = held_payload
    /\ destination_acknowledge' = IF destination_transfer(ready) THEN request_sync2
                                  ELSE destination_acknowledge
    /\ delivered' = IF destination_transfer(ready) THEN held_payload ELSE delivered
    /\ ~destination_reset => request_sync2' \in {request_sync1, request_sync2}

(* A step of one clock is a step of both in which the other side has no    *)
(* wish to transfer, as far as transfers go.                               *)
ClockStep ==
    /\ UNCHANGED resetVars
    /\ cleared \subseteq cleared'
    /\ \E valid \in BOOLEAN, payload \in Data, ready \in BOOLEAN :
          Transfers(valid, payload, ready)

LEMMA ClockSteps ==
  ASSUME Inv, ~Resetting,
         NEW valid \in BOOLEAN, NEW payload \in Data, NEW ready \in BOOLEAN,
         SourceEdge(valid, payload) \/ DestinationEdge(ready)
            \/ BothEdges(valid, payload, ready)
  PROVE  ClockStep
  <1>1. /\ source_reset => source_request = 0
        /\ destination_reset => destination_acknowledge = 0
    BY DEF Inv, ResetCoordinated, Resetting, SourceCleared, DestinationCleared
  <1>2. cleared \subseteq cleared' /\ UNCHANGED resetVars
    BY DEF SourceEdge, DestinationEdge, BothEdges, Clear
  <1>3. CASE SourceEdge(valid, payload)
    <2>1. Transfers(valid, payload, FALSE)
      BY <1>1, <1>3 DEF SourceEdge, SourceRegisters, request_next, destinationVars,
         Transfers, destination_transfer, source_transfer, source_ready
    <2> QED BY <1>2, <2>1 DEF ClockStep
  <1>4. CASE DestinationEdge(ready)
    <2>1. Transfers(FALSE, payload, ready)
      BY <1>1, <1>4 DEF DestinationEdge, DestinationRegisters, acknowledge_next, sourceVars,
         Transfers, destination_transfer, source_transfer, destination_valid
    <2> QED BY <1>2, <2>1 DEF ClockStep
  <1>5. CASE BothEdges(valid, payload, ready)
    <2>1. Transfers(valid, payload, ready)
      BY <1>1, <1>5 DEF BothEdges, SourceRegisters, DestinationRegisters, request_next,
         acknowledge_next, Transfers, destination_transfer, source_transfer,
         destination_valid, source_ready
    <2> QED BY <1>2, <2>1 DEF ClockStep
  <1> QED BY <1>3, <1>4, <1>5

(* The steps of the specification, sorted by what they do to a beat.       *)
LEMMA StepKinds ==
  ASSUME Inv, [Next]_vars
  PROVE  \/ AssertReset
         \/ Resetting /\ UNCHANGED resetVars /\ delivered' = delivered
         \/ ~Resetting /\ ClockStep
         \/ ~Resetting /\ ~Resetting' /\ UNCHANGED <<sourceVars, destinationVars>>
               /\ (destination_reset' => destination_reset)
  <1>1. ASSUME NEW valid \in BOOLEAN, NEW payload \in Data, NEW ready \in BOOLEAN,
               SourceEdge(valid, payload) \/ DestinationEdge(ready)
                  \/ BothEdges(valid, payload, ready)
        PROVE  (Resetting /\ UNCHANGED resetVars /\ delivered' = delivered)
                  \/ (~Resetting /\ ClockStep)
    <2>1. CASE Resetting
      BY <1>1, <2>1 DEF SourceEdge, DestinationEdge, BothEdges, DestinationRegisters,
         destinationVars, destination_transfer, destination_valid, Resetting
    <2> QED BY <1>1, <2>1, ClockSteps
  <1>2. CASE ReleaseSource \/ ReleaseDestination
    BY <1>2 DEF ReleaseSource, ReleaseDestination, Resetting
  <1>3. CASE UNCHANGED vars
    BY <1>3 DEF vars, resetVars, destinationVars, Resetting
  <1>4. ZeroData \in Data /\ TRUE \in BOOLEAN
    BY HandshakeAssumption
  <1> QED BY <1>1, <1>2, <1>3, <1>4 DEF Next, SourceClock, DestinationClock, BothClocks

(* A beat that is offered and not taken stays offered with its payload.    *)
THEOREM StalledBeatAlwaysHolds == Spec => StalledBeatHolds
  <1>1. ASSUME Inv, [Next]_vars, destination_valid, ~Resetting, ~Resetting',
               destination_acknowledge' = destination_acknowledge
        PROVE  destination_valid' /\ held_payload' = held_payload
    <2>1. TypeOK /\ Waves <= 1
      BY <1>1 DEF Inv, OneWave
    <2>2. /\ ~destination_reset /\ request_sync2 # destination_acknowledge
          /\ source_request = request_sync2 /\ request_sync1 = request_sync2
          /\ ack_sync2 = destination_acknowledge
      BY <1>1, <2>1, ValidMeansOtherwiseNoWave DEF destination_valid
    <2>3. ~source_ready /\ ~source_reset
      BY <1>1, <2>2
         DEF Inv, ResetCoordinated, Resetting, SourceCleared, source_ready
    <2>4. CASE AssertReset
      BY <1>1, <2>4 DEF AssertReset, Resetting
    <2>5. CASE ClockStep
      BY <1>1, <2>2, <2>3, <2>5
         DEF ClockStep, Transfers, source_transfer, destination_valid, resetVars
    <2>6. CASE /\ UNCHANGED <<sourceVars, destinationVars>>
               /\ destination_reset' => destination_reset
      BY <2>2, <2>6 DEF destination_valid, sourceVars, destinationVars, Inv, TypeOK
    <2> QED BY <1>1, <2>4, <2>5, <2>6, StepKinds
  <1>2. Inv /\ [Next]_vars => [destination_valid /\ ~Resetting /\ ~Resetting'
           /\ destination_acknowledge' = destination_acknowledge
         => destination_valid' /\ held_payload' = held_payload]_vars
    BY <1>1
  <1> QED BY <1>2, InitInv, NextInv, PTL DEF Spec, StalledBeatHolds

LEMMA EmptyQueue ==
  ASSUME NEW d
  PROVE  Len(<<>>) < 1 /\ Append(<<>>, d) = <<d>>
  <1>1. Len(<<>>) = 0
    OBVIOUS
  <1>2. Append(<<>>, d) = <<d>>
    OBVIOUS
  <1> QED BY <1>1, <1>2

(* What a step of the crossing is to the queue.                            *)
LEMMA CrossingQueueStep ==
  ASSUME Inv, Inv', [Next]_vars
  PROVE  [Queue!Next]_(Queue!vars)
  <1> DEFINE q == IF Resetting \/ source_request = destination_acknowledge
                  THEN <<>> ELSE <<held_payload>>
  <1> USE DEF Queue!vars
  <1>0. Resetting \in BOOLEAN /\ Resetting' \in BOOLEAN
    BY DEF Resetting
  <1>1. CASE AssertReset
    <2>1. Resetting' = TRUE /\ q' = <<>> /\ delivered' = delivered
      BY <1>1 DEF AssertReset, Resetting, destinationVars
    <2> QED BY <2>1 DEF Queue!Next, Queue!Reset
  <1>2. CASE Resetting /\ UNCHANGED resetVars /\ delivered' = delivered
    <2>1. Resetting' \/ source_request' = destination_acknowledge'
      BY <1>2 DEF Inv, ResetCoordinated, Resetting, resetVars, TypeOK,
         SourceCleared, DestinationCleared
    <2>2. q' = <<>> /\ q = <<>>
      BY <1>2, <2>1
    <2>3. CASE Resetting'
      <3>1. Resetting' = Resetting
        BY <1>0, <1>2, <2>3
      <3> QED BY <1>2, <2>2, <3>1
    <2>4. CASE ~Resetting'
      <3>1. Resetting' = FALSE
        BY <1>0, <2>4
      <3>2. Queue!Restart
        BY <1>2, <2>2, <3>1 DEF Queue!Restart
      <3> QED BY <3>2 DEF Queue!Next
    <2> QED BY <2>3, <2>4
  <1>3. CASE ~Resetting /\ ClockStep
    <2>0. ~Resetting'
      BY <1>3 DEF ClockStep, Resetting, resetVars, Inv, TypeOK
    <2>r. Resetting' = Resetting
      BY <1>0, <1>3, <2>0
    <2>1. TypeOK /\ Waves <= 1
      BY <1>3 DEF Inv, OneWave
    <2>2. PICK valid \in BOOLEAN, payload \in Data, ready \in BOOLEAN :
             Transfers(valid, payload, ready)
      BY <1>3 DEF ClockStep
    <2>3. CASE source_transfer(valid)
      <3>1. /\ source_request = destination_acknowledge
            /\ request_sync2 = destination_acknowledge
        BY <2>1, <2>3, ReadyMeansNoWave DEF source_transfer, source_ready
      <3>2. q = <<>> /\ q' = <<payload>> /\ delivered' = delivered
        BY <2>0, <2>1, <2>2, <2>3, <3>1
           DEF Transfers, destination_transfer, destination_valid, TypeOK
      <3>3. Len(q) < 1 /\ Append(q, payload) = <<payload>>
        <4> HIDE DEF q
        <4> QED BY <3>2, EmptyQueue
      <3>4. Queue!Push(payload)
        BY <1>3, <2>r, <3>2, <3>3 DEF Queue!Push
      <3> QED BY <3>4 DEF Queue!Next
    <2>4. CASE destination_transfer(ready) /\ ~source_transfer(valid)
      <3>1. source_request = request_sync2 /\ request_sync2 # destination_acknowledge
        BY <2>1, <2>4, ValidMeansOtherwiseNoWave DEF destination_transfer, destination_valid
      <3>2. q = <<held_payload>> /\ q' = <<>> /\ delivered' = held_payload
        BY <1>3, <2>2, <2>4, <3>1 DEF Transfers
      <3>3. Queue!Pop
        BY <1>3, <2>r, <3>2 DEF Queue!Pop
      <3> QED BY <3>3 DEF Queue!Next
    <2>5. CASE ~destination_transfer(ready) /\ ~source_transfer(valid)
      <3>1. /\ source_request' = source_request
            /\ destination_acknowledge' = destination_acknowledge
            /\ delivered' = delivered
        BY <2>2, <2>5 DEF Transfers
      <3>2. source_request # destination_acknowledge => held_payload' = held_payload
        <4> SUFFICES ASSUME source_request # destination_acknowledge, source_reset
                     PROVE  FALSE
          BY <2>2, <2>5 DEF Transfers
        <4>1. SourceCleared
          BY <1>3 DEF Inv, ResetCoordinated, Resetting
        <4> QED BY <2>1, <4>1, ReadyMeansNoWave DEF SourceCleared
      <3>3. q' = q
        BY <1>3, <2>0, <3>1, <3>2
      <3> QED BY <1>3, <2>r, <3>1, <3>3
    <2> QED BY <2>3, <2>4, <2>5
  <1>4. CASE ~Resetting /\ ~Resetting' /\ UNCHANGED <<sourceVars, destinationVars>>
    <2>1. Resetting' = Resetting
      BY <1>0, <1>4
    <2> QED BY <1>4, <2>1 DEF sourceVars, destinationVars
  <1> QED BY <1>1, <1>2, <1>3, <1>4, StepKinds

LEMMA CrossingQueueInit == Init => Queue!Init
  BY DEF Init, Queue!Init, Resetting

(* The crossing implements a queue of one word: what is accepted is        *)
(* delivered once, in order, and unchanged, except that a reset flushes it. *)
THEOREM HandshakeIsQueue == Spec => ImplementsQueue
  BY CrossingQueueInit, CrossingQueueStep, InitInv, NextInv, PTL DEF Spec, ImplementsQueue, Queue!Spec

-----------------------------------------------------------------------------
(* The parts together.  What is proved of the other two crossings in       *)
(* modules of their own, here of the crossings that MCLinks composes.      *)
CrossingProofs == INSTANCE WireCrossingsProofs
FifoProofs == INSTANCE AsyncFifoProofs WITH Data <- {ZeroData}, output_valid <- read_valid

(* The level and pulse crossings that MCLinks runs are those of the        *)
(* proofs.                                                                 *)
LEMMA SameCrossing ==
    /\ Crossing!Init = CrossingProofs!Init
    /\ Crossing!Next = CrossingProofs!Next
    /\ Crossing!TypeOK = CrossingProofs!TypeOK
    /\ Crossing!WiresExact = CrossingProofs!WiresExact
<1> USE DEF Crossing!sourceVars, CrossingProofs!sourceVars,
        Crossing!destinationVars, CrossingProofs!destinationVars,
        Crossing!resetVars, CrossingProofs!resetVars
<1>1. Crossing!Init = CrossingProofs!Init
  BY DEF Crossing!Init, CrossingProofs!Init
<1>2. Crossing!PulseOut = CrossingProofs!PulseOut
  BY DEF Crossing!PulseOut, CrossingProofs!PulseOut
<1>3. ASSUME NEW pulse
      PROVE  /\ Crossing!Given(pulse) = CrossingProofs!Given(pulse)
             /\ Crossing!source_toggle_next(pulse) = CrossingProofs!source_toggle_next(pulse)
  BY DEF Crossing!Given, CrossingProofs!Given, Crossing!source_toggle_next,
     CrossingProofs!source_toggle_next
<1>4. ASSUME NEW n PROVE Crossing!OneMore(n) = CrossingProofs!OneMore(n)
  BY DEF Crossing!OneMore, CrossingProofs!OneMore
<1>5. ASSUME NEW edges PROVE Crossing!Clear(edges) = CrossingProofs!Clear(edges)
  BY DEF Crossing!Clear, CrossingProofs!Clear
<1>6. ASSUME NEW l, NEW t
      PROVE  Crossing!DestinationRegisters(l, t) = CrossingProofs!DestinationRegisters(l, t)
  BY DEF Crossing!DestinationRegisters, CrossingProofs!DestinationRegisters,
     Crossing!sync_stage2_next, CrossingProofs!sync_stage2_next,
     Crossing!previous_toggle_next, CrossingProofs!previous_toggle_next
<1>7. ASSUME NEW newLevel, NEW pulse
      PROVE  Crossing!SourceEdge(newLevel, pulse) = CrossingProofs!SourceEdge(newLevel, pulse)
  BY <1>3, <1>5 DEF Crossing!SourceEdge, CrossingProofs!SourceEdge
<1>8. ASSUME NEW newLevel, NEW pulse
      PROVE  Crossing!BothEdges(newLevel, pulse) = CrossingProofs!BothEdges(newLevel, pulse)
  BY <1>2, <1>3, <1>4, <1>5, <1>6 DEF Crossing!BothEdges, CrossingProofs!BothEdges
<1>9. Crossing!DestinationEdge = CrossingProofs!DestinationEdge
  BY <1>2, <1>4, <1>5, <1>6 DEF Crossing!DestinationEdge, CrossingProofs!DestinationEdge
<1>10. /\ Crossing!AssertReset = CrossingProofs!AssertReset
       /\ Crossing!ReleaseSource = CrossingProofs!ReleaseSource
       /\ Crossing!ReleaseDestination = CrossingProofs!ReleaseDestination
  BY DEF Crossing!AssertReset, CrossingProofs!AssertReset, Crossing!ReleaseSource,
     CrossingProofs!ReleaseSource, Crossing!ReleaseDestination,
     CrossingProofs!ReleaseDestination
<1>11. Crossing!Next = CrossingProofs!Next
  BY <1>7, <1>8, <1>9, <1>10 DEF Crossing!Next, CrossingProofs!Next
<1>12. Crossing!TypeOK = CrossingProofs!TypeOK
  BY DEF Crossing!TypeOK, CrossingProofs!TypeOK
<1>13. Crossing!WiresExact = CrossingProofs!WiresExact
  BY DEF Crossing!WiresExact, CrossingProofs!WiresExact, Crossing!NoPulseLost,
     CrossingProofs!NoPulseLost, Crossing!LevelArrives, CrossingProofs!LevelArrives,
     Crossing!Resetting, CrossingProofs!Resetting, Crossing!UnderWay, CrossingProofs!UnderWay,
     Crossing!Apart, CrossingProofs!Apart, Crossing!LevelOut, CrossingProofs!LevelOut
<1> QED
  BY <1>1, <1>11, <1>12, <1>13

(* So is the FIFO, definition by definition.                               *)
LEMMA SameFifo ==
    /\ Fifo!Init = FifoProofs!Init
    /\ Fifo!Next = FifoProofs!Next
    /\ Fifo!TypeOK = FifoProofs!TypeOK
<1> USE DEF Fifo!sourceVars, FifoProofs!sourceVars, Fifo!destinationVars,
        FifoProofs!destinationVars, Fifo!resetVars, FifoProofs!resetVars
<1>1. /\ Fifo!Span = FifoProofs!Span
      /\ Fifo!Bits = FifoProofs!Bits
      /\ Fifo!Pointers = FifoProofs!Pointers
      /\ Fifo!Addresses = FifoProofs!Addresses
  BY DEF Fifo!Span, FifoProofs!Span, Fifo!Bits, FifoProofs!Bits, Fifo!Pointers,
     FifoProofs!Pointers, Fifo!Addresses, FifoProofs!Addresses, Fifo!PointerWidth,
     FifoProofs!PointerWidth, Fifo!AddressWidth, FifoProofs!AddressWidth
<1>2. /\ Fifo!Codes = FifoProofs!Codes
      /\ Fifo!Gray = FifoProofs!Gray
  BY <1>1 DEF Fifo!Codes, FifoProofs!Codes, Fifo!Gray, FifoProofs!Gray
<1>3. ASSUME NEW a, NEW b
      PROVE  Fifo!Sampled(a, b) = FifoProofs!Sampled(a, b)
  BY <1>1, <1>2 DEF Fifo!Sampled, FifoProofs!Sampled
<1>4. ASSUME NEW p, NEW by
      PROVE  /\ Fifo!Add(p, by) = FifoProofs!Add(p, by)
             /\ Fifo!Address(p) = FifoProofs!Address(p)
  BY <1>1 DEF Fifo!Add, FifoProofs!Add, Fifo!Address, FifoProofs!Address
<1>5. ASSUME NEW c
      PROVE  Fifo!InvertTop(c) = FifoProofs!InvertTop(c)
  BY <1>1 DEF Fifo!InvertTop, FifoProofs!InvertTop, Fifo!PointerWidth,
     FifoProofs!PointerWidth, Fifo!AddressWidth, FifoProofs!AddressWidth
<1>6. ASSUME NEW b
      PROVE  /\ Fifo!push(b) = FifoProofs!push(b)
             /\ Fifo!pop(b) = FifoProofs!pop(b)
  BY DEF Fifo!push, FifoProofs!push, Fifo!pop, FifoProofs!pop, Fifo!source_ready,
     FifoProofs!source_ready, Fifo!destination_valid, FifoProofs!destination_valid
<1>7. ASSUME NEW b
      PROVE  /\ Fifo!write_binary_next(b) = FifoProofs!write_binary_next(b)
             /\ Fifo!read_binary_next(b) = FifoProofs!read_binary_next(b)
             /\ Fifo!write_gray_next(b) = FifoProofs!write_gray_next(b)
             /\ Fifo!read_gray_next(b) = FifoProofs!read_gray_next(b)
  BY <1>2, <1>4, <1>6 DEF Fifo!write_binary_next, FifoProofs!write_binary_next,
     Fifo!read_binary_next, FifoProofs!read_binary_next, Fifo!write_gray_next,
     FifoProofs!write_gray_next, Fifo!read_gray_next, FifoProofs!read_gray_next
<1>8. ASSUME NEW b
      PROVE  /\ Fifo!prefetch(b) = FifoProofs!prefetch(b)
             /\ Fifo!output_valid_next(b) = FifoProofs!output_valid_next(b)
  BY <1>6, <1>7 DEF Fifo!prefetch, FifoProofs!prefetch, Fifo!output_valid_next,
     FifoProofs!output_valid_next, Fifo!unread_current, FifoProofs!unread_current,
     Fifo!unread_next, FifoProofs!unread_next
<1>9. ASSUME NEW b
      PROVE  Fifo!full_next(b) = FifoProofs!full_next(b)
  BY <1>5, <1>7 DEF Fifo!full_next, FifoProofs!full_next
<1>10. ASSUME NEW d
      PROVE  Fifo!Stored(d) = FifoProofs!Stored(d)
  BY <1>4 DEF Fifo!Stored, FifoProofs!Stored, Fifo!Address, FifoProofs!Address
<1>11. ASSUME NEW valid, NEW payload, NEW c
      PROVE  Fifo!SourceRegisters(valid, payload, c) = FifoProofs!SourceRegisters(valid, payload, c)
  BY <1>2, <1>6, <1>7, <1>9, <1>10 DEF Fifo!SourceRegisters,
     FifoProofs!SourceRegisters
<1>12. ASSUME NEW ready, NEW c
      PROVE  Fifo!DestinationRegisters(ready, c) = FifoProofs!DestinationRegisters(ready, c)
  BY <1>2, <1>4, <1>6, <1>7, <1>8 DEF Fifo!DestinationRegisters,
     FifoProofs!DestinationRegisters
<1>13. ASSUME NEW edges
      PROVE  Fifo!Clear(edges) = FifoProofs!Clear(edges)
  BY DEF Fifo!Clear, FifoProofs!Clear
<1>14. ASSUME NEW valid, NEW payload
      PROVE  Fifo!SourceEdge(valid, payload) = FifoProofs!SourceEdge(valid, payload)
  BY <1>11, <1>13 DEF Fifo!SourceEdge, FifoProofs!SourceEdge
<1>15. ASSUME NEW ready
      PROVE  Fifo!DestinationEdge(ready) = FifoProofs!DestinationEdge(ready)
  BY <1>12, <1>13 DEF Fifo!DestinationEdge, FifoProofs!DestinationEdge
<1>16. ASSUME NEW valid, NEW payload, NEW ready
      PROVE  Fifo!BothEdges(valid, payload, ready) = FifoProofs!BothEdges(valid, payload, ready)
  BY <1>2, <1>3, <1>7, <1>11, <1>12, <1>13 DEF Fifo!BothEdges, FifoProofs!BothEdges
<1>17. /\ Fifo!AssertReset = FifoProofs!AssertReset
       /\ Fifo!ReleaseSource = FifoProofs!ReleaseSource
       /\ Fifo!ReleaseDestination = FifoProofs!ReleaseDestination
  BY DEF Fifo!AssertReset, FifoProofs!AssertReset, Fifo!ReleaseSource,
     FifoProofs!ReleaseSource, Fifo!ReleaseDestination, FifoProofs!ReleaseDestination
<1>18. Fifo!Next = FifoProofs!Next
  BY <1>14, <1>15, <1>16, <1>17 DEF Fifo!Next, FifoProofs!Next, Fifo!SourceClock,
     FifoProofs!SourceClock, Fifo!DestinationClock, FifoProofs!DestinationClock,
     Fifo!BothClocks, FifoProofs!BothClocks
<1>19. Fifo!Init = FifoProofs!Init
  BY <1>1, <1>2 DEF Fifo!Init, FifoProofs!Init
<1>20. Fifo!TypeOK = FifoProofs!TypeOK
  BY <1>1, <1>2 DEF Fifo!TypeOK, FifoProofs!TypeOK
<1> QED
  BY <1>18, <1>19, <1>20

(* The handshake crossing as it begins.                                    *)
HandshakeRests == SourceCleared /\ DestinationCleared /\ delivered = ZeroData

(* The crossings share their resets and books, so the invariant of each is *)
(* kept only by the behaviours in which it is the part that runs.          *)
LinksInv ==
    /\ part \in Parts
    /\ IF part = "handshake" THEN Inv ELSE HandshakeRests
    /\ part = "wires" => CrossingProofs!WireInv
    /\ part = "fifo" => FifoProofs!Inv

(* What the proofs about the FIFO assume of its constants.                 *)
LEMMA FifoConstants == FifoProofs!DepthAssumption /\ FifoProofs!ZeroAssumption
  BY FifoAssumption DEF FifoProofs!DepthAssumption, FifoProofs!ZeroAssumption

LEMMA LinksInitInv == LinksInit => LinksInv
<1> SUFFICES ASSUME LinksInit PROVE LinksInv
  OBVIOUS
<1>1. part \in Parts /\ Init /\ CrossingProofs!Init /\ FifoProofs!Init
  BY SameCrossing, SameFifo DEF LinksInit
<1>2. Inv /\ HandshakeRests
  BY <1>1, InitInv DEF Init, HandshakeRests, SourceCleared, DestinationCleared
<1>3. CrossingProofs!WireInv
  BY <1>1, CrossingProofs!WireInitInv
<1>4. FifoProofs!Inv
  BY <1>1, FifoConstants, FifoProofs!InitInv
<1> QED
  BY <1>1, <1>2, <1>3, <1>4 DEF LinksInv

LEMMA LinksStep == LinksInv /\ [LinksNext]_linksVars => LinksInv'
<1> SUFFICES ASSUME LinksInv, [LinksNext]_linksVars PROVE LinksInv'
  OBVIOUS
<1>1. part' = part /\ part \in Parts
  BY DEF LinksInv, LinksNext, OthersIdle, linksVars
<1>2. CASE part = "handshake"
  <2>1. Next \/ UNCHANGED vars
    BY <1>2 DEF LinksNext, linksVars, handshakeVars, commonVars, vars, sourceVars,
       destinationVars, resetVars
  <2>2. Inv'
    BY <1>2, <2>1, NextInv DEF LinksInv
  <2> QED
    BY <1>1, <1>2, <2>2 DEF LinksInv
<1>3. CASE part = "wires"
  <2>1. CrossingProofs!Next \/ UNCHANGED CrossingProofs!vars
    BY <1>3, SameCrossing DEF LinksNext, linksVars, wireVars, commonVars,
       CrossingProofs!vars, CrossingProofs!sourceVars, CrossingProofs!destinationVars,
       CrossingProofs!resetVars
  <2>2. CrossingProofs!WireInv'
    BY <1>3, <2>1, CrossingProofs!WireStep DEF LinksInv
  <2>3. HandshakeRests'
    BY <1>3 DEF LinksInv, LinksNext, OthersIdle, linksVars, handshakeVars, commonVars, sourceVars,
       HandshakeRests, SourceCleared, DestinationCleared
  <2> QED
    BY <1>1, <1>3, <2>2, <2>3 DEF LinksInv
<1>4. CASE part = "fifo"
  <2>1. FifoProofs!Next \/ UNCHANGED FifoProofs!vars
    BY <1>4, SameFifo DEF LinksNext, linksVars, fifoVars, commonVars, FifoProofs!vars,
       FifoProofs!sourceVars, FifoProofs!destinationVars, FifoProofs!resetVars
  <2>2. FifoProofs!Inv'
    BY <1>4, <2>1, FifoConstants, FifoProofs!NextInv DEF LinksInv
  <2>3. delivered' = ZeroData
    BY <2>2 DEF FifoProofs!Inv, FifoProofs!TypeOK
  <2>4. HandshakeRests'
    BY <1>4, <2>3 DEF LinksInv, LinksNext, OthersIdle, linksVars, handshakeVars, sourceVars,
       HandshakeRests, SourceCleared, DestinationCleared
  <2> QED
    BY <1>1, <1>4, <2>2, <2>4 DEF LinksInv
<1>5. CASE part \notin {"handshake", "wires", "fifo"}
  <2>1. HandshakeRests'
    BY <1>5 DEF LinksInv, LinksNext, OthersIdle, linksVars, handshakeVars, commonVars, sourceVars,
       HandshakeRests, SourceCleared, DestinationCleared
  <2> QED
    BY <1>1, <1>5, <2>1 DEF LinksInv
<1> QED
  BY <1>2, <1>3, <1>4, <1>5

LEMMA LinksInvariant == LinksSpec => []LinksInv
  BY LinksInitInv, LinksStep, PTL DEF LinksSpec

(* The other parts have variables of their own: a behaviour of the links   *)
(* is a behaviour of each, whether it is the part that runs or stays as it *)
(* begins.                                                                 *)
THEOREM LinksImplementParts ==
    LinksSpec => ArbiterSpec /\ ChainSpec /\ LinkSpec /\ RequestSpec /\ CsrSpec
<1>1. LinksInit => ArbiterInit /\ ChainInit /\ LinkInit /\ RequestInit /\ CsrInit
  BY DEF LinksInit
<1>2. [LinksNext]_linksVars => [ArbiterNext]_arbiterVars
  BY DEF LinksNext, OthersIdle, linksVars
<1>3. [LinksNext]_linksVars => [ChainNext]_chainVars
  BY DEF LinksNext, OthersIdle, linksVars
<1>4. [LinksNext]_linksVars => [LinkNext]_linkVars
  BY DEF LinksNext, OthersIdle, linksVars
<1>5. [LinksNext]_linksVars => [RequestNext]_rrVars
  BY DEF LinksNext, OthersIdle, linksVars
<1>6. [LinksNext]_linksVars => [CsrNext]_csrVars
  BY DEF LinksNext, OthersIdle, linksVars
<1> QED
  BY <1>1, <1>2, <1>3, <1>4, <1>5, <1>6, PTL
     DEF LinksSpec, ArbiterSpec, ChainSpec, LinkSpec, RequestSpec, CsrSpec

(* In every part that may run the registers keep their width, the counters *)
(* their bounds and the sequences their lengths, for every value of the    *)
(* constants of the eight parts.                                           *)
THEOREM LinksTypeCorrect == LinksSpec => []LinksTypeOK
<1>1. LinksInv => /\ part \in Parts
                  /\ part = "handshake" => TypeOK
                  /\ part = "wires" => Crossing!TypeOK
                  /\ part = "fifo" => Fifo!TypeOK
  <2>1. CrossingProofs!WireInv => Crossing!TypeOK
    BY SameCrossing, CrossingProofs!WirePromises
  <2>2. FifoProofs!Inv => Fifo!TypeOK
    BY SameFifo DEF FifoProofs!Inv
  <2> QED
    BY <2>1, <2>2 DEF LinksInv, Inv
<1>2. LinksInv /\ ArbiterTypeOK /\ ChainTypeOK /\ LinkTypeOK /\ RequestTypeOK /\ CsrTypeOK
        => LinksTypeOK
  BY <1>1 DEF LinksTypeOK, Parts
<1> QED
  BY <1>2, LinksInvariant, LinksImplementParts, ArbiterTypeCorrect, ChainTypeCorrect,
     LinkTypeCorrect, RequestTypeCorrect, CsrTypeCorrect, PTL

(* Where the level and pulse crossings run, no pulse is lost or made up    *)
(* and a level that is still arrives.                                      *)
THEOREM LinksWiresExact == LinksSpec => []WiresExact
<1>1. LinksInv => WiresExact
  BY SameCrossing, CrossingProofs!WirePromises DEF LinksInv, WiresExact
<1> QED
  BY <1>1, LinksInvariant, PTL

(* A crossing that rests is an empty queue, whatever the resets that it    *)
(* shares with the others do.                                              *)
LEMMA RestingQueue ==
  ASSUME HandshakeRests, HandshakeRests'
  PROVE  [Queue!Next]_(Queue!vars)
<1> DEFINE q == IF Resetting \/ source_request = destination_acknowledge
                THEN <<>> ELSE <<held_payload>>
<1>1. q = <<>> /\ q' = <<>> /\ delivered' = delivered
  BY DEF HandshakeRests, SourceCleared, DestinationCleared
<1>2. Resetting \in BOOLEAN /\ Resetting' \in BOOLEAN
  BY DEF Resetting
<1>3. CASE Resetting' = Resetting
  BY <1>1, <1>3 DEF Queue!vars
<1>4. CASE Resetting' = TRUE
  BY <1>1, <1>4 DEF Queue!Next, Queue!Reset
<1>5. CASE Resetting = TRUE /\ Resetting' = FALSE
  BY <1>1, <1>5 DEF Queue!Next, Queue!Restart
<1> QED
  BY <1>2, <1>3, <1>4, <1>5

(* All that is checked of the links and is no liveness, for every value of *)
(* the constants of the eight parts: the crossing is a queue that holds    *)
(* its beat, the arbiter starves no source by count, breaks no packet and  *)
(* holds what it grants, the stream is a queue, the ledger matches, and no *)
(* event is forgotten.                                                     *)
THEOREM LinksSafe ==
    LinksSpec => /\ [](OneWave /\ HeldWhileOffered /\ WiresExact /\ BoundedBypass
                          /\ LedgerExact /\ NoEventForgotten)
                 /\ ImplementsQueue /\ PacketsContiguous /\ GrantedBeatHolds
                 /\ ChainImplementsQueue
<1>1. LinksInv => OneWave /\ HeldWhileOffered
  <2>1. Inv => OneWave /\ HeldWhileOffered
    BY InvHeld DEF Inv
  <2>2. HandshakeRests => OneWave /\ HeldWhileOffered
    BY DEF HandshakeRests, SourceCleared, DestinationCleared, OneWave, Waves, Apart,
       HeldWhileOffered, destination_valid
  <2> QED
    BY <2>1, <2>2 DEF LinksInv
<1>2. LinksInit => Queue!Init
  BY CrossingQueueInit DEF LinksInit
<1>3. LinksInv /\ LinksInv' /\ [LinksNext]_linksVars => [Queue!Next]_(Queue!vars)
  <2> SUFFICES ASSUME LinksInv, LinksInv', [LinksNext]_linksVars
               PROVE  [Queue!Next]_(Queue!vars)
    OBVIOUS
  <2>1. part' = part
    BY DEF LinksNext, OthersIdle, linksVars
  <2>2. CASE part = "handshake"
    <3>1. Inv /\ Inv'
      BY <2>1, <2>2 DEF LinksInv
    <3>2. Next \/ UNCHANGED vars
      BY <2>2 DEF LinksNext, linksVars, handshakeVars, commonVars, vars, sourceVars,
         destinationVars, resetVars
    <3> QED
      BY <3>1, <3>2, CrossingQueueStep
  <2>3. CASE part # "handshake"
    <3>1. HandshakeRests /\ HandshakeRests'
      BY <2>1, <2>3 DEF LinksInv
    <3> QED
      BY <3>1, RestingQueue
  <2> QED
    BY <2>2, <2>3
<1>4. LinksSpec => ImplementsQueue
  BY <1>2, <1>3, LinksInvariant, PTL DEF LinksSpec, ImplementsQueue, Queue!Spec
<1> QED
  BY <1>1, <1>4, LinksInvariant, LinksWiresExact, LinksImplementParts, BoundedBypassHolds,
     LedgerExactHolds, NoEventForgottenHolds, PacketsContiguousHolds, GrantedBeatIsHeld,
     ChainIsQueue, PTL

(* And the credits, where the checks of the link are right.                *)
THEOREM LinksCreditsExact == ASSUME Sound PROVE LinksSpec => []CreditsExact
  BY CreditsExactHolds, LinksImplementParts, PTL
=============================================================================
