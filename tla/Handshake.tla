----------------------------- MODULE Handshake -----------------------------
(***************************************************************************)
(* The one-word crossing behind `crossing handshake`: the source holds the *)
(* payload and toggles a request, the destination answers by copying the   *)
(* request into its acknowledge, and each toggle goes through a two-flop   *)
(* synchronizer.  The registers and their reset are those of               *)
(* _lower_handshake (simulation) and _emit_handshake (SystemVerilog).      *)
(*                                                                         *)
(* The clocks are unrelated: an edge of either may come at any time.  When *)
(* both come at once, a synchronizer that samples a toggle as it changes   *)
(* takes it before or after the change.  The payload has no synchronizer,  *)
(* so it must not change while the destination may look at it.             *)
(***************************************************************************)
EXTENDS Naturals

CONSTANTS Data,       \* payloads
          ZeroData    \* what the holding register is reset to

ASSUME HandshakeAssumption == ZeroData \in Data

VARIABLES
    \* source clock domain
    held_payload, source_request, ack_sync1, ack_sync2, source_reset,
    \* destination clock domain
    request_sync1, request_sync2, destination_acknowledge, destination_reset,
    \* what the last destination transfer carried
    delivered,
    \* the domains that have seen an edge in the current reset episode
    cleared

sourceVars == <<held_payload, source_request, ack_sync1, ack_sync2>>
destinationVars == <<request_sync1, request_sync2, destination_acknowledge, delivered>>
resetVars == <<source_reset, destination_reset>>
vars == <<sourceVars, destinationVars, resetVars, cleared>>

(* Every register holds a value of its width: the toggles a bit, and the   *)
(* holding register a payload.                                             *)
TypeOK ==
    /\ held_payload \in Data /\ delivered \in Data
    /\ source_request \in {0, 1} /\ destination_acknowledge \in {0, 1}
    /\ ack_sync1 \in {0, 1} /\ ack_sync2 \in {0, 1}
    /\ request_sync1 \in {0, 1} /\ request_sync2 \in {0, 1}
    /\ source_reset \in BOOLEAN /\ destination_reset \in BOOLEAN
    /\ cleared \subseteq {"source", "destination"}

-----------------------------------------------------------------------------
(* Mutant: the source does not wait for the acknowledge.                   *)
source_ready_always == ~source_reset
(* Mutant: the source waits for the request and the acknowledge to fall,   *)
(* as in a four-phase handshake.                                           *)
source_ready_level == ~source_reset /\ source_request = 0 /\ ack_sync2 = 0
source_ready == ~source_reset /\ source_request = ack_sync2

destination_valid == ~destination_reset /\ request_sync2 # destination_acknowledge
source_transfer(valid) == valid /\ source_ready
destination_transfer(ready) == destination_valid /\ ready

Init ==
    /\ held_payload = ZeroData /\ delivered = ZeroData
    /\ source_request = 0 /\ ack_sync1 = 0 /\ ack_sync2 = 0
    /\ request_sync1 = 0 /\ request_sync2 = 0 /\ destination_acknowledge = 0
    /\ source_reset = FALSE /\ destination_reset = FALSE
    /\ cleared = {}

request_next(valid) ==
    IF source_reset THEN 0
    ELSE IF source_transfer(valid) THEN 1 - source_request ELSE source_request

(* Mutant: the acknowledge toggles with every destination edge at which    *)
(* the consumer is ready.                                                  *)
acknowledge_next_toggling(ready) ==
    IF destination_reset THEN 0
    ELSE IF ready THEN 1 - destination_acknowledge ELSE destination_acknowledge
(* Mutant: the acknowledge is returned before the consumer takes the beat. *)
acknowledge_next_early(ready) ==
    IF destination_reset THEN 0
    ELSE IF destination_valid THEN request_sync2 ELSE destination_acknowledge
acknowledge_next(ready) ==
    IF destination_reset THEN 0
    ELSE IF destination_transfer(ready) THEN request_sync2 ELSE destination_acknowledge

(* The registers of the source domain at an edge of its clock; `sampled`   *)
(* is what the first flop of the acknowledge's synchronizer takes.         *)
SourceRegisters(valid, payload, sampled) ==
    /\ source_request' = request_next(valid)
    /\ IF source_reset
       THEN held_payload' = ZeroData /\ ack_sync1' = 0 /\ ack_sync2' = 0
       ELSE /\ held_payload' = IF source_transfer(valid) THEN payload ELSE held_payload
            /\ ack_sync1' = sampled
            /\ ack_sync2' = ack_sync1

(* The registers of the destination domain at an edge of its clock.        *)
DestinationRegisters(ready, sampled) ==
    /\ destination_acknowledge' = acknowledge_next(ready)
    /\ delivered' = IF destination_transfer(ready) THEN held_payload ELSE delivered
    /\ IF destination_reset
       THEN request_sync1' = 0 /\ request_sync2' = 0
       ELSE request_sync1' = sampled /\ request_sync2' = request_sync1

Clear(edges) ==
    cleared' = cleared \cup {d \in edges : \/ d = "source" /\ source_reset
                                           \/ d = "destination" /\ destination_reset}

SourceEdge(valid, payload) ==
    /\ SourceRegisters(valid, payload, destination_acknowledge)
    /\ Clear({"source"})
    /\ UNCHANGED <<destinationVars, resetVars>>

DestinationEdge(ready) ==
    /\ DestinationRegisters(ready, source_request)
    /\ Clear({"destination"})
    /\ UNCHANGED <<sourceVars, resetVars>>

(* Both clocks have an edge at once.                                       *)
BothEdges(valid, payload, ready) ==
    \E a \in {destination_acknowledge, acknowledge_next(ready)},
       r \in {source_request, request_next(valid)} :
        /\ SourceRegisters(valid, payload, a)
        /\ DestinationRegisters(ready, r)
        /\ Clear({"source", "destination"})
        /\ UNCHANGED resetVars

(* A coordinated reset episode, as in the asynchronous FIFO.               *)
AssertReset ==
    /\ source_reset' = TRUE /\ destination_reset' = TRUE
    /\ cleared' = {}
    /\ UNCHANGED <<sourceVars, destinationVars>>

ReleaseSource ==
    /\ source_reset /\ cleared = {"source", "destination"}
    /\ source_reset' = FALSE
    /\ UNCHANGED <<sourceVars, destinationVars, destination_reset, cleared>>

ReleaseDestination ==
    /\ destination_reset /\ cleared = {"source", "destination"}
    /\ destination_reset' = FALSE
    /\ UNCHANGED <<sourceVars, destinationVars, source_reset, cleared>>

SourceClock == \E valid \in BOOLEAN, payload \in Data : SourceEdge(valid, payload)
DestinationClock(ready) == DestinationEdge(ready)
BothClocks(ready) ==
    \E valid \in BOOLEAN, payload \in Data : BothEdges(valid, payload, ready)

Next ==
    \/ SourceClock
    \/ \E ready \in BOOLEAN : DestinationClock(ready) \/ BothClocks(ready)
    \/ AssertReset
    \/ ReleaseSource
    \/ ReleaseDestination

Spec == Init /\ [][Next]_vars

(* Both clocks keep running, a reset episode that is begun is ended, and   *)
(* the destination does not refuse a beat for ever.                        *)
LiveSpec ==
    /\ Spec
    /\ WF_vars(SourceClock \/ \E ready \in BOOLEAN : BothClocks(ready))
    /\ WF_vars(DestinationClock(TRUE) \/ BothClocks(TRUE))
    /\ WF_vars(ReleaseSource) /\ WF_vars(ReleaseDestination)

-----------------------------------------------------------------------------
(* A reset that has not yet reached both domains.                          *)
Resetting == source_reset /\ destination_reset /\ cleared # {"source", "destination"}

(* On the way from the request round to the synchronized acknowledge, at   *)
(* most one register differs from the one before it.                       *)
Apart(a, b) == IF a = b THEN 0 ELSE 1
Waves == Apart(source_request, request_sync1) + Apart(request_sync1, request_sync2)
            + Apart(request_sync2, destination_acknowledge)
            + Apart(destination_acknowledge, ack_sync1) + Apart(ack_sync1, ack_sync2)

(* Outside a reset episode at most one toggle is under way: neither side   *)
(* starts another before the last has gone all the way round.              *)
OneWave == Resetting \/ Waves <= 1

(* The payload is not synchronized: whenever the destination is offered a  *)
(* beat, an edge of the source clock may not overwrite it.                 *)
HeldWhileOffered == destination_valid /\ ~Resetting => ~source_ready

(* Until a beat offered is taken, or the domains are reset, it stays       *)
(* offered with its payload.                                               *)
StalledBeatHolds ==
    [][destination_valid /\ ~Resetting /\ ~Resetting'
           /\ destination_acknowledge' = destination_acknowledge
         => destination_valid' /\ held_payload' = held_payload]_vars

(* A word accepted is offered to the destination, unless a reset comes: it *)
(* does not lie in the crossing unoffered for ever.                        *)
AcceptedIsOffered ==
    []<>(source_request = destination_acknowledge \/ destination_valid \/ destination_reset)

(* The source is never refused for ever.                                   *)
SourceReadyAgain == []<>(source_ready \/ source_reset)

(* The inductive invariant: what is proved, and that a domain that has     *)
(* seen an edge in reset is cleared.                                       *)
SourceCleared == source_request = 0 /\ ack_sync1 = 0 /\ ack_sync2 = 0
DestinationCleared ==
    request_sync1 = 0 /\ request_sync2 = 0 /\ destination_acknowledge = 0

ResetCoordinated ==
    /\ (source_reset \/ destination_reset) /\ cleared # {"source", "destination"}
          => source_reset /\ destination_reset
    /\ source_reset /\ "source" \in cleared => SourceCleared
    /\ destination_reset /\ "destination" \in cleared => DestinationCleared

Inv == TypeOK /\ ResetCoordinated /\ OneWave

(* The crossing implements a queue of one word.                            *)
Queue == INSTANCE BoundedQueue WITH
             Capacity <- 1,
             queue <- IF Resetting \/ source_request = destination_acknowledge
                      THEN <<>> ELSE <<held_payload>>,
             resetting <- Resetting
ImplementsQueue == Queue!Spec
=============================================================================
