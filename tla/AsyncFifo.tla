----------------------------- MODULE AsyncFifo -----------------------------
(***************************************************************************)
(* The two-clock FIFO behind `crossing async_fifo(N)`: Gray pointers, two- *)
(* flop synchronizers, a one-write one-read memory with a registered read  *)
(* and one prefetched output beat.  The equations are those of             *)
(* build_async_fifo_controller; the registers and their reset are those of *)
(* _lower_async_fifo (simulation) and _emit_async_fifo (SystemVerilog),    *)
(* which share the equations.                                              *)
(*                                                                         *)
(* The two clocks are unrelated, so an edge of either may come at any time *)
(* and both may come at once.  When they do, each bit of a pointer sampled *)
(* while it changes is taken before or after the change, independently:    *)
(* this is what Gray coding is there to survive.                           *)
(***************************************************************************)
EXTENDS Integers, FiniteSets

CONSTANTS Depth,      \* words of storage
          Data,       \* payloads
          ZeroData    \* what the read register holds after a reader reset

ASSUME DepthAssumption ==
    /\ Depth \in Nat
    /\ Depth >= 4
    /\ \E k \in 2..Depth : 2^k = Depth

ASSUME ZeroAssumption == ZeroData \in Data

AddressWidth == CHOOSE k \in 2..Depth : 2^k = Depth
PointerWidth == AddressWidth + 1
Span == 2 * Depth
Pointers == 0..(Span - 1)
Addresses == 0..(Depth - 1)
Bits == 0..(PointerWidth - 1)
Codes == [Bits -> 0..1]

\* Addition modulo 2^PointerWidth of a one-bit increment.
Add(p, by) == IF by /\ p = Span - 1 THEN 0 ELSE IF by THEN p + 1 ELSE p

\* The low AddressWidth bits of a pointer.
Address(p) == IF p >= Depth THEN p - Depth ELSE p

\* p ^ (p >> 1), bit by bit.
Gray == [p \in Pointers |->
            [i \in Bits |-> ((p \div 2^i) + (p \div 2^(i + 1))) % 2]]

\* Exclusive-or with 3 << (PointerWidth - 2).
InvertTop(c) == [i \in Bits |-> IF i >= PointerWidth - 2 THEN 1 - c[i] ELSE c[i]]

\* What a register may sample of a word that changes from a to b at the
\* sampling edge.
Sampled(a, b) == {c \in Codes : \A i \in Bits : c[i] \in {a[i], b[i]}}

(* The three facts about Gray codes that the crossing rests on: no two     *)
(* positions have one code, a code that is sampled while the pointer moves *)
(* on is the old or the new one, and inverting the two top bits goes half  *)
(* way round the circle.                                                   *)
GrayFacts ==
    /\ \A p, q \in Pointers : Gray[p] = Gray[q] => p = q
    /\ \A p \in Pointers : Sampled(Gray[p], Gray[Add(p, TRUE)])
                              \subseteq {Gray[p], Gray[Add(p, TRUE)]}
    /\ \A p, q \in Pointers :
          Gray[p] = InvertTop(Gray[q])
             <=> p = (IF q >= Depth THEN q - Depth ELSE q + Depth)

VARIABLES
    \* source clock domain
    write_binary, write_gray, read_gray_sync1, read_gray_sync2, full,
    source_reset,
    \* destination clock domain
    read_binary, read_gray, write_gray_sync1, write_gray_sync2, output_valid,
    destination_reset,
    \* the 1W1R memory and its registered read port
    storage, read_data,
    \* what the last destination transfer carried
    delivered,
    \* the domains that have seen an edge in the current reset episode
    cleared

sourceVars == <<write_binary, write_gray, read_gray_sync1, read_gray_sync2, full>>
destinationVars == <<read_binary, read_gray, write_gray_sync1, write_gray_sync2,
                     output_valid, read_data, delivered>>
resetVars == <<source_reset, destination_reset>>
vars == <<sourceVars, destinationVars, resetVars, storage, cleared>>

(* Pointers stay on their circle, the Gray registers hold words of the     *)
(* pointer's width, and the memory and the read register hold payloads.    *)
TypeOK ==
    /\ write_binary \in Pointers
    /\ read_binary \in Pointers
    /\ {write_gray, read_gray, read_gray_sync1, read_gray_sync2,
        write_gray_sync1, write_gray_sync2} \subseteq Codes
    /\ full \in BOOLEAN
    /\ output_valid \in BOOLEAN
    /\ source_reset \in BOOLEAN
    /\ destination_reset \in BOOLEAN
    /\ storage \in [Addresses -> Data]
    /\ read_data \in Data
    /\ delivered \in Data
    /\ cleared \subseteq {"source", "destination"}

-----------------------------------------------------------------------------
(* The controller equations.                                               *)

source_ready == ~source_reset /\ ~full
destination_valid == ~destination_reset /\ output_valid
push(valid) == valid /\ source_ready
pop(ready) == destination_valid /\ ready

write_binary_next(valid) == Add(write_binary, push(valid))
write_gray_next(valid) == Gray[write_binary_next(valid)]
read_binary_next(ready) == Add(read_binary, pop(ready))
read_gray_next(ready) == Gray[read_binary_next(ready)]

unread_current == read_gray # write_gray_sync2
(* Mutant: the word at the present position is looked at again.            *)
unread_next_stale(ready) == read_gray # write_gray_sync2
unread_next(ready) == read_gray_next(ready) # write_gray_sync2
(* Mutants: a fetch without a look at the writer's position, and one only  *)
(* behind a transfer.                                                      *)
prefetch_blind(ready) == ~destination_reset /\ (~output_valid \/ pop(ready))
prefetch_behind_pop(ready) == ~destination_reset /\ pop(ready) /\ unread_next(ready)
prefetch(ready) ==
    /\ ~destination_reset
    /\ \/ ~output_valid /\ unread_current
       \/ pop(ready) /\ unread_next(ready)
(* Mutant: a beat that is not taken is dropped.                            *)
output_valid_next_dropped(ready) == prefetch(ready)
output_valid_next(ready) == prefetch(ready) \/ (output_valid /\ ~pop(ready))

(* Mutants: full is found out one word late, and never cleared.            *)
full_next_late(valid) == write_gray = InvertTop(read_gray_sync2)
full_next_sticky(valid) == full \/ write_gray_next(valid) = InvertTop(read_gray_sync2)
full_next(valid) == write_gray_next(valid) = InvertTop(read_gray_sync2)

-----------------------------------------------------------------------------
Init ==
    /\ write_binary = 0 /\ read_binary = 0
    /\ write_gray = Gray[0] /\ read_gray = Gray[0]
    /\ read_gray_sync1 = Gray[0] /\ read_gray_sync2 = Gray[0]
    /\ write_gray_sync1 = Gray[0] /\ write_gray_sync2 = Gray[0]
    /\ full = FALSE /\ output_valid = FALSE
    /\ source_reset = FALSE /\ destination_reset = FALSE
    /\ storage = [a \in Addresses |-> ZeroData]
    /\ read_data = ZeroData /\ delivered = ZeroData
    /\ cleared = {}

(* What a push writes at the write address.                                *)
(* Mutant: the address is written in place of the payload.                 *)
Stored_address(payload) == [storage EXCEPT ![Address(write_binary)] = write_binary]
Stored(payload) == [storage EXCEPT ![Address(write_binary)] = payload]

(* The registers of the source domain at an edge of its clock; `sampled`   *)
(* is what the first flop of the read pointer's synchronizer takes.        *)
SourceRegisters(valid, payload, sampled) ==
    IF source_reset
    THEN /\ write_binary' = 0
         /\ write_gray' = Gray[0]
         /\ read_gray_sync1' = Gray[0]
         /\ read_gray_sync2' = Gray[0]
         /\ full' = FALSE
         /\ storage' = storage
    ELSE /\ write_binary' = write_binary_next(valid)
         /\ write_gray' = write_gray_next(valid)
         /\ read_gray_sync1' = sampled
         /\ read_gray_sync2' = read_gray_sync1
         /\ full' = full_next(valid)
         /\ storage' = IF push(valid) THEN Stored(payload) ELSE storage

(* The registers of the destination domain at an edge of its clock.        *)
DestinationRegisters(ready, sampled) ==
    IF destination_reset
    THEN /\ read_binary' = 0
         /\ read_gray' = Gray[0]
         /\ write_gray_sync1' = Gray[0]
         /\ write_gray_sync2' = Gray[0]
         /\ output_valid' = FALSE
         /\ read_data' = ZeroData
         /\ delivered' = delivered
    ELSE /\ read_binary' = read_binary_next(ready)
         /\ read_gray' = read_gray_next(ready)
         /\ write_gray_sync1' = sampled
         /\ write_gray_sync2' = write_gray_sync1
         /\ output_valid' = output_valid_next(ready)
         /\ read_data' = IF prefetch(ready)
                         THEN storage[Address(read_binary_next(ready))]
                         ELSE read_data
         /\ delivered' = IF pop(ready) THEN read_data ELSE delivered

Clear(edges) ==
    cleared' = cleared \cup {d \in edges : \/ d = "source" /\ source_reset
                                           \/ d = "destination" /\ destination_reset}

SourceEdge(valid, payload) ==
    /\ SourceRegisters(valid, payload, read_gray)
    /\ Clear({"source"})
    /\ UNCHANGED <<destinationVars, resetVars>>

DestinationEdge(ready) ==
    /\ DestinationRegisters(ready, write_gray)
    /\ Clear({"destination"})
    /\ UNCHANGED <<sourceVars, resetVars, storage>>

(* Both clocks have an edge at once: each synchronizer samples a pointer   *)
(* that is changing, and the memory read sees the cells before the write.  *)
BothEdges(valid, payload, ready) ==
    \E r \in Sampled(read_gray, IF destination_reset THEN Gray[0]
                                ELSE read_gray_next(ready)),
       w \in Sampled(write_gray, IF source_reset THEN Gray[0]
                                 ELSE write_gray_next(valid)) :
        /\ SourceRegisters(valid, payload, r)
        /\ DestinationRegisters(ready, w)
        /\ Clear({"source", "destination"})
        /\ UNCHANGED resetVars

(* A coordinated reset episode: the resets are asserted together and       *)
(* neither is released before both domains have seen an edge; they are     *)
(* released one after the other in either order.                           *)
AssertReset ==
    /\ source_reset' = TRUE /\ destination_reset' = TRUE
    /\ cleared' = {}
    /\ UNCHANGED <<sourceVars, destinationVars, storage>>

ReleaseSource ==
    /\ source_reset /\ cleared = {"source", "destination"}
    /\ source_reset' = FALSE
    /\ UNCHANGED <<sourceVars, destinationVars, destination_reset, storage, cleared>>

ReleaseDestination ==
    /\ destination_reset /\ cleared = {"source", "destination"}
    /\ destination_reset' = FALSE
    /\ UNCHANGED <<sourceVars, destinationVars, source_reset, storage, cleared>>

SourceClock == \E valid \in BOOLEAN, payload \in Data : SourceEdge(valid, payload)
DestinationClock(ready) == DestinationEdge(ready)
BothClocks(ready) ==
    \E valid \in BOOLEAN, payload \in Data : BothEdges(valid, payload, ready)

Next ==
    \/ SourceClock
    \/ \E ready \in BOOLEAN : DestinationClock(ready) \/ BothClocks(ready)
    \/ AssertReset
    \/ ReleaseSource
    \/ ReleaseDestination

Spec == Init /\ [][Next]_vars

(* Both clocks keep running, a reset episode that is begun is ended, and   *)
(* the destination does not refuse a beat for ever.                        *)
LiveSpec ==
    /\ Spec
    /\ WF_vars(SourceClock \/ \E ready \in BOOLEAN : BothClocks(ready))
    /\ WF_vars(DestinationClock(TRUE) \/ BothClocks(TRUE))
    /\ WF_vars(ReleaseSource) /\ WF_vars(ReleaseDestination)

-----------------------------------------------------------------------------
(* Positions on the circle of pointers.                                    *)
Ungray(c) == CHOOSE p \in Pointers : Gray[p] = c
Distance(a, b) == IF b >= a THEN b - a ELSE b - a + Span
Forward(p, n) == IF p + n >= Span THEN p + n - Span ELSE p + n

(* The words accepted and not yet transferred, the prefetched one first.   *)
Contents == [i \in 1..Distance(read_binary, write_binary) |->
                storage[Address(Forward(read_binary, i - 1))]]

(* The way round the circle from the reader's position as the writer last  *)
(* saw it, past every register that holds a pointer, to the writer.        *)
CircuitOf(rs2, rs1, rd, ws2, ws1, wr) ==
    Distance(rs2, rs1) + Distance(rs1, rd) + Distance(rd, ws2)
        + Distance(ws2, ws1) + Distance(ws1, wr)

Circuit == CircuitOf(Ungray(read_gray_sync2), Ungray(read_gray_sync1), read_binary,
                     Ungray(write_gray_sync2), Ungray(write_gray_sync1), write_binary)

PointersInOrder == Circuit <= Depth

(* A reset that has not yet reached both domains.                          *)
Resetting == source_reset /\ destination_reset /\ cleared # {"source", "destination"}

(* Outside a reset episode the pointers never overtake each other and no   *)
(* more than Depth words are held, whatever stale copy of a pointer each   *)
(* side is looking at.                                                     *)
NeverOverrun == Resetting \/ PointersInOrder

(* A word that the reader may fetch is never the cell that the writer may  *)
(* write at the same moment, so the collision rule of the memory is never  *)
(* needed.                                                                 *)
NoCollision ==
    \A ready \in BOOLEAN :
        prefetch(ready) /\ source_ready
            => Address(read_binary_next(ready)) # Address(write_binary)

(* "A stalled beat holds both payload and valid": until it is taken or the *)
(* destination is reset, a beat offered stays offered with its payload.    *)
StalledBeatHolds ==
    [][destination_valid /\ ~destination_reset' /\ read_binary' = read_binary
           => output_valid' /\ read_data' = read_data]_vars

(* A word accepted is offered to the destination, unless a reset comes: no *)
(* word lies in the FIFO with none offered for ever.                       *)
AcceptedIsOffered ==
    []<>(write_binary = read_binary \/ destination_valid \/ destination_reset)

(* The source is never refused for ever.                                   *)
SourceReadyAgain == []<>(source_ready \/ source_reset)

(* The inductive invariant behind the properties above.  The flags and the *)
(* prefetched beat are tied to the positions, the Gray registers hold the  *)
(* codes of pointers, and a domain that has seen an edge in reset is       *)
(* cleared.                                                                *)
GrayCodes == {Gray[p] : p \in Pointers}

Coded ==
    /\ write_gray = Gray[write_binary]
    /\ read_gray = Gray[read_binary]
    /\ {read_gray_sync1, read_gray_sync2, write_gray_sync1, write_gray_sync2}
           \subseteq GrayCodes

SourceCleared ==
    /\ write_binary = 0 /\ full = FALSE
    /\ read_gray_sync1 = Gray[0] /\ read_gray_sync2 = Gray[0]

DestinationCleared ==
    /\ read_binary = 0 /\ output_valid = FALSE /\ read_data = ZeroData
    /\ write_gray_sync1 = Gray[0] /\ write_gray_sync2 = Gray[0]

ResetCoordinated ==
    /\ (source_reset \/ destination_reset) /\ cleared # {"source", "destination"}
          => source_reset /\ destination_reset
    /\ source_reset /\ "source" \in cleared => SourceCleared
    /\ destination_reset /\ "destination" \in cleared => DestinationCleared

Working ==
    /\ PointersInOrder
    /\ ~full => Circuit < Depth
    /\ output_valid => /\ read_binary # Ungray(write_gray_sync2)
                       /\ read_data = storage[Address(read_binary)]

Inv == TypeOK /\ Coded /\ ResetCoordinated /\ (Resetting \/ Working)

(* The FIFO implements a bounded queue of Depth words.                     *)
Queue == INSTANCE BoundedQueue WITH
             Capacity <- Depth,
             queue <- IF Resetting THEN <<>> ELSE Contents,
             resetting <- Resetting
ImplementsQueue == Queue!Spec
=============================================================================
