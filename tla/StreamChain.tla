---------------------------- MODULE StreamChain ----------------------------
(***************************************************************************)
(* A ready/valid stream through everything that stores its beats in one    *)
(* clock domain, wired end to end as lower_ready_valid_hierarchy wires     *)
(* instances:                                                              *)
(*                                                                         *)
(*   source -> { buffer N } -> elastic region -> rv_to_credit              *)
(*                                -> credit_to_rv { buffer C } -> sink     *)
(*                                                                         *)
(* The elastic region is a pipeline whose stages advance together, or the  *)
(* capacity-one temporal schedule that shares a multiplier.  A step is one *)
(* clock edge.  The two builds differ in what they make of a FIFO request  *)
(* that cannot be served: SystemVerilog ignores it, native simulation      *)
(* refuses the edge.                                                       *)
(***************************************************************************)
EXTENDS Naturals, Sequences

CONSTANTS Builds,          \* of "native" and "systemverilog"
          Regions,         \* of "pipeline" and "temporal"
          Stages,          \* capacity of the elastic pipeline
          BufferDepth,     \* of the buffered connection
          CreditCapacity,  \* of the credit link, and depth of its receiver
          Words, ZeroWord, \* payloads; a product of a word stands for the word
          Garbled          \* what a sum of products of different words yields

ASSUME ChainAssumption ==
    /\ Builds \subseteq {"native", "systemverilog"}
    /\ Regions \subseteq {"pipeline", "temporal"}
    /\ Stages \in Nat \ {0} /\ BufferDepth \in Nat \ {0} /\ CreditCapacity \in Nat \ {0}
    /\ ZeroWord \in Words /\ Garbled \notin Words

VARIABLES
    build, region,
    buffer,                      \* FIFO of the buffered connection
    stage_valid, stage_data,     \* elastic pipeline
    state, captured, product0, product1, result,   \* temporal schedule
    credits,                     \* of rv_to_credit
    receiver,                    \* FIFO of credit_to_rv
    chain_reset,
    taken,                       \* what the last transfer to the sink carried
    refused                      \* why native simulation refused the last edge

pipelineVars == <<stage_valid, stage_data>>
temporalVars == <<state, captured, product0, product1, result>>
chainVars == <<build, region, buffer, pipelineVars, temporalVars, credits, receiver,
               chain_reset, taken, refused>>

-----------------------------------------------------------------------------
(* A FIFO with its memory, pointers and count.                             *)
FifoOf(depth) == [storage : [0..(depth - 1) -> Words], rd : 0..(depth - 1),
                  wr : 0..(depth - 1), count : 0..depth]
EmptyFifo(depth) == [storage |-> [a \in 0..(depth - 1) |-> ZeroWord],
                     rd |-> 0, wr |-> 0, count |-> 0]

FifoValid(f) == f.count # 0
FifoFull(f, depth) == f.count = depth
FifoFront(f) == IF f.count = 0 THEN ZeroWord ELSE f.storage[f.rd]
FifoPop(f, request) == request /\ FifoValid(f)
FifoReady(f, depth, request) == ~FifoFull(f, depth) \/ FifoPop(f, request)

AdvancePointer(p, depth) == IF p = depth - 1 THEN 0 ELSE p + 1

FifoNext(f, depth, push, word, pop) ==
    [storage |-> IF push THEN [f.storage EXCEPT ![f.wr] = word] ELSE f.storage,
     wr |-> IF push THEN AdvancePointer(f.wr, depth) ELSE f.wr,
     rd |-> IF pop THEN AdvancePointer(f.rd, depth) ELSE f.rd,
     count |-> IF push /\ ~pop THEN f.count + 1
               ELSE IF pop /\ ~push THEN f.count - 1 ELSE f.count]

-----------------------------------------------------------------------------
(* The wires at an edge, from the sink back to the source.                 *)

(* credit_to_rv                                                            *)
credit_return(ready) == FifoPop(receiver, ready)
accepted(ready) == FifoReady(receiver, CreditCapacity, ready)

(* rv_to_credit                                                            *)
credit_available == credits # 0

(* the elastic region: whether it offers a beat, and takes one             *)
output_valid == IF region = "pipeline" THEN stage_valid[Stages] ELSE state = 4
output_payload == IF region = "pipeline" THEN stage_data[Stages] ELSE result
(* Mutant: the stages advance without a look at the stage behind them.     *)
advance_always == TRUE
advance == ~stage_valid[Stages] \/ credit_available
(* Mutant: the next word is captured before the last result has left.      *)
source_can_accept_early == state = 0 \/ state = 4
source_can_accept == state = 0 \/ (state = 4 /\ credit_available)
region_ready == IF region = "pipeline" THEN advance ELSE source_can_accept
input_transfer == FifoValid(buffer) /\ region_ready

credit_send == output_valid /\ credit_available

(* the buffered connection                                                 *)
stream_ready == FifoReady(buffer, BufferDepth, input_transfer)

(* What stops native simulation at this edge: the FIFO of the connection   *)
(* is asked to push whenever the source is valid, the one of the adapter   *)
(* to pop whenever the sink is ready, and the adapters check their counts. *)
Checks == {"overflow", "underflow", "without credit", "maximum credits"}
failed_checks(valid, ready) ==
    {c \in Checks :
        \/ c = "overflow" /\ valid /\ FifoFull(buffer, BufferDepth) /\ ~input_transfer
        \/ c = "underflow" /\ ready /\ ~FifoValid(receiver)
        \/ c = "without credit" /\ credit_send /\ ~accepted(ready)
        \/ /\ c = "maximum credits"
           /\ credit_return(ready) /\ ~credit_send /\ credits = CreditCapacity}

-----------------------------------------------------------------------------
(* The registers at an edge out of reset.                                  *)
PipelineRegisters ==
    IF advance
    THEN /\ stage_valid' = [i \in 1..Stages |->
                               IF i = 1 THEN FifoValid(buffer) ELSE stage_valid[i - 1]]
         /\ stage_data' = [i \in 1..Stages |->
                               IF i = 1 THEN FifoFront(buffer) ELSE stage_data[i - 1]]
    ELSE UNCHANGED pipelineVars

state_next ==
    CASE state = 0 -> IF input_transfer THEN 1 ELSE 0
      [] state = 1 -> 2
      [] state = 2 -> 3
      [] state = 3 -> 4
      [] OTHER -> IF ~credit_available THEN 4 ELSE IF input_transfer THEN 1 ELSE 0

scheduled_sum == IF product0 = product1 THEN product0 ELSE Garbled

TemporalRegisters ==
    /\ state' = state_next
    /\ captured' = IF input_transfer THEN FifoFront(buffer) ELSE captured
    /\ product0' = IF state = 1 THEN captured ELSE product0
    /\ product1' = IF state = 2 THEN captured ELSE product1
    /\ result' = IF state = 3 THEN scheduled_sum ELSE result

(* Mutant: a credit that comes back is only counted as another is spent.   *)
credits_next_paired(ready) ==
    IF ~credit_send THEN credits ELSE IF credit_return(ready) THEN credits ELSE credits - 1
credits_next(ready) ==
    credits + (IF credit_return(ready) THEN 1 ELSE 0) - (IF credit_send THEN 1 ELSE 0)

ChainRegisters(valid, word, ready) ==
    /\ buffer' = FifoNext(buffer, BufferDepth, valid /\ stream_ready, word, input_transfer)
    /\ IF region = "pipeline"
       THEN PipelineRegisters /\ UNCHANGED temporalVars
       ELSE TemporalRegisters /\ UNCHANGED pipelineVars
    /\ credits' = credits_next(ready)
    /\ receiver' = FifoNext(receiver, CreditCapacity, credit_send /\ accepted(ready),
                            output_payload, credit_return(ready))
    /\ taken' = IF credit_return(ready) THEN FifoFront(receiver) ELSE taken
    /\ refused' = {}

ChainCleared ==
    /\ buffer = EmptyFifo(BufferDepth) /\ receiver = EmptyFifo(CreditCapacity)
    /\ stage_valid = [i \in 1..Stages |-> FALSE]
    /\ stage_data = [i \in 1..Stages |-> ZeroWord]
    /\ state = 0
    /\ captured = ZeroWord /\ product0 = ZeroWord /\ product1 = ZeroWord
    /\ result = ZeroWord
    /\ credits = CreditCapacity

ChainInit ==
    /\ build \in Builds /\ region \in Regions
    /\ ChainCleared
    /\ chain_reset = FALSE /\ taken = ZeroWord /\ refused = {}

ChainEdge(valid, word, ready) ==
    /\ ~chain_reset
    /\ build = "systemverilog" \/ failed_checks(valid, ready) = {}
    /\ ChainRegisters(valid, word, ready)
    /\ UNCHANGED <<build, region, chain_reset>>

(* Native simulation raises before it commits anything.                    *)
RefusedEdge(valid, ready) ==
    /\ ~chain_reset /\ build = "native"
    /\ failed_checks(valid, ready) # {}
    /\ refused' = failed_checks(valid, ready)
    /\ UNCHANGED <<build, region, buffer, pipelineVars, temporalVars, credits, receiver,
                   chain_reset, taken>>

AssertChainReset ==
    /\ ~chain_reset /\ chain_reset' = TRUE
    /\ UNCHANGED <<build, region, buffer, pipelineVars, temporalVars, credits, receiver,
                   taken, refused>>

(* At an edge in reset the registers take their initial values; the memory *)
(* of a FIFO keeps its words.                                              *)
ChainResetEdge ==
    /\ chain_reset
    /\ buffer' = [EmptyFifo(BufferDepth) EXCEPT !.storage = buffer.storage]
    /\ receiver' = [EmptyFifo(CreditCapacity) EXCEPT !.storage = receiver.storage]
    /\ stage_valid' = [i \in 1..Stages |-> FALSE]
    /\ stage_data' = [i \in 1..Stages |-> ZeroWord]
    /\ state' = 0
    /\ captured' = ZeroWord /\ product0' = ZeroWord /\ product1' = ZeroWord
    /\ result' = ZeroWord
    /\ credits' = CreditCapacity
    /\ chain_reset' \in BOOLEAN /\ refused' = {}
    /\ UNCHANGED <<build, region, taken>>

ChainClock(ready) == \E valid \in BOOLEAN, word \in Words : ChainEdge(valid, word, ready)

ChainNext ==
    \/ \E ready \in BOOLEAN : ChainClock(ready)
    \/ \E valid, ready \in BOOLEAN : RefusedEdge(valid, ready)
    \/ AssertChainReset
    \/ ChainResetEdge

ChainSpec == ChainInit /\ [][ChainNext]_chainVars

-----------------------------------------------------------------------------
(* Every register holds a value of its type.  No word is ever Garbled, and *)
(* the counts stay within the depths.                                      *)
ChainTypeOK ==
    /\ build \in Builds /\ region \in Regions
    /\ buffer \in FifoOf(BufferDepth) /\ receiver \in FifoOf(CreditCapacity)
    /\ stage_valid \in [1..Stages -> BOOLEAN] /\ stage_data \in [1..Stages -> Words]
    /\ state \in 0..4
    /\ {captured, product0, product1, result, taken} \subseteq Words
    /\ credits \in 0..CreditCapacity
    /\ chain_reset \in BOOLEAN /\ refused \subseteq Checks

(* The words in a FIFO, and in the elastic region, oldest first.           *)
FifoContents(f, depth) == [i \in 1..f.count |-> f.storage[(f.rd + i - 1) % depth]]
StageContents(valid, data) ==
    LET From[i \in 0..Stages] ==
          IF i = 0 THEN <<>>
          ELSE (IF valid[i] THEN <<data[i]>> ELSE <<>>) \o From[i - 1]
    IN From
RegionContents ==
    IF region = "temporal"
    THEN IF state = 0 THEN <<>> ELSE IF state = 4 THEN <<result>> ELSE <<captured>>
    ELSE StageContents(stage_valid, stage_data)[Stages]
InChain == FifoContents(receiver, CreditCapacity) \o RegionContents
              \o FifoContents(buffer, BufferDepth)

(* The chain is a queue: each word accepted at the source is given to the  *)
(* sink once, whole and in order, through every pattern of stalls, bubbles *)
(* and resets.  The credits bound what is on the link, so no word is ever  *)
(* sent to a receiver that has no room for it.                             *)
ChainQueue == INSTANCE BoundedQueue WITH
                 Data <- Words, ZeroData <- ZeroWord,
                 Capacity <- BufferDepth + Stages + CreditCapacity,
                 queue <- IF chain_reset THEN <<>> ELSE InChain,
                 delivered <- taken, resetting <- chain_reset
ChainImplementsQueue == ChainQueue!Spec

(* A word in the chain is offered to the sink, unless a reset comes, and   *)
(* the source is not refused for ever (SystemVerilog build).               *)
ChainFlows ==
    /\ []<>(build = "native" \/ InChain = <<>> \/ FifoValid(receiver) \/ chain_reset)
    /\ []<>(build = "native" \/ stream_ready \/ chain_reset)

(* "A source stalled with valid=1 and ready=0 must hold payload and valid  *)
(* stable": so a source may wait at a full buffer, and is not stopped for  *)
(* an overflow when it does.                                               *)
StalledSourceWaits == "overflow" \notin refused
=============================================================================
