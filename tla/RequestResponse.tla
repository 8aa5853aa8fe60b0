-------------------------- MODULE RequestResponse --------------------------
(***************************************************************************)
(* Request/response interfaces.  In order: a requester and a responder,    *)
(* each with a count of outstanding requests, connected by wires or by     *)
(* request and response FIFOs.  Out of order: a requester that keeps the   *)
(* identifiers of its outstanding requests in a ledger of slots, and a     *)
(* responder outside the program that answers in any order, and may err.   *)
(* The equations are those of lower_request_response_module, of            *)
(* _OutstandingIdLedger, and of the hierarchy that connects two ends.      *)
(* A step is one clock edge; a check of the ledger that fails stops the    *)
(* simulation before the edge commits.                                     *)
(*                                                                         *)
(* An edge at which native simulation finds a FIFO of the connection       *)
(* pushed while full, or popped while empty, is refused and commits        *)
(* nothing (StreamChain models that); here the source waits, as it does in *)
(* the generated SystemVerilog.                                            *)
(***************************************************************************)
EXTENDS Naturals, Sequences, FiniteSets

CONSTANTS MaxOutstanding,
          Ids,         \* what a request carries: its identifier
          Orderings,   \* of "in_order" and "out_of_order"
          Depths       \* of the FIFOs on the connection; 0 is a wire

ASSUME RequestAssumption ==
    /\ MaxOutstanding \in Nat \ {0} /\ Depths \subseteq Nat /\ Ids # {}
    /\ Orderings \subseteq {"in_order", "out_of_order"}

VARIABLES
    ordering, request_depth, response_depth,
    outstanding,                       \* count of the requester
    served,                            \* count of the responder
    request_buffer, response_buffer,   \* identifiers under way
    pending,                           \* taken by the responder's logic, not answered
    slot_id, slot_valid,               \* the ledger
    ledger_alarms,
    rr_reset,
    waiting                            \* what the requester's logic waits for

connection == <<ordering, request_depth, response_depth>>
inOrderVars == <<served, request_buffer, response_buffer, pending>>
ledgerVars == <<slot_id, slot_valid>>
rrVars == <<connection, outstanding, inOrderVars, ledgerVars, ledger_alarms, rr_reset, waiting>>

Slots == 1..MaxOutstanding

-----------------------------------------------------------------------------
(* The two ends of an in-order connection at an edge, with what the logic  *)
(* behind each is willing to do: send a request, take a response; take a   *)
(* request, send a response.                                               *)
Will == [request : BOOLEAN, id : Ids, take_response : BOOLEAN,
         take_request : BOOLEAN, response : BOOLEAN]

(* Mutant: the requester is held back one request late.                    *)
request_valid_late(w) == w.request /\ outstanding <= MaxOutstanding
request_valid(w) == w.request /\ outstanding < MaxOutstanding

(* the request channel, through its FIFO if it has one                     *)
arriving(w) == IF request_depth = 0 THEN request_valid(w) ELSE request_buffer # <<>>
arriving_id(w) == IF request_depth = 0 THEN w.id ELSE Head(request_buffer)
responder_takes(w) == arriving(w) /\ served < MaxOutstanding /\ w.take_request
request_ready(w) ==
    IF request_depth = 0 THEN served < MaxOutstanding /\ w.take_request
    ELSE Len(request_buffer) < request_depth \/ responder_takes(w)
request_transfer(w) == request_valid(w) /\ request_ready(w)

(* the response channel: a request may be answered in its own cycle        *)
response_valid(w) == w.response /\ (served # 0 \/ responder_takes(w))
answer(w) == IF pending = <<>> THEN arriving_id(w) ELSE Head(pending)
returning(w) == IF response_depth = 0 THEN response_valid(w) ELSE response_buffer # <<>>
response_ready(w) == w.take_response /\ (outstanding # 0 \/ request_transfer(w))
response_transfer(w) == returning(w) /\ response_ready(w)
responder_answers(w) ==
    /\ response_valid(w)
    /\ IF response_depth = 0 THEN response_ready(w)
       ELSE Len(response_buffer) < response_depth \/ response_transfer(w)

Through(buffer, depth, push, id, pop) ==
    IF depth = 0 THEN buffer
    ELSE (IF pop THEN Tail(buffer) ELSE buffer) \o (IF push THEN <<id>> ELSE <<>>)

Step(count, up, down) == count + (IF up THEN 1 ELSE 0) - (IF down THEN 1 ELSE 0)

InOrderEdge(w) ==
    /\ ordering = "in_order" /\ ~rr_reset
    /\ outstanding' = Step(outstanding, request_transfer(w), response_transfer(w))
    /\ served' = Step(served, responder_takes(w), responder_answers(w))
    /\ request_buffer' = Through(request_buffer, request_depth, request_transfer(w), w.id,
                                 responder_takes(w))
    /\ pending' = LET taken == IF responder_takes(w) THEN Append(pending, arriving_id(w))
                               ELSE pending
                  IN IF responder_answers(w) THEN Tail(taken) ELSE taken
    /\ response_buffer' = Through(response_buffer, response_depth, responder_answers(w),
                                  answer(w), response_transfer(w))
    /\ waiting' = LET asked == IF request_transfer(w) THEN Append(waiting, w.id) ELSE waiting
                  IN IF response_transfer(w) THEN Tail(asked) ELSE asked
    /\ UNCHANGED <<connection, ledgerVars, ledger_alarms, rr_reset>>

-----------------------------------------------------------------------------
(* The ledger of an out-of-order requester at an edge that transfers a     *)
(* request, a response, or both.                                           *)
stored(id) == {s \in Slots : slot_valid[s] /\ slot_id[s] = id}

valid_after_remove(answered, id) ==
    [s \in Slots |-> slot_valid[s] /\ ~(answered /\ slot_id[s] = id)]

(* Mutant: the request goes to every free slot.                            *)
insert_here_every(asked, free) == [s \in Slots |-> asked /\ free[s]]
insert_here(asked, free) ==
    [s \in Slots |-> asked /\ free[s] /\ \A t \in Slots : t < s => ~free[t]]

duplicate(asked, id) == asked /\ stored(id) # {}
missing(answered, id) == answered /\ stored(id) = {}

(* What transfers: the requester's count holds a request back, and without *)
(* an outstanding request no response is taken.                            *)
asks(request, taken) == request /\ outstanding < MaxOutstanding /\ taken
answers(response, take) == response /\ outstanding # 0 /\ take

LedgerChecks(asked, id, answered, rid) ==
    {a \in {"duplicate", "missing"} : \/ a = "duplicate" /\ duplicate(asked, id)
                                      \/ a = "missing" /\ missing(answered, rid)}

(* A response strikes out the request with its identifier.                 *)
Struck(requests, id) ==
    LET at == CHOOSE n \in 1..Len(requests) : requests[n] = id
    IN [n \in 1..(Len(requests) - 1) |-> IF n < at THEN requests[n] ELSE requests[n + 1]]

OutOfOrderEdge(asked, id, answered, rid) ==
    LET kept == valid_after_remove(answered, rid)
        insert == insert_here(asked, [s \in Slots |-> ~kept[s]])
    IN /\ ordering = "out_of_order" /\ ~rr_reset /\ ledger_alarms = {}
       /\ LedgerChecks(asked, id, answered, rid) = {}
       /\ outstanding' = Step(outstanding, asked, answered)
       /\ slot_valid' = [s \in Slots |-> kept[s] \/ insert[s]]
       /\ slot_id' = [s \in Slots |-> IF insert[s] THEN id ELSE slot_id[s]]
       /\ waiting' = (IF answered THEN Struck(waiting, rid) ELSE waiting)
                        \o (IF asked THEN <<id>> ELSE <<>>)
       /\ UNCHANGED <<connection, inOrderVars, ledger_alarms, rr_reset>>

LedgerAlarm(asked, id, answered, rid) ==
    /\ ordering = "out_of_order" /\ ~rr_reset /\ ledger_alarms = {}
    /\ ledger_alarms' = LedgerChecks(asked, id, answered, rid)
    /\ ledger_alarms' # {}
    /\ UNCHANGED <<connection, outstanding, inOrderVars, ledgerVars, rr_reset, waiting>>

-----------------------------------------------------------------------------
RequestInit ==
    /\ ordering \in Orderings
    /\ request_depth \in Depths /\ response_depth \in Depths
    /\ ordering = "out_of_order" => request_depth = 0 /\ response_depth = 0
    /\ outstanding = 0 /\ served = 0
    /\ request_buffer = <<>> /\ response_buffer = <<>> /\ pending = <<>>
    /\ slot_id = [s \in Slots |-> CHOOSE i \in Ids : TRUE]
    /\ slot_valid = [s \in Slots |-> FALSE]
    /\ ledger_alarms = {} /\ waiting = <<>>
    /\ rr_reset = FALSE

AssertRequestReset ==
    /\ ~rr_reset /\ rr_reset' = TRUE
    /\ UNCHANGED <<connection, outstanding, inOrderVars, ledgerVars, ledger_alarms, waiting>>

RequestResetEdge ==
    /\ rr_reset
    /\ outstanding' = 0 /\ served' = 0
    /\ request_buffer' = <<>> /\ response_buffer' = <<>> /\ pending' = <<>>
    /\ slot_id' = [s \in Slots |-> CHOOSE i \in Ids : TRUE]
    /\ slot_valid' = [s \in Slots |-> FALSE]
    /\ ledger_alarms' = {} /\ waiting' = <<>>
    /\ rr_reset' \in BOOLEAN
    /\ UNCHANGED connection

OutOfOrder ==
    \E request, taken, response, take \in BOOLEAN, id, rid \in Ids :
        LET asked == asks(request, taken)
            answered == answers(response, take)
        IN \/ OutOfOrderEdge(asked, id, answered, rid)
           \/ LedgerAlarm(asked, id, answered, rid)

RequestNext ==
    \/ \E w \in Will : InOrderEdge(w)
    \/ OutOfOrder
    \/ AssertRequestReset
    \/ RequestResetEdge

RequestSpec == RequestInit /\ [][RequestNext]_rrVars

-----------------------------------------------------------------------------
(* The counts and the FIFOs stay within their bounds.                      *)
RequestTypeOK ==
    /\ ordering \in Orderings /\ request_depth \in Depths /\ response_depth \in Depths
    /\ outstanding \in 0..MaxOutstanding /\ served \in 0..MaxOutstanding
    /\ {Len(request_buffer)} \subseteq 0..request_depth
    /\ {Len(response_buffer)} \subseteq 0..response_depth
    /\ {request_buffer, response_buffer, pending, waiting} \subseteq Seq(Ids)
    /\ slot_id \in [Slots -> Ids] /\ slot_valid \in [Slots -> BOOLEAN]
    /\ ledger_alarms \subseteq {"duplicate", "missing"}
    /\ rr_reset \in BOOLEAN

(* The books of both ends agree with what each end has transferred.  In    *)
(* order: the requests that the requester waits for are, oldest first,     *)
(* those answered and on their way back, those that the responder's logic  *)
(* has, and those on their way there, so that each response is the answer  *)
(* to the oldest request.  The requester counts at its own transfers: a    *)
(* request in its FIFO that no responder has accepted is outstanding too,  *)
(* where docs/hierarchy-protocols.md says that the ledger increments on    *)
(* the responder's side.  Out of order: the slots hold each outstanding    *)
(* identifier once, though identifiers are freed and reused in one cycle.  *)
LedgerExact ==
    /\ outstanding = Len(waiting)
    /\ ordering = "in_order" => /\ waiting = response_buffer \o pending \o request_buffer
                                /\ served = Len(pending)
    /\ ordering = "out_of_order" =>
          /\ {slot_id[s] : s \in {t \in Slots : slot_valid[t]}}
                = {waiting[i] : i \in DOMAIN waiting}
          /\ Cardinality({t \in Slots : slot_valid[t]}) = outstanding
=============================================================================
