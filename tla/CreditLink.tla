----------------------------- MODULE CreditLink -----------------------------
(***************************************************************************)
(* A credit link in native simulation: a sender endpoint that counts its   *)
(* credits, a receiver endpoint that counts its occupancy, connected by    *)
(* wires, with one channel (credit<T,N>) or several virtual channels that  *)
(* share the wires (vc_credit<T,V,N>).  The counters and the runtime       *)
(* checks are those of credit_counter_update as lower_credit_module and    *)
(* lower_vc_credit_module call it.                                         *)
(*                                                                         *)
(* The logic behind the sender asks to send when it likes; the logic       *)
(* behind the receiver returns credits when it likes, and may err.  A step *)
(* is one clock edge.  A check that fails stops the simulation before the  *)
(* edge commits anything.                                                  *)
(***************************************************************************)
EXTENDS Integers, FiniteSets

CONSTANTS Capacity,   \* credits of each channel
          Channels,   \* virtual channels of a vc_credit link
          Scalar,     \* the one channel of a credit link
          Families,   \* of "credit" and "vc_credit"
          NoChannel   \* the wire is not raised

ASSUME CreditAssumption ==
    /\ Capacity \in Nat \ {0}
    /\ IsFiniteSet(Channels) /\ Scalar \in Channels /\ NoChannel \notin Channels
    /\ Families \subseteq {"credit", "vc_credit"}

(* Registers of a counter are max(1, capacity.bit_length()) bits wide.     *)
Width == CHOOSE w \in 1..Capacity : 2^w > Capacity /\ (w = 1 \/ 2^(w - 1) <= Capacity)
Modulus == 2^Width

VARIABLES
    family,
    send_credits,    \* of each channel, the sender's counter
    occupancy,       \* of each channel, the receiver's counter
    alarms,          \* of each channel, the checks that failed
    link_reset,
    held             \* of each channel, the words sent and not given back

linkVars == <<family, send_credits, occupancy, alarms, link_reset, held>>

Alarms == {"sender overflow", "receiver underflow", "receiver overflow"}

-----------------------------------------------------------------------------
(* An edge: the channel on which the sender's logic asks to send, and the  *)
(* one on which the receiver's logic returns a credit.                     *)
Wires == (IF family = "credit" THEN {Scalar} ELSE Channels) \cup {NoChannel}

(* Mutant: the credits are not looked at.                                  *)
credit_sent_ungated(request) == [c \in Channels |-> request = c]
credit_sent(request) == [c \in Channels |-> request = c /\ send_credits[c] # 0]
credit_returned(return) == [c \in Channels |-> return = c]

Bit(b) == IF b THEN 1 ELSE 0
Counted(count, increase, decrease) == (count + Bit(increase) - Bit(decrease)) % Modulus

send_credits_next(request, return) ==
    [c \in Channels |-> Counted(send_credits[c], credit_returned(return)[c],
                                credit_sent(request)[c])]

(* A vc_credit receiver counts words in and credits out.  A scalar credit  *)
(* receiver is built without these two arguments, and so with the sender's *)
(* directions: a return increases its counter, and a word decreases it.    *)
(* Mutant: the directions of a vc_credit receiver are exchanged too.       *)
occupancy_next_exchanged(request, return) ==
    [c \in Channels |-> Counted(occupancy[c], credit_returned(return)[c],
                                credit_sent(request)[c])]
occupancy_next(request, return) ==
    [c \in Channels |->
        IF family = "vc_credit"
        THEN Counted(occupancy[c], credit_sent(request)[c], credit_returned(return)[c])
        ELSE Counted(occupancy[c], credit_returned(return)[c], credit_sent(request)[c])]

alarm_conditions(request, return) ==
    [c \in Channels |->
        LET sent == credit_sent(request)[c]
            returned == credit_returned(return)[c]
        IN {a \in Alarms :
            \/ a = "sender overflow" /\ returned /\ ~sent /\ send_credits[c] = Capacity
            \/ a = "receiver underflow" /\ returned /\ ~sent /\ occupancy[c] = 0
            \/ a = "receiver overflow" /\ sent /\ ~returned /\ occupancy[c] = Capacity}]

NoAlarms == [c \in Channels |-> {}]

LinkInit ==
    /\ family \in Families
    /\ send_credits = [c \in Channels |-> Capacity]
    /\ occupancy = [c \in Channels |-> 0]
    /\ alarms = NoAlarms
    /\ link_reset = FALSE
    /\ held = [c \in Channels |-> 0]

LinkEdge(request, return) ==
    /\ ~link_reset /\ alarms = NoAlarms
    /\ alarm_conditions(request, return) = NoAlarms
    /\ send_credits' = send_credits_next(request, return)
    /\ occupancy' = occupancy_next(request, return)
    /\ held' = [c \in Channels |-> held[c] + Bit(credit_sent(request)[c])
                                      - Bit(credit_returned(return)[c])]
    /\ UNCHANGED <<family, alarms, link_reset>>

LinkAlarm(request, return) ==
    /\ ~link_reset /\ alarms = NoAlarms
    /\ alarm_conditions(request, return) # NoAlarms
    /\ alarms' = alarm_conditions(request, return)
    /\ UNCHANGED <<family, send_credits, occupancy, link_reset, held>>

AssertLinkReset ==
    /\ ~link_reset /\ link_reset' = TRUE
    /\ UNCHANGED <<family, send_credits, occupancy, alarms, held>>

(* In reset send and return are masked, and the counters start again.      *)
LinkResetEdge ==
    /\ link_reset
    /\ send_credits' = [c \in Channels |-> Capacity]
    /\ occupancy' = [c \in Channels |-> 0]
    /\ held' = [c \in Channels |-> 0]
    /\ alarms' = NoAlarms
    /\ link_reset' \in BOOLEAN
    /\ UNCHANGED family

LinkNext ==
    \/ \E request, return \in Wires : LinkEdge(request, return) \/ LinkAlarm(request, return)
    \/ AssertLinkReset
    \/ LinkResetEdge

LinkSpec == LinkInit /\ [][LinkNext]_linkVars

-----------------------------------------------------------------------------
(* The counters stay within their width.                                   *)
LinkTypeOK ==
    /\ family \in Families
    /\ send_credits \in [Channels -> 0..(Modulus - 1)]
    /\ occupancy \in [Channels -> 0..(Modulus - 1)]
    /\ alarms \in [Channels -> SUBSET Alarms]
    /\ link_reset \in BOOLEAN
    /\ held \in [Channels -> 0..Capacity]

(* No credit is lost or made up on any channel, and the checks are exact:  *)
(* they fail for the return of a credit that is not owed, on both ends at  *)
(* once, and never while both ends keep to what they hold.  In particular  *)
(* the receiver is never found overrun: the sender's credits see to it.    *)
(* The occupancy that a vc_credit receiver publishes is what it holds.     *)
CreditsExact ==
    \A c \in Channels :
        /\ send_credits[c] + held[c] = Capacity
        /\ family = "vc_credit" => occupancy[c] = held[c]
        /\ alarms[c] # {} =>
              held[c] = 0 /\ alarms[c] = {"sender overflow", "receiver underflow"}

(* The receiver's check says "overflow: transfer at maximum occupancy":    *)
(* it fails only if the receiver holds its capacity.                       *)
OverflowMeansFull ==
    \A c \in Channels : "receiver overflow" \in alarms[c] => held[c] = Capacity
=============================================================================
