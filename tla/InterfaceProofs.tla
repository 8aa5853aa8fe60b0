-------------------------- MODULE InterfaceProofs ---------------------------
(***************************************************************************)
(* Theorems about the interfaces and the registers of one clock domain,    *)
(* each component for itself and for every value of its constants: the     *)
(* credit link, for every capacity and every set of channels; the control  *)
(* and status registers, for fields of any width and either priority; the  *)
(* request/response connection, for any number of outstanding requests,    *)
(* any FIFOs on the connection and any identifiers.                        *)
(***************************************************************************)
EXTENDS CreditLink, CsrBlock, RequestResponse, SequenceTheorems, NumberProofs

-----------------------------------------------------------------------------
(* The credit link.  The scalar receiver counts in the sender's direction, *)
(* so that its register holds the negative of what it should; the checks   *)
(* come out right all the same if the register wraps at twice the          *)
(* capacity, which is so exactly for a capacity that is a power of two.    *)

(* When the checks are right: see above.                                   *)
Sound == Families \subseteq {"vc_credit"} \/ \E k \in Nat : Capacity = 2^k

(* What the receiver's register holds for a number of words.               *)
Register(words) ==
    IF family = "vc_credit" \/ words = 0 THEN words ELSE Modulus - words

Counts(c) ==
    /\ held[c] \in 0..Capacity
    /\ send_credits[c] = Capacity - held[c]
    /\ occupancy[c] = Register(held[c])

Justified(c) ==
    alarms[c] # {} => held[c] = 0 /\ alarms[c] = {"sender overflow", "receiver underflow"}

(* What holds whatever the capacity: the counters count, also where the    *)
(* checks are wrong.                                                       *)
LinkInv ==
    /\ family \in Families /\ link_reset \in BOOLEAN
    /\ send_credits \in [Channels -> Nat] /\ occupancy \in [Channels -> Nat]
    /\ held \in [Channels -> Nat] /\ alarms \in [Channels -> SUBSET Alarms]
    /\ \A c \in Channels : Counts(c)

ChecksRight == \A c \in Channels : Justified(c)

-----------------------------------------------------------------------------
(* A register of the counters' width can hold the capacity.               *)
LEMMA WidthFacts ==
    /\ Capacity \in Nat \ {0} /\ Width \in Nat /\ Width >= 1
    /\ Modulus > Capacity /\ (Width = 1 \/ 2^(Width - 1) <= Capacity)
<1> DEFINE Fits == {w \in 1..Capacity : 2^w > Capacity}
           Right(w) == 2^w > Capacity /\ (w = 1 \/ 2^(w - 1) <= Capacity)
<1>1. Capacity \in Nat \ {0}
  BY CreditAssumption
<1>2. ASSUME NEW w \in Nat PROVE 2^w \in Nat
  BY PowerDoubles
<1>3. Capacity \in Fits
  <2>1. 2^Capacity > Capacity
    BY <1>1, <1>2, PowerExceeds
  <2> QED
    BY <1>1, <2>1
<1>4. PICK w \in Fits : \A v \in Fits : w <= v
  <2>1. Fits \subseteq Nat /\ Fits # {}
    BY <1>1, <1>3
  <2> HIDE DEF Fits
  <2> QED
    BY <2>1, Least
<1>5. w \in 1..Capacity /\ Right(w)
  <2>1. w \in 1..Capacity /\ 2^w > Capacity
    BY <1>4
  <2>2. CASE w # 1
    <3>1. w - 1 \in 1..Capacity /\ w - 1 \in Nat
      BY <1>1, <2>1, <2>2
    <3>2. w - 1 \notin Fits
      BY <1>1, <1>4, <2>1
    <3>3. 2^(w - 1) <= Capacity
      BY <1>1, <1>2, <3>1, <3>2
    <3> QED
      BY <2>1, <3>3
  <2> QED
    BY <2>1, <2>2
<1>6. Width = CHOOSE v \in 1..Capacity : Right(v)
  BY DEF Width
<1> HIDE DEF Right, Fits
<1>7. Width \in 1..Capacity /\ Right(Width)
  BY <1>5, <1>6
<1> QED
  BY <1>1, <1>7 DEF Right, Modulus

LEMMA ModulusFacts == Modulus \in Nat /\ Capacity < Modulus
<1>1. Width \in Nat /\ Modulus > Capacity /\ Capacity \in Nat
  BY WidthFacts
<1>2. Modulus \in Nat
  BY <1>1, PowerDoubles DEF Modulus
<1> QED
  BY <1>1, <1>2

(* It wraps at twice the capacity exactly for a capacity that is a power   *)
(* of two.                                                                 *)
LEMMA PowerCapacities == Modulus = 2 * Capacity <=> \E k \in Nat : Capacity = 2^k
<1>1. /\ Capacity \in Nat \ {0} /\ Width \in Nat /\ Width >= 1
      /\ Modulus > Capacity /\ (Width = 1 \/ 2^(Width - 1) <= Capacity)
  BY WidthFacts
<1> DEFINE v == Width - 1
<1>2. v \in Nat /\ v + 1 = Width
  BY <1>1
<1>3. 2^v \in Nat /\ Modulus = 2 * 2^v
  <2> HIDE DEF v
  <2>1. 2^v \in Nat /\ 2^(v + 1) = 2 * 2^v
    BY <1>2, PowerDoubles
  <2> QED
    BY <1>2, <2>1 DEF Modulus
<1>4. ASSUME Modulus = 2 * Capacity PROVE \E k \in Nat : Capacity = 2^k
  <2>1. Capacity = 2^v
    BY <1>1, <1>3, <1>4
  <2> HIDE DEF v
  <2> QED
    BY <1>2, <2>1
<1>5. ASSUME NEW k \in Nat, Capacity = 2^k PROVE Modulus = 2 * Capacity
  <2>1. ~(Width <= k)
    <3>1. Width <= k => 2^Width <= 2^k
      BY <1>1, PowerMonotone
    <3>2. 2^Width > 2^k /\ 2^k \in Nat /\ 2^Width \in Nat
      BY <1>1, <1>5, PowerDoubles DEF Modulus
    <3> QED
      BY <3>1, <3>2
  <2>2. ~(k + 1 <= v)
    <3> SUFFICES ASSUME k + 1 <= v PROVE FALSE
      OBVIOUS
    <3>1. 2^v <= 2^k
      BY <1>1, <1>5
    <3> HIDE DEF v
    <3>2. 2^(k + 1) <= 2^v /\ 2^(k + 1) = 2 * 2^k /\ 2^k \in Nat
      BY <1>2, PowerMonotone, PowerDoubles
    <3>3. 2^k > 0
      BY <1>1, <1>5
    <3> QED
      BY <1>3, <3>1, <3>2, <3>3
  <2>3. v = k
    BY <1>1, <1>2, <2>1, <2>2
  <2> QED
    BY <1>3, <1>5, <2>3
<1> QED
  BY <1>4, <1>5

(* A register counts up and down by one, and wraps at its ends.            *)
LEMMA CountedFacts ==
    ASSUME NEW n \in 0..(Modulus - 1), NEW up \in BOOLEAN, NEW down \in BOOLEAN
    PROVE  /\ (up <=> down) => Counted(n, up, down) = n
           /\ up /\ ~down => Counted(n, up, down) = IF n = Modulus - 1 THEN 0 ELSE n + 1
           /\ ~up /\ down => Counted(n, up, down) = IF n = 0 THEN Modulus - 1 ELSE n - 1
<1> DEFINE M == Modulus
<1>1. M \in Nat \ {0} /\ n \in 0..(M - 1)
  BY CreditAssumption, ModulusFacts
<1> HIDE DEF M
<1>2. n % M = n /\ (n + 1) % M = IF n = M - 1 THEN 0 ELSE n + 1
  BY <1>1
<1>3. (n - 1) % M = IF n = 0 THEN M - 1 ELSE n - 1
  BY <1>1
<1>4. /\ (up <=> down) => n + Bit(up) - Bit(down) = n
      /\ up /\ ~down => n + Bit(up) - Bit(down) = n + 1
      /\ ~up /\ down => n + Bit(up) - Bit(down) = n - 1
  BY <1>1 DEF Bit
<1> QED
  BY <1>2, <1>3, <1>4 DEF Counted, M

(* What an edge that passes the checks does to one channel: a word is sent *)
(* only while one may be, and a credit returned only while a word is held. *)
LEMMA ChannelStep ==
    ASSUME LinkInv, NEW request \in Wires, NEW return \in Wires,
           LinkEdge(request, return), NEW c \in Channels
    PROVE  Counts(c)' /\ held'[c] \in Nat /\ send_credits'[c] \in Nat /\ occupancy'[c] \in Nat
<1> DEFINE sent == credit_sent(request)[c]
           returned == credit_returned(return)[c]
           M == Modulus
<1>1. /\ Capacity \in Nat \ {0} /\ M \in Nat /\ Capacity < M
      /\ held[c] \in 0..Capacity /\ send_credits[c] = Capacity - held[c]
  BY CreditAssumption, ModulusFacts DEF LinkInv, Counts
<1>r. occupancy[c] = IF family = "vc_credit" \/ held[c] = 0 THEN held[c] ELSE M - held[c]
  BY DEF LinkInv, Counts, Register
<1>2. sent \in BOOLEAN /\ returned \in BOOLEAN /\ (sent => send_credits[c] # 0)
  BY DEF credit_sent, credit_returned
<1>3. ~(returned /\ ~sent /\ send_credits[c] = Capacity)
  <2>1. alarm_conditions(request, return)[c] = {}
    BY DEF LinkEdge, NoAlarms
  <2> QED
    BY <2>1 DEF alarm_conditions, Alarms
<1>4. held'[c] = held[c] + Bit(sent) - Bit(returned)
  BY DEF LinkEdge
<1>5. send_credits'[c] = Counted(send_credits[c], returned, sent)
  BY DEF LinkEdge, send_credits_next
<1>6. occupancy'[c] = IF family = "vc_credit" THEN Counted(occupancy[c], sent, returned)
                                               ELSE Counted(occupancy[c], returned, sent)
  BY DEF LinkEdge, occupancy_next
<1>7. alarms'[c] = {} /\ family' = family
  BY DEF LinkEdge, NoAlarms
<1>8. send_credits[c] \in 0..(M - 1) /\ occupancy[c] \in 0..(M - 1)
  BY <1>1, <1>r
<1> HIDE DEF sent, returned
<1>s. /\ (sent <=> returned) => send_credits'[c] = send_credits[c]
      /\ sent /\ ~returned => send_credits'[c] = IF send_credits[c] = 0 THEN M - 1
                                                   ELSE send_credits[c] - 1
      /\ ~sent /\ returned => send_credits'[c] = IF send_credits[c] = M - 1 THEN 0
                                                   ELSE send_credits[c] + 1
  BY <1>2, <1>5, <1>8, CountedFacts
<1>v. CASE family = "vc_credit"
  <2>1. occupancy'[c] = Counted(occupancy[c], sent, returned)
    BY <1>6, <1>v
  <2>2. /\ (sent <=> returned) => occupancy'[c] = occupancy[c]
        /\ sent /\ ~returned => occupancy'[c] = IF occupancy[c] = M - 1 THEN 0
                                                  ELSE occupancy[c] + 1
        /\ ~sent /\ returned => occupancy'[c] = IF occupancy[c] = 0 THEN M - 1
                                                  ELSE occupancy[c] - 1
    BY <1>2, <1>8, <2>1, CountedFacts
  <2>3. /\ occupancy'[c] = held'[c] /\ held'[c] \in 0..Capacity
        /\ send_credits'[c] = Capacity - held'[c]
    BY <1>1, <1>r, <1>2, <1>3, <1>4, <1>s, <2>2, <1>v DEF Bit
  <2> QED
    BY <1>1, <1>7, <1>v, <2>3 DEF Counts, Register
<1>c. CASE family # "vc_credit"
  <2>1. occupancy'[c] = Counted(occupancy[c], returned, sent)
    BY <1>6, <1>c
  <2>2. /\ (sent <=> returned) => occupancy'[c] = occupancy[c]
        /\ sent /\ ~returned => occupancy'[c] = IF occupancy[c] = 0 THEN M - 1
                                                  ELSE occupancy[c] - 1
        /\ ~sent /\ returned => occupancy'[c] = IF occupancy[c] = M - 1 THEN 0
                                                  ELSE occupancy[c] + 1
    BY <1>2, <1>8, <2>1, CountedFacts
  <2>3. /\ occupancy'[c] = IF held'[c] = 0 THEN 0 ELSE M - held'[c]
        /\ held'[c] \in 0..Capacity /\ send_credits'[c] = Capacity - held'[c]
    BY <1>1, <1>r, <1>2, <1>3, <1>4, <1>s, <2>2, <1>c DEF Bit
  <2> QED
    BY <1>1, <1>7, <1>c, <2>3 DEF Counts, Register
<1> QED
  BY <1>v, <1>c

(* A check fails at both ends at once, and only for a credit that is       *)
(* returned while no word is held.                                         *)
LEMMA AlarmStep ==
    ASSUME Sound, LinkInv, NEW request \in Wires, NEW return \in Wires, NEW c \in Channels
    PROVE  \/ alarm_conditions(request, return)[c] = {}
           \/ /\ held[c] = 0
              /\ alarm_conditions(request, return)[c] = {"sender overflow", "receiver underflow"}
<1> DEFINE sent == credit_sent(request)[c]
           returned == credit_returned(return)[c]
<1>1. /\ Capacity \in Nat \ {0} /\ Modulus \in Nat /\ Capacity < Modulus
      /\ held[c] \in 0..Capacity /\ send_credits[c] = Capacity - held[c]
  BY CreditAssumption, ModulusFacts DEF LinkInv, Counts
<1>r. occupancy[c] = IF family = "vc_credit" \/ held[c] = 0 THEN held[c] ELSE Modulus - held[c]
  BY DEF LinkInv, Counts, Register
<1>2. sent => send_credits[c] # 0
  BY DEF credit_sent
<1>3. family # "vc_credit" => Modulus = 2 * Capacity
  BY CreditAssumption, PowerCapacities DEF Sound, LinkInv
<1>4. send_credits[c] = Capacity <=> held[c] = 0
  BY <1>1
<1>5. occupancy[c] = 0 <=> held[c] = 0
  BY <1>1, <1>r
<1>6. occupancy[c] = Capacity <=> held[c] = Capacity
  BY <1>1, <1>r, <1>3
<1>7. held[c] = Capacity => ~sent
  BY <1>1, <1>2
<1>8. alarm_conditions(request, return)[c] =
        {a \in Alarms : \/ a = "sender overflow" /\ returned /\ ~sent /\ send_credits[c] = Capacity
                        \/ a = "receiver underflow" /\ returned /\ ~sent /\ occupancy[c] = 0
                        \/ a = "receiver overflow" /\ sent /\ ~returned /\ occupancy[c] = Capacity}
  BY DEF alarm_conditions
<1> HIDE DEF sent, returned
<1>9. CASE returned /\ ~sent /\ held[c] = 0
  BY <1>4, <1>5, <1>8, <1>9 DEF Alarms
<1>10. CASE ~(returned /\ ~sent /\ held[c] = 0)
  BY <1>4, <1>5, <1>6, <1>7, <1>8, <1>10 DEF Alarms
<1> QED
  BY <1>9, <1>10

-----------------------------------------------------------------------------
(* The invariant holds at the start, and each step keeps it.               *)
LEMMA LinkInvHolds == LinkSpec => []LinkInv
<1>1. LinkInit => LinkInv
  <2> SUFFICES ASSUME LinkInit PROVE LinkInv
    OBVIOUS
  <2>1. \A c \in Channels : held[c] = 0 /\ send_credits[c] = Capacity /\ occupancy[c] = 0
    BY DEF LinkInit
  <2>2. \A c \in Channels : Counts(c)
    BY <2>1, CreditAssumption DEF Counts, Register
  <2> QED
    BY <2>2, CreditAssumption DEF LinkInit, LinkInv, NoAlarms
<1>2. LinkInv /\ [LinkNext]_linkVars => LinkInv'
  <2> SUFFICES ASSUME LinkInv, [LinkNext]_linkVars PROVE LinkInv'
    OBVIOUS
  <2>1. ASSUME NEW request \in Wires, NEW return \in Wires, LinkEdge(request, return)
        PROVE  LinkInv'
    <3>1. \A c \in Channels : Counts(c)' /\ held'[c] \in Nat /\ send_credits'[c] \in Nat
                                /\ occupancy'[c] \in Nat
      BY <2>1, ChannelStep
    <3>2. /\ held' = [c \in Channels |-> held'[c]]
          /\ send_credits' = [c \in Channels |-> send_credits'[c]]
          /\ occupancy' = [c \in Channels |-> occupancy'[c]]
      BY <2>1 DEF LinkEdge, send_credits_next, occupancy_next
    <3>3. /\ held' \in [Channels -> Nat] /\ send_credits' \in [Channels -> Nat]
          /\ occupancy' \in [Channels -> Nat]
      BY <3>1, <3>2
    <3> QED
      BY <2>1, <3>1, <3>3 DEF LinkEdge, LinkInv
  <2>2. ASSUME NEW request \in Wires, NEW return \in Wires, LinkAlarm(request, return)
        PROVE  LinkInv'
    <3>1. alarms' \in [Channels -> SUBSET Alarms]
      BY <2>2 DEF LinkAlarm, alarm_conditions
    <3>2. \A c \in Channels : Counts(c)'
      BY <2>2 DEF LinkAlarm, LinkInv, Counts, Register
    <3> QED
      BY <2>2, <3>1, <3>2 DEF LinkAlarm, LinkInv
  <2>3. CASE AssertLinkReset
    BY <2>3 DEF AssertLinkReset, LinkInv, Counts, Register
  <2>4. CASE LinkResetEdge
    <3>1. \A c \in Channels : held'[c] = 0 /\ send_credits'[c] = Capacity /\ occupancy'[c] = 0
      BY <2>4 DEF LinkResetEdge
    <3>2. \A c \in Channels : Counts(c)'
      BY <3>1, CreditAssumption DEF Counts, Register
    <3> QED
      BY <2>4, <3>2, CreditAssumption DEF LinkResetEdge, LinkInv, NoAlarms
  <2>5. CASE UNCHANGED linkVars
    BY <2>5 DEF linkVars, LinkInv, Counts, Register
  <2> QED
    BY <2>1, <2>2, <2>3, <2>4, <2>5 DEF LinkNext
<1> QED
  BY <1>1, <1>2, PTL DEF LinkSpec

(* Where the checks are right, they stay right.                            *)
LEMMA ChecksRightHolds == ASSUME Sound PROVE LinkSpec => []ChecksRight
<1>1. LinkInit => ChecksRight
  BY DEF LinkInit, ChecksRight, Justified, NoAlarms
<1>2. LinkInv /\ ChecksRight /\ [LinkNext]_linkVars => ChecksRight'
  <2> SUFFICES ASSUME LinkInv, ChecksRight, [LinkNext]_linkVars PROVE ChecksRight'
    OBVIOUS
  <2>1. ASSUME NEW request \in Wires, NEW return \in Wires, LinkEdge(request, return)
        PROVE  ChecksRight'
    BY <2>1 DEF LinkEdge, ChecksRight, Justified, NoAlarms
  <2>2. ASSUME NEW request \in Wires, NEW return \in Wires, LinkAlarm(request, return)
        PROVE  ChecksRight'
    BY <2>2, AlarmStep DEF LinkAlarm, ChecksRight, Justified
  <2>3. CASE AssertLinkReset
    BY <2>3 DEF AssertLinkReset, ChecksRight, Justified
  <2>4. CASE LinkResetEdge
    BY <2>4 DEF LinkResetEdge, ChecksRight, Justified, NoAlarms
  <2>5. CASE UNCHANGED linkVars
    BY <2>5 DEF linkVars, ChecksRight, Justified
  <2> QED
    BY <2>1, <2>2, <2>3, <2>4, <2>5 DEF LinkNext
<1> QED
  BY <1>1, <1>2, LinkInvHolds, PTL DEF LinkSpec

(* For every capacity, a power of two or not, neither end's counter leaves *)
(* its width: no send is made without a credit and no credit is counted    *)
(* beyond the capacity, and the register of a scalar receiver, which       *)
(* counts the wrong way, wraps within its width too.                       *)
THEOREM LinkTypeCorrect == LinkSpec => []LinkTypeOK
<1>1. LinkInv => LinkTypeOK
  <2> SUFFICES ASSUME LinkInv PROVE LinkTypeOK
    OBVIOUS
  <2>1. ASSUME NEW c \in Channels
        PROVE  /\ send_credits[c] \in 0..(Modulus - 1)
               /\ occupancy[c] \in 0..(Modulus - 1)
               /\ held[c] \in 0..Capacity
    <3>1. Counts(c) /\ Capacity \in Nat /\ Modulus \in Nat /\ Capacity < Modulus
      BY CreditAssumption, ModulusFacts DEF LinkInv
    <3> QED
      BY <3>1 DEF Counts, Register
  <2> QED
    BY <2>1 DEF LinkInv, LinkTypeOK
<1> QED
  BY <1>1, LinkInvHolds, PTL

(* For every capacity and every set of channels no credit is lost or made  *)
(* up, and the runtime checks of both ends fail together, and only for a   *)
(* credit returned that is not owed: with virtual channels always, and on  *)
(* a scalar link if its capacity is a power of two.                        *)
THEOREM CreditsExactHolds == ASSUME Sound PROVE LinkSpec => []CreditsExact
<1>1. LinkInv /\ ChecksRight => CreditsExact
  <2> SUFFICES ASSUME LinkInv, ChecksRight, NEW c \in Channels
               PROVE  /\ send_credits[c] + held[c] = Capacity
                      /\ family = "vc_credit" => occupancy[c] = held[c]
                      /\ Justified(c)
    BY DEF CreditsExact, Justified
  <2>1. Counts(c) /\ Justified(c)
    BY DEF LinkInv, ChecksRight
  <2> QED
    BY <2>1, CreditAssumption DEF Counts, Register
<1> QED
  BY <1>1, LinkInvHolds, ChecksRightHolds, PTL

-----------------------------------------------------------------------------
(* The control and status registers.                                       *)

(* The wires of an access that reads, that writes, and that does neither.  *)
LEMMA AccessWires ==
    /\ ~Idle.write /\ Idle.address = "elsewhere" /\ Idle.data = {}
    /\ \A a : ~Read(a).write /\ Read(a).address = a /\ Read(a).data = {}
    /\ \A a, bits : Write(a, bits).write /\ Write(a, bits).address = a
                       /\ Write(a, bits).data = bits
  BY DEF Idle, Read, Write

(* Only a write carries data, and they are bits of a field.                *)
LEMMA AccessFacts ==
    ASSUME NEW access \in Accesses, CsrTypeOK
    PROVE  /\ access.data \subseteq FieldBits
           /\ access.write \/ access.data = {}
<1>1. access.data \subseteq FieldBits
  BY AccessWires DEF Accesses, CsrTypeOK
<1>2. access.write \/ access.data = {}
  BY AccessWires DEF Accesses
<1> QED
  BY <1>1, <1>2

(* An edge leaves sets of bits in every register and book.                 *)
LEMMA EdgeTypes ==
    ASSUME CsrTypeOK, NEW access \in Accesses, NEW raised \in SUBSET FieldBits,
           CsrEdge(access, raised)
    PROVE  CsrTypeOK'
<1>1. access.data \subseteq FieldBits
  BY AccessFacts
<1>2. Incoming(access, "STATUS") \subseteq FieldBits
      /\ Incoming(access, "COMMAND") \subseteq FieldBits
      /\ Incoming(access, "CONTROL") \subseteq FieldBits
  BY <1>1 DEF Incoming
<1>3. status' \subseteq FieldBits
  BY <1>2 DEF CsrEdge, CsrTypeOK, status_next
<1>4. command' \subseteq FieldBits /\ control' \subseteq FieldBits /\ notified' \subseteq FieldBits
  BY <1>1, <1>2 DEF CsrEdge, CsrTypeOK, command_next, control_next, notified_next
<1>5. raised_open' \subseteq FieldBits /\ asked' \subseteq FieldBits
  BY <1>1 DEF CsrEdge, CsrTypeOK
<1>6. seen' \subseteq FieldBits /\ phase' \in {"idle", "seen", "cleared"}
  BY DEF CsrEdge, DriverStep, csr_read_data, CsrTypeOK
<1> QED
  BY <1>3, <1>4, <1>5, <1>6 DEF CsrTypeOK, CsrEdge

(* No edge loses an event: a bit that leaves STATUS is one that the driver *)
(* has seen and now holds, and a bit that leaves its hands goes to the     *)
(* command wires.                                                          *)
LEMMA EdgeForgetsNothing ==
    ASSUME CsrTypeOK, NoEventForgotten,
           NEW access \in Accesses, NEW raised \in SUBSET FieldBits,
           CsrEdge(access, raised)
    PROVE  NoEventForgotten'
<1> DEFINE hands == IF phase = "cleared" THEN seen ELSE {}
<1>1. command' = asked'
  <2>1. asked' = IF access.address = "COMMAND" THEN access.data ELSE {}
    BY DEF CsrEdge, NoEventForgotten
  <2>2. command' = Incoming(access, "COMMAND")
    BY DEF CsrEdge, command_next
  <2>3. access.address # "COMMAND" => Incoming(access, "COMMAND") = {}
    BY DEF Incoming, write_hit
  <2> QED
    BY <2>1, <2>2, <2>3, AccessFacts DEF Incoming, write_hit
<1>2. notified' # {} => notified' = control'
  BY DEF CsrEdge, notified_next, control_next, Incoming
<1>3. raised_open' \subseteq status' \cup command' \cup hands'
  <2>1. ASSUME NEW bit \in raised_open'
        PROVE  bit \in status' \cup command' \cup hands'
    <3>1. bit \in raised \/ bit \in status \cup hands
      BY DEF CsrEdge, NoEventForgotten
    <3>2. CASE bit \in hands
      <4>1. phase = "cleared" /\ bit \in seen
        BY <3>2
      <4>2. CASE access = Write("COMMAND", seen)
        BY <4>1, <4>2, AccessWires DEF CsrEdge, command_next, Incoming, write_hit
      <4>3. CASE access # Write("COMMAND", seen)
        BY <4>1, <4>3 DEF CsrEdge, DriverStep
      <4> QED
        BY <4>2, <4>3
    <3>3. CASE bit \in raised \/ bit \in status
      <4>1. CASE bit \in Incoming(access, "STATUS")
        <5>1. access.write /\ access.address = "STATUS" /\ bit \in access.data
          BY <4>1 DEF Incoming, write_hit
        <5>2. phase = "seen" /\ access = Write("STATUS", seen) /\ phase' = "cleared" /\ seen' = seen
          BY <5>1, AccessWires DEF CsrEdge, DriverStep
        <5>3. bit \in seen'
          BY <5>1, <5>2, AccessWires
        <5> QED
          BY <5>2, <5>3
      <4>2. CASE bit \notin Incoming(access, "STATUS")
        BY <3>3, <4>2 DEF CsrEdge, status_next
      <4> QED
        BY <4>1, <4>2
    <3> QED
      BY <3>1, <3>2, <3>3
  <2> QED
    BY <2>1
<1> QED
  BY <1>1, <1>2, <1>3 DEF NoEventForgotten

-----------------------------------------------------------------------------
(* The registers hold bits of their fields, for fields of any width.       *)
THEOREM CsrTypeCorrect == CsrSpec => []CsrTypeOK
<1>1. CsrInit => CsrTypeOK
  BY DEF CsrInit, CsrTypeOK
<1>2. CsrTypeOK /\ [CsrNext]_csrVars => CsrTypeOK'
  <2> SUFFICES ASSUME CsrTypeOK, [CsrNext]_csrVars PROVE CsrTypeOK'
    OBVIOUS
  <2>1. ASSUME NEW access \in Accesses, NEW raised \in SUBSET FieldBits,
               CsrEdge(access, raised)
        PROVE  CsrTypeOK'
    BY <2>1, EdgeTypes
  <2>2. CASE AssertCsrReset
    BY <2>2 DEF AssertCsrReset, CsrTypeOK
  <2>3. CASE CsrResetEdge
    BY <2>3 DEF CsrResetEdge, CsrTypeOK
  <2>4. CASE UNCHANGED csrVars
    BY <2>4 DEF csrVars, CsrTypeOK
  <2> QED
    BY <2>1, <2>2, <2>3, <2>4 DEF CsrNext
<1> QED
  BY <1>1, <1>2, PTL DEF CsrSpec

(* No event that hardware raises is forgotten between a sticky field, the  *)
(* driver that reads and clears it, and the command wires, and every       *)
(* command that is written is taken once: for fields of any width, with    *)
(* either priority.                                                        *)
THEOREM NoEventForgottenHolds == CsrSpec => []NoEventForgotten
<1>1. CsrInit => NoEventForgotten
  BY DEF CsrInit, NoEventForgotten
<1>2. CsrTypeOK /\ NoEventForgotten /\ [CsrNext]_csrVars => NoEventForgotten'
  <2> SUFFICES ASSUME CsrTypeOK, NoEventForgotten, [CsrNext]_csrVars
               PROVE  NoEventForgotten'
    OBVIOUS
  <2>1. ASSUME NEW access \in Accesses, NEW raised \in SUBSET FieldBits,
               CsrEdge(access, raised)
        PROVE  NoEventForgotten'
    BY <2>1, EdgeForgetsNothing
  <2>2. CASE AssertCsrReset
    BY <2>2 DEF AssertCsrReset, NoEventForgotten
  <2>3. CASE CsrResetEdge
    BY <2>3 DEF CsrResetEdge, NoEventForgotten
  <2>4. CASE UNCHANGED csrVars
    BY <2>4 DEF csrVars, NoEventForgotten
  <2> QED
    BY <2>1, <2>2, <2>3, <2>4 DEF CsrNext
<1> QED
  BY <1>1, <1>2, CsrTypeCorrect, PTL DEF CsrSpec

-----------------------------------------------------------------------------
(* The request/response connection.  In order it is one queue made of      *)
(* three: the request FIFO, the requests in the responder, and the         *)
(* response FIFO.  Out of order the invariant adds that no identifier is   *)
(* in two slots and none is waited for twice, without which an answer      *)
(* would not free exactly one slot.                                        *)

(* Sequences of identifiers, and how they are put together.                *)
IdWords == Seq(Ids)
Join(s, t) == s \o t

(* The laws of concatenation that the proof uses.                          *)
LEMMA CatClosed == \A s, t \in IdWords : Join(s, t) \in IdWords /\ Len(Join(s, t)) = Len(s) + Len(t)
BY ConcatProperties DEF IdWords, Join

LEMMA CatAssoc == \A s, t, u \in IdWords : Join(Join(s, t), u) = Join(s, Join(t, u))
BY DEF IdWords, Join

LEMMA CatEmpty == <<>> \in IdWords /\ \A s \in IdWords : Join(s, <<>>) = s /\ Join(<<>>, s) = s
BY DEF IdWords, Join

LEMMA WordFacts ==
    /\ \A e \in Ids : <<e>> \in IdWords /\ <<e>> # <<>> /\ Len(<<e>>) = 1 /\ Head(<<e>>) = e
    /\ <<>> \in IdWords /\ Len(<<>>) = 0
    /\ \A s \in IdWords : Len(s) \in Nat /\ (Len(s) = 0 <=> s = <<>>)
    /\ \A s \in IdWords, e \in Ids : Append(s, e) = Join(s, <<e>>)
BY DEF IdWords, Join

LEMMA WordSplit ==
    \A s \in IdWords : s # <<>> =>
        /\ Head(s) \in Ids /\ Tail(s) \in IdWords /\ Len(Tail(s)) = Len(s) - 1
        /\ s = Join(<<Head(s)>>, Tail(s))
BY DEF IdWords, Join

LEMMA HeadOfCat == \A s, t \in IdWords : s # <<>> => Join(s, t) # <<>> /\ Head(Join(s, t)) = Head(s)
BY DEF IdWords, Join

(* x goes into q at the end, y leaves it at the front, and q2 is left.     *)
WordsMove(q, x, y, q2) == q2 \in IdWords /\ Join(q, x) = Join(y, q2)

(* Two queues in a row are one queue: what x puts in at one end moves y    *)
(* from the second into the first, and z out of that.                      *)
LEMMA TwoQueues ==
    ASSUME NEW p \in IdWords, NEW q \in IdWords, NEW x \in IdWords, NEW y \in IdWords,
           NEW z \in IdWords, NEW p2, NEW q2,
           WordsMove(q, x, y, q2), WordsMove(p, y, z, p2)
    PROVE  WordsMove(Join(p, q), x, z, Join(p2, q2))
<1>1. /\ p2 \in IdWords /\ q2 \in IdWords
      /\ Join(q, x) = Join(y, q2) /\ Join(p, y) = Join(z, p2)
    BY DEF WordsMove
<1>2. Join(Join(p, q), x) = Join(Join(p, y), q2)
    BY <1>1, CatAssoc
<1>3. Join(Join(z, p2), q2) = Join(z, Join(p2, q2))
    BY <1>1, CatAssoc
<1>4. Join(p2, q2) \in IdWords
    BY <1>1, CatClosed
<1> QED
    BY <1>1, <1>2, <1>3, <1>4 DEF WordsMove

(* A channel, of wires or with a FIFO, into which x goes and out of which  *)
(* y comes.                                                                *)
PassesThrough(q, x, y, q2, depth) ==
    /\ Len(q) <= depth /\ Len(x) <= 1
    /\ depth = 0 => x = y /\ q2 = q
    /\ depth # 0 => /\ \/ y = <<>> /\ q2 = Join(q, x)
                       \/ q # <<>> /\ y = <<Head(q)>> /\ q2 = Join(Tail(q), x)
                    /\ x = <<>> \/ Len(q) < depth \/ y # <<>>

LEMMA Channel ==
    ASSUME NEW q \in IdWords, NEW x \in IdWords, NEW y \in IdWords, NEW q2, NEW depth \in Nat,
           PassesThrough(q, x, y, q2, depth)
    PROVE  WordsMove(q, x, y, q2) /\ Len(q2) <= depth
<1>0. /\ Len(q) <= depth /\ Len(x) <= 1
      /\ depth = 0 => x = y /\ q2 = q
      /\ depth # 0 => /\ \/ y = <<>> /\ q2 = Join(q, x)
                         \/ q # <<>> /\ y = <<Head(q)>> /\ q2 = Join(Tail(q), x)
                      /\ x = <<>> \/ Len(q) < depth \/ y # <<>>
    BY DEF PassesThrough
<1> SUFFICES q2 \in IdWords /\ Len(q2) <= depth /\ Join(q, x) = Join(y, q2)
    BY DEF WordsMove
<1>1. CASE depth = 0
  <2>1. q = <<>>
    BY <1>0, <1>1, WordFacts
  <2>2. Join(q, x) = x /\ Join(y, q2) = y
    BY <1>0, <1>1, <2>1, CatEmpty
  <2> QED
    BY <1>0, <1>1, <2>2
<1>2. CASE depth # 0 /\ y = <<>> /\ q2 = Join(q, x)
  <2>1. q2 \in IdWords /\ Len(q2) = Len(q) + Len(x) /\ Len(q) \in Nat /\ Len(x) \in Nat
        /\ (x = <<>> => Len(x) = 0)
    BY <1>2, CatClosed, WordFacts
  <2>2. Join(y, q2) = q2
    BY <1>2, <2>1, CatEmpty
  <2> QED
    BY <1>0, <1>2, <2>1, <2>2
<1>3. CASE depth # 0 /\ q # <<>> /\ y = <<Head(q)>> /\ q2 = Join(Tail(q), x)
  <2>1. Tail(q) \in IdWords /\ Len(Tail(q)) = Len(q) - 1 /\ q = Join(y, Tail(q))
    BY <1>3, WordSplit
  <2>2. q2 \in IdWords /\ Len(q2) = Len(Tail(q)) + Len(x) /\ Len(q) \in Nat /\ Len(x) \in Nat
    BY <1>3, <2>1, CatClosed, WordFacts
  <2>3. Join(Join(y, Tail(q)), x) = Join(y, Join(Tail(q), x))
    BY <2>1, CatAssoc
  <2>4. Len(q2) <= depth
    BY <1>0, <1>3, <2>1, <2>2, WordFacts
  <2>5. Join(q, x) = Join(y, q2)
    BY <1>3, <2>1, <2>3
  <2> QED
    BY <2>2, <2>4, <2>5
<1> QED
    BY <1>0, <1>1, <1>2, <1>3

(* The logic behind an end: it may answer in the cycle in which it takes a *)
(* request.                                                                *)
LogicStep(p, x, y, p2, all) ==
    /\ all = Join(p, x)
    /\ \/ y = <<>> /\ p2 = all
       \/ all # <<>> /\ y = <<Head(all)>> /\ p2 = Tail(all)

LEMMA Logic ==
    ASSUME NEW p \in IdWords, NEW x \in IdWords, NEW y \in IdWords, NEW p2, NEW all,
           LogicStep(p, x, y, p2, all)
    PROVE  WordsMove(p, x, y, p2) /\ Len(p2) = Len(p) + Len(x) - Len(y)
<1> USE DEF LogicStep, WordsMove
<1>0. all \in IdWords /\ Len(all) = Len(p) + Len(x) /\ Len(p) \in Nat /\ Len(x) \in Nat
    BY CatClosed, WordFacts
<1>1. CASE y = <<>> /\ p2 = all
    BY <1>0, <1>1, CatEmpty, WordFacts
<1>2. CASE all # <<>> /\ y = <<Head(all)>> /\ p2 = Tail(all)
    BY <1>0, <1>2, WordSplit, WordFacts
<1> QED
    BY <1>1, <1>2

(* An element of the second part.                                          *)
LEMMA CatElements ==
    ASSUME NEW y \in IdWords, NEW u \in IdWords, NEW i \in 1..Len(u)
    PROVE  Join(y, u)[Len(y) + i] = u[i]
BY DEF IdWords, Join

(* What follows beginnings of one length is the same.                      *)
LEMMA SameRest ==
    ASSUME NEW y \in IdWords, NEW d \in IdWords, Len(y) = Len(d),
           NEW u \in IdWords, NEW v \in IdWords, Join(y, u) = Join(d, v)
    PROVE  u = v
<1>1. Len(u) = Len(v)
  <2>1. Len(Join(y, u)) = Len(y) + Len(u) /\ Len(Join(d, v)) = Len(d) + Len(v)
    BY CatClosed
  <2>2. Len(y) \in Nat /\ Len(u) \in Nat /\ Len(d) \in Nat /\ Len(v) \in Nat
    BY WordFacts
  <2> QED
    BY <2>1, <2>2
<1>2. ASSUME NEW i \in 1..Len(u) PROVE u[i] = v[i]
  <2>1. Join(y, u)[Len(y) + i] = u[i]
    BY CatElements
  <2>2. i \in 1..Len(v)
    BY <1>1
  <2>3. Join(d, v)[Len(d) + i] = v[i]
    BY <2>2, CatElements
  <2> QED
    BY <2>1, <2>3
<1> QED
    BY <1>1, <1>2, SeqEqual DEF IdWords

(* A count goes up only below its bound, and down only from above zero.    *)
LEMMA StepStays ==
    ASSUME NEW n \in 0..MaxOutstanding, NEW up \in BOOLEAN, NEW down \in BOOLEAN,
           up => n < MaxOutstanding, down => n # 0 \/ up
    PROVE  Step(n, up, down) \in 0..MaxOutstanding
BY RequestAssumption DEF Step

(* The pipe from requester to responder and back, oldest request first.    *)
InOrderExact ==
    /\ waiting = (response_buffer \o pending) \o request_buffer
    /\ served = Len(pending) /\ outstanding = Len(waiting)

RequestTypes ==
    /\ ordering \in Orderings /\ request_depth \in Depths /\ response_depth \in Depths
    /\ outstanding \in 0..MaxOutstanding /\ served \in 0..MaxOutstanding
    /\ request_buffer \in Seq(Ids) /\ response_buffer \in Seq(Ids)
    /\ pending \in Seq(Ids) /\ waiting \in Seq(Ids)
    /\ Len(request_buffer) <= request_depth /\ Len(response_buffer) <= response_depth
    /\ slot_id \in [Slots -> Ids] /\ slot_valid \in [Slots -> BOOLEAN]
    /\ ledger_alarms \subseteq {"duplicate", "missing"}
    /\ rr_reset \in BOOLEAN

(* What moves at an in-order edge, by the equations of the two ends.       *)
LEMMA InOrderMoves ==
    ASSUME RequestTypes, InOrderExact, NEW w \in Will
    PROVE  /\ request_transfer(w) \in BOOLEAN /\ responder_takes(w) \in BOOLEAN
           /\ responder_answers(w) \in BOOLEAN /\ response_transfer(w) \in BOOLEAN
           /\ request_transfer(w) => outstanding < MaxOutstanding
           /\ responder_takes(w) => served < MaxOutstanding
           /\ responder_answers(w) => served # 0 \/ responder_takes(w)
           /\ response_transfer(w) => outstanding # 0 \/ request_transfer(w)
           /\ request_depth = 0 => (request_transfer(w) <=> responder_takes(w))
           /\ request_depth # 0 =>
                 /\ responder_takes(w) => request_buffer # <<>>
                 /\ request_transfer(w) => Len(request_buffer) < request_depth \/ responder_takes(w)
           /\ response_depth = 0 => (responder_answers(w) <=> response_transfer(w))
           /\ response_depth # 0 =>
                 /\ response_transfer(w) => response_buffer # <<>>
                 /\ responder_answers(w) => Len(response_buffer) < response_depth
                                               \/ response_transfer(w)
<1>1. /\ request_transfer(w) \in BOOLEAN /\ responder_takes(w) \in BOOLEAN
      /\ responder_answers(w) \in BOOLEAN /\ response_transfer(w) \in BOOLEAN
    BY DEF request_transfer, responder_takes, responder_answers, response_transfer
<1>2. /\ request_transfer(w) => outstanding < MaxOutstanding
      /\ responder_takes(w) => served < MaxOutstanding
      /\ responder_answers(w) => served # 0 \/ responder_takes(w)
      /\ response_transfer(w) => outstanding # 0 \/ request_transfer(w)
    BY DEF request_transfer, request_valid, responder_takes, responder_answers, response_valid,
       response_transfer, response_ready
<1>3. request_depth = 0 => (request_transfer(w) <=> responder_takes(w))
    BY DEF request_transfer, request_ready, responder_takes, arriving
<1>4. request_depth # 0 =>
                 /\ responder_takes(w) => request_buffer # <<>>
                 /\ request_transfer(w) => Len(request_buffer) < request_depth \/ responder_takes(w)
    BY DEF request_transfer, request_ready, responder_takes, arriving
<1>5. response_depth = 0 => (responder_answers(w) <=> response_transfer(w))
    BY DEF responder_answers, response_transfer, returning
<1>6. response_depth # 0 =>
                 /\ response_transfer(w) => response_buffer # <<>>
                 /\ responder_answers(w) => Len(response_buffer) < response_depth
                                               \/ response_transfer(w)
    BY DEF responder_answers, response_transfer, returning
<1> QED
    BY <1>1, <1>2, <1>3, <1>4, <1>5, <1>6

(* An edge moves the requests along the row, and the counts with them.     *)
LEMMA InOrderStep ==
    ASSUME RequestTypes, InOrderExact, NEW w \in Will, InOrderEdge(w)
    PROVE  InOrderExact' /\ RequestTypes'
<1> DEFINE rt == request_transfer(w)
           tk == responder_takes(w)
           an == responder_answers(w)
           rs == response_transfer(w)
           qb == request_buffer
           rb == response_buffer
           qb2 == request_buffer'
           rb2 == response_buffer'
           pe2 == pending'
           wa2 == waiting'
<1>a. /\ rt \in BOOLEAN /\ tk \in BOOLEAN /\ an \in BOOLEAN /\ rs \in BOOLEAN
      /\ an => served # 0 \/ tk
      /\ rs => outstanding # 0 \/ rt
    BY InOrderMoves
<1>b. /\ request_depth = 0 => (rt <=> tk)
      /\ request_depth # 0 => (tk => qb # <<>>) /\ (rt => Len(qb) < request_depth \/ tk)
    BY InOrderMoves
<1>c. /\ response_depth = 0 => (an <=> rs)
      /\ response_depth # 0 => (rs => rb # <<>>) /\ (an => Len(rb) < response_depth \/ rs)
    BY InOrderMoves
<1>d. /\ qb \in IdWords /\ rb \in IdWords /\ pending \in IdWords /\ waiting \in IdWords
      /\ request_depth \in Nat /\ response_depth \in Nat
      /\ Len(qb) <= request_depth /\ Len(rb) <= response_depth
    BY RequestAssumption DEF RequestTypes, IdWords
<1>e. /\ outstanding = Len(waiting) /\ served = Len(pending)
      /\ waiting = Join(Join(rb, pending), qb)
    BY DEF InOrderExact, Join
<1> DEFINE e == w.id
           ai == arriving_id(w)
           aw == answer(w)
<1>f. e \in Ids /\ ai = (IF request_depth = 0 THEN e ELSE Head(qb))
      /\ aw = (IF pending = <<>> THEN ai ELSE Head(pending))
    BY DEF Will, arriving_id, answer
<1>g. /\ outstanding' = Step(outstanding, rt, rs) /\ served' = Step(served, tk, an)
      /\ qb2 = Through(qb, request_depth, rt, e, tk)
      /\ rb2 = Through(rb, response_depth, an, aw, rs)
    BY DEF InOrderEdge
<1>h. /\ pe2 = (IF an THEN Tail(IF tk THEN Append(pending, ai) ELSE pending)
                ELSE IF tk THEN Append(pending, ai) ELSE pending)
      /\ wa2 = (IF rs THEN Tail(IF rt THEN Append(waiting, e) ELSE waiting)
                ELSE IF rt THEN Append(waiting, e) ELSE waiting)
    BY DEF InOrderEdge
<1> HIDE DEF rt, tk, an, rs, e, ai, aw, qb2, rb2, pe2, wa2
(* a enters the request channel, b leaves it for the responder, c is the   *)
(* responder's answer, d is what the requester gets.                       *)
<1>1. PICK a \in IdWords : (rt => a = <<e>> /\ Len(a) = 1) /\ (~rt => a = <<>> /\ Len(a) = 0)
    BY <1>a, <1>f, WordFacts
<1>2. tk => ai \in Ids
    BY <1>b, <1>d, <1>f, WordSplit
<1>3. PICK b \in IdWords : (tk => b = <<ai>>) /\ (~tk => b = <<>>)
    BY <1>a, <1>2, WordFacts
<1>4. WordsMove(qb, a, b, qb2) /\ Len(qb2) <= request_depth
  <2>1. request_depth = 0 => a = b /\ qb2 = qb
    BY <1>a, <1>b, <1>f, <1>g, <1>1, <1>3 DEF Through
  <2>2. request_depth # 0 => /\ \/ b = <<>> /\ qb2 = Join(qb, a)
                                \/ qb # <<>> /\ b = <<Head(qb)>> /\ qb2 = Join(Tail(qb), a)
                             /\ a = <<>> \/ Len(qb) < request_depth \/ b # <<>>
    <3> SUFFICES ASSUME request_depth # 0
                 PROVE /\ \/ b = <<>> /\ qb2 = Join(qb, a)
                          \/ qb # <<>> /\ b = <<Head(qb)>> /\ qb2 = Join(Tail(qb), a)
                       /\ a = <<>> \/ Len(qb) < request_depth \/ b # <<>>
        OBVIOUS
    <3>1. qb2 = Join(IF tk THEN Tail(qb) ELSE qb, a)
        BY <1>a, <1>g, <1>1 DEF Through, Join
    <3>2. tk => b # <<>>
        BY <1>2, <1>3, WordFacts
    <3>3. CASE tk
        BY <1>b, <1>f, <1>3, <3>1, <3>2, <3>3
    <3>4. CASE ~tk
        BY <1>a, <1>b, <1>1, <1>3, <3>1, <3>4
    <3> QED
        BY <3>3, <3>4
  <2>3. Len(a) <= 1
    <3>1. Len(a) = (IF rt THEN 1 ELSE 0)
        BY <1>a, <1>f, <1>1, WordFacts
    <3> QED
        BY <3>1
  <2>4. PassesThrough(qb, a, b, qb2, request_depth)
    BY <1>d, <2>1, <2>2, <2>3 DEF PassesThrough
  <2> QED
    BY <1>d, <2>4, Channel
<1>5. PICK all \in IdWords : all = Join(pending, b)
    BY <1>d, CatClosed
<1>6. an => all # <<>> /\ Head(all) = aw
  <2> SUFFICES ASSUME an PROVE all # <<>> /\ Head(all) = aw
    OBVIOUS
  <2>1. CASE pending = <<>>
    <3>1. tk
        BY <1>a, <1>d, <1>e, <2>1, WordFacts
    <3>2. all = b
        BY <1>5, <2>1, CatEmpty
    <3> QED
        BY <1>2, <1>3, <1>f, <2>1, <3>1, <3>2, WordFacts
  <2>2. CASE pending # <<>>
    BY <1>d, <1>f, <1>5, <2>2, HeadOfCat
  <2> QED
    BY <2>1, <2>2
<1>7. PICK c \in IdWords : (an => c = <<aw>>) /\ (~an => c = <<>>)
  <2>1. an => aw \in Ids
    BY <1>5, <1>6, WordSplit
  <2> QED
    BY <1>a, <2>1, WordFacts
<1>8. WordsMove(pending, b, c, pe2) /\ Len(pe2) = Len(pending) + Len(b) - Len(c)
  <2>1. all = (IF tk THEN Append(pending, ai) ELSE pending)
    BY <1>a, <1>d, <1>2, <1>3, <1>5, WordFacts, CatEmpty
  <2>2. pe2 = (IF an THEN Tail(all) ELSE all)
    BY <1>h, <2>1
  <2>3. \/ c = <<>> /\ pe2 = all
        \/ all # <<>> /\ c = <<Head(all)>> /\ pe2 = Tail(all)
    BY <1>a, <1>6, <1>7, <2>2
  <2>4. LogicStep(pending, b, c, pe2, all)
    BY <1>5, <2>3 DEF LogicStep
  <2> QED
    BY <1>d, <2>4, Logic
<1>9. PICK d \in IdWords : /\ Len(d) = (IF rs THEN 1 ELSE 0)
                         /\ WordsMove(rb, c, d, rb2) /\ Len(rb2) <= response_depth
  <2>0. Len(c) = (IF an THEN 1 ELSE 0)
    BY <1>a, <1>5, <1>6, <1>7, WordFacts, WordSplit
  <2>1. CASE response_depth = 0
    <3>1. rb2 = rb
        BY <1>g, <2>1 DEF Through
    <3>2. PassesThrough(rb, c, c, rb2, response_depth)
        BY <1>d, <2>0, <2>1, <3>1 DEF PassesThrough
    <3>3. WordsMove(rb, c, c, rb2) /\ Len(rb2) <= response_depth
        BY <1>d, <3>2, Channel
    <3> QED
        BY <1>a, <1>c, <2>0, <2>1, <3>3
  <2>2. CASE response_depth # 0
    <3>1. rb2 = Join(IF rs THEN Tail(rb) ELSE rb, c)
        BY <1>a, <1>g, <1>7, <2>2 DEF Through, Join
    <3>2. PICK d \in IdWords : (rs => d = <<Head(rb)>>) /\ (~rs => d = <<>>)
        BY <1>a, <1>c, <1>d, <2>2, WordFacts, WordSplit
    <3>3. Len(d) = (IF rs THEN 1 ELSE 0)
        BY <1>a, <1>c, <1>d, <2>2, <3>2, WordFacts, WordSplit
    <3>4. /\ \/ d = <<>> /\ rb2 = Join(rb, c)
             \/ rb # <<>> /\ d = <<Head(rb)>> /\ rb2 = Join(Tail(rb), c)
          /\ c = <<>> \/ Len(rb) < response_depth \/ d # <<>>
        <4>1. CASE rs
            <5>1. rb # <<>> /\ d = <<Head(rb)>> /\ rb2 = Join(Tail(rb), c)
                BY <1>c, <2>2, <3>1, <3>2, <4>1
            <5>2. d # <<>>
                BY <3>3, <4>1, WordFacts
            <5> QED
                BY <5>1, <5>2
        <4>2. CASE ~rs
            BY <1>a, <1>c, <1>7, <2>2, <3>1, <3>2, <4>2
        <4> QED
            BY <4>1, <4>2
    <3>5. PassesThrough(rb, c, d, rb2, response_depth)
        BY <1>d, <2>0, <2>2, <3>4 DEF PassesThrough
    <3>6. WordsMove(rb, c, d, rb2) /\ Len(rb2) <= response_depth
        BY <1>d, <3>5, Channel
    <3> QED
        BY <3>3, <3>6
  <2> QED
    BY <2>1, <2>2
<1>10. Join(waiting, a) = Join(d, Join(Join(rb2, pe2), qb2))
  <2>1. PICK m \in IdWords : m = Join(rb, pending)
    BY <1>d, CatClosed
  <2>2. WordsMove(m, b, d, Join(rb2, pe2))
    BY <1>d, <1>8, <1>9, <2>1, TwoQueues
  <2>3. WordsMove(Join(m, qb), a, d, Join(Join(rb2, pe2), qb2))
    BY <1>d, <1>4, <2>2, TwoQueues
  <2> QED
    BY <1>e, <2>1, <2>3 DEF WordsMove
<1>11. wa2 = Join(Join(rb2, pe2), qb2) /\ wa2 \in IdWords
       /\ Len(wa2) = Len(waiting) + Len(a) - Len(d)
  <2>1. PICK asking \in IdWords : asking = Join(waiting, a)
    BY <1>d, CatClosed
  <2>2. asking = (IF rt THEN Append(waiting, e) ELSE waiting)
    BY <1>a, <1>d, <1>f, <1>1, <2>1, WordFacts, CatEmpty
  <2>3. wa2 = (IF rs THEN Tail(asking) ELSE asking)
    BY <1>h, <2>2
  <2>4. rs => asking # <<>>
    <3>1. rs => Len(waiting) # 0 \/ Len(a) # 0
        BY <1>a, <1>e, <1>f, <1>1, WordFacts
    <3>2. Len(asking) = Len(waiting) + Len(a) /\ Len(waiting) \in Nat /\ Len(a) \in Nat
        BY <1>d, <2>1, CatClosed, WordFacts
    <3> QED
        BY <3>1, <3>2, WordFacts
  <2>5. PICK y \in IdWords : (rs => y = <<Head(asking)>>) /\ (~rs => y = <<>>)
    BY <1>a, <2>1, <2>4, WordFacts, WordSplit
  <2>6. Len(y) = Len(d)
    BY <1>a, <1>9, <2>1, <2>4, <2>5, WordFacts, WordSplit
  <2>7. \/ y = <<>> /\ wa2 = asking
        \/ asking # <<>> /\ y = <<Head(asking)>> /\ wa2 = Tail(asking)
    BY <1>a, <2>3, <2>4, <2>5
  <2>8. WordsMove(waiting, a, y, wa2) /\ Len(wa2) = Len(waiting) + Len(a) - Len(y)
    <3>1. LogicStep(waiting, a, y, wa2, asking)
        BY <2>1, <2>7 DEF LogicStep
    <3> QED
        BY <1>d, <3>1, Logic
  <2>9. PICK rest \in IdWords : rest = Join(Join(rb2, pe2), qb2)
    BY <1>4, <1>8, <1>9, CatClosed DEF WordsMove
  <2>10. wa2 = rest
    BY <1>10, <2>6, <2>8, <2>9, SameRest DEF WordsMove
  <2> QED
    BY <2>6, <2>8, <2>9, <2>10 DEF WordsMove
<1>12. /\ Len(a) = (IF rt THEN 1 ELSE 0) /\ Len(b) = (IF tk THEN 1 ELSE 0)
       /\ Len(c) = (IF an THEN 1 ELSE 0)
    BY <1>a, <1>f, <1>1, <1>2, <1>3, <1>5, <1>6, <1>7, WordFacts, WordSplit
<1>13. outstanding' = Len(wa2) /\ served' = Len(pe2)
  <2>1. outstanding' = Len(waiting) + (IF rt THEN 1 ELSE 0) - (IF rs THEN 1 ELSE 0)
        /\ served' = Len(pending) + (IF tk THEN 1 ELSE 0) - (IF an THEN 1 ELSE 0)
    BY <1>e, <1>g DEF Step
  <2> QED
    BY <1>8, <1>9, <1>11, <1>12, <2>1
<1>14. outstanding' \in 0..MaxOutstanding /\ served' \in 0..MaxOutstanding
  <2>1. outstanding \in 0..MaxOutstanding /\ served \in 0..MaxOutstanding
    BY DEF RequestTypes
  <2>2. (rt => outstanding < MaxOutstanding) /\ (tk => served < MaxOutstanding)
    BY InOrderMoves DEF rt, tk
  <2> QED
    BY <1>a, <1>g, <2>1, <2>2, StepStays
<1>15. /\ ordering' = ordering /\ request_depth' = request_depth /\ response_depth' = response_depth
       /\ slot_id' = slot_id /\ slot_valid' = slot_valid /\ ledger_alarms' = ledger_alarms
       /\ rr_reset' = rr_reset
    BY DEF InOrderEdge, connection, ledgerVars
<1>16. InOrderExact'
    BY <1>11, <1>13 DEF InOrderExact, wa2, rb2, qb2, pe2, Join
<1>17. RequestTypes'
    BY <1>4, <1>8, <1>9, <1>11, <1>14, <1>15 DEF RequestTypes, WordsMove, wa2, rb2, qb2, pe2, IdWords
<1> QED
    BY <1>16, <1>17

-----------------------------------------------------------------------------
(* The books of an out-of-order requester: the valid slots, the identifier *)
(* in each slot, the requests its logic waits for, and how many they are.  *)
Occupied == {t \in Slots : slot_valid[t]}

Books(valid, ids, requests, n) ==
    /\ valid \subseteq Slots /\ ids \in [Slots -> Ids] /\ requests \in IdWords /\ n \in Nat
    /\ \A s, t \in valid : ids[s] = ids[t] => s = t
    /\ \A i, j \in 1..Len(requests) : requests[i] = requests[j] => i = j
    /\ \A s \in valid : \E i \in 1..Len(requests) : requests[i] = ids[s]
    /\ \A i \in 1..Len(requests) : \E s \in valid : ids[s] = requests[i]
    /\ Cardinality(valid) = n /\ Len(requests) = n

(* The slots are finitely many.                                            *)
LEMMA SlotsFinite ==
    /\ IsFiniteSet(Slots) /\ Cardinality(Slots) = MaxOutstanding
    /\ \A V \in SUBSET Slots : IsFiniteSet(V) /\ Cardinality(V) \in Nat
<1>1. IsFiniteSet(Slots) /\ Cardinality(Slots) = MaxOutstanding
    BY RequestAssumption, FS_Interval DEF Slots
<1>2. ASSUME NEW V \in SUBSET Slots PROVE IsFiniteSet(V) /\ Cardinality(V) \in Nat
    BY <1>1, FS_Subset, FS_CardinalityType
<1> QED
    BY <1>1, <1>2

(* What is left of the requests when one is struck out.                    *)
LEMMA StruckFacts ==
    ASSUME NEW q \in IdWords, NEW r, NEW k \in 1..Len(q), q[k] = r,
           \A i, j \in 1..Len(q) : q[i] = q[j] => i = j
    PROVE  /\ Struck(q, r) \in IdWords /\ Len(Struck(q, r)) = Len(q) - 1
           /\ \A i \in 1..(Len(q) - 1) :
                 Struck(q, r)[i] = IF i < k THEN q[i] ELSE q[i + 1]
<1> DEFINE at == CHOOSE n \in 1..Len(q) : q[n] = r
<1>0. Len(q) \in Nat /\ \A i \in 1..Len(q) : q[i] \in Ids
    BY DEF IdWords
<1>1. at \in 1..Len(q) /\ q[at] = r
    BY <1>0
<1>2. at = k
    BY <1>1
<1> HIDE DEF at
<1>3. Struck(q, r) = [n \in 1..(Len(q) - 1) |-> IF n < at THEN q[n] ELSE q[n + 1]]
    BY DEF Struck, at
<1>4. \A n \in 1..(Len(q) - 1) : (IF n < at THEN q[n] ELSE q[n + 1]) \in Ids
    BY <1>0, <1>2
<1>5. Len(q) - 1 \in Nat
    BY <1>0
<1>6. Struck(q, r) \in [1..(Len(q) - 1) -> Ids]
    BY <1>3, <1>4
<1>7. Struck(q, r) \in Seq(Ids) /\ Len(Struck(q, r)) = Len(q) - 1
    BY <1>5, <1>6, SeqDef, LenProperties
<1> QED
    BY <1>2, <1>3, <1>7 DEF IdWords

(* A response takes its request out of the slots and out of the list.      *)
LEMMA Strike ==
    ASSUME NEW V, NEW ids, NEW q, NEW n, Books(V, ids, q, n),
           NEW s0 \in V
    PROVE  Books(V \ {s0}, ids, Struck(q, ids[s0]), n - 1)
<1>1. PICK k \in 1..Len(q) : q[k] = ids[s0]
    BY DEF Books
<1> DEFINE r == ids[s0]
           q2 == Struck(q, r)
<1>2. /\ q2 \in IdWords /\ Len(q2) = Len(q) - 1
      /\ \A i \in 1..(Len(q) - 1) : q2[i] = IF i < k THEN q[i] ELSE q[i + 1]
  <2>1. q \in IdWords /\ \A i, j \in 1..Len(q) : q[i] = q[j] => i = j
    BY DEF Books
  <2> QED
    BY <1>1, <2>1, StruckFacts
<1> HIDE DEF q2
<1>3. /\ V \subseteq Slots /\ ids \in [Slots -> Ids] /\ n \in Nat /\ Len(q) = n /\ n # 0
      /\ Cardinality(V) = n
    BY <1>1 DEF Books
<1>4. Cardinality(V \ {s0}) = n - 1
  <2>1. IsFiniteSet(V)
    BY <1>3, SlotsFinite
  <2> QED
    BY <1>3, <2>1, FS_RemoveElement
<1>5. \A i, j \in 1..Len(q2) : q2[i] = q2[j] => i = j
    BY <1>2, <1>3 DEF Books
<1>6. ASSUME NEW s \in V \ {s0} PROVE \E i \in 1..Len(q2) : q2[i] = ids[s]
  <2>1. PICK i \in 1..Len(q) : q[i] = ids[s]
    BY DEF Books
  <2>2. i # k
    BY <1>1, <2>1 DEF Books
  <2>3. CASE i < k
    <3>1. i \in 1..Len(q2) /\ q2[i] = ids[s]
        BY <1>2, <1>3, <2>1, <2>3
    <3> QED
        BY <3>1
  <2>4. CASE i > k
    <3>1. i - 1 \in 1..Len(q2) /\ ~(i - 1 < k) /\ (i - 1) + 1 = i
        BY <1>2, <1>3, <2>4
    <3>2. q2[i - 1] = ids[s]
        BY <1>2, <2>1, <3>1
    <3> QED
        BY <3>1, <3>2
  <2> QED
    BY <2>2, <2>3, <2>4
<1>7. ASSUME NEW i \in 1..Len(q2) PROVE \E s \in V \ {s0} : ids[s] = q2[i]
  <2>1. PICK j \in 1..Len(q) : j # k /\ q[j] = q2[i]
    <3>1. CASE i < k
        BY <1>2, <1>3, <3>1
    <3>2. CASE ~(i < k)
        <4>1. i + 1 \in 1..Len(q) /\ i + 1 # k /\ q[i + 1] = q2[i]
            BY <1>2, <1>3, <3>2
        <4> QED
            BY <4>1
    <3> QED
        BY <3>1, <3>2
  <2>2. PICK s \in V : ids[s] = q[j]
    BY DEF Books
  <2>3. s # s0
    BY <1>1, <2>1, <2>2 DEF Books
  <2> QED
    BY <2>1, <2>2, <2>3
<1>8. \A s, t \in V \ {s0} : ids[s] = ids[t] => s = t
    BY DEF Books
<1> QED
    BY <1>2, <1>3, <1>4, <1>5, <1>6, <1>7, <1>8 DEF Books, q2

(* A request is put into a free slot and at the end of the list.           *)
LEMMA Enter ==
    ASSUME NEW V, NEW ids, NEW q, NEW n, Books(V, ids, q, n),
           NEW id \in Ids, \A s \in V : ids[s] # id, NEW s1 \in Slots, s1 \notin V,
           NEW ids2, ids2 = [s \in Slots |-> IF s = s1 THEN id ELSE ids[s]]
    PROVE  Books(V \cup {s1}, ids2, q \o <<id>>, n + 1)
<1> DEFINE q2 == q \o <<id>>
<1>1. /\ V \subseteq Slots /\ ids \in [Slots -> Ids] /\ n \in Nat /\ Len(q) = n /\ q \in IdWords
      /\ Cardinality(V) = n
    BY DEF Books
<1>2. /\ q2 \in IdWords /\ Len(q2) = n + 1 /\ q2[n + 1] = id
      /\ \A i \in 1..n : q2[i] = q[i]
    BY <1>1 DEF IdWords
<1> HIDE DEF q2
<1>3. ids2 \in [Slots -> Ids] /\ ids2[s1] = id /\ \A s \in V : ids2[s] = ids[s]
    BY <1>1
<1>4. Cardinality(V \cup {s1}) = n + 1
  <2>1. IsFiniteSet(V)
    BY <1>1, SlotsFinite
  <2> QED
    BY <1>1, <2>1, FS_AddElement
<1>5. \A s, t \in V \cup {s1} : ids2[s] = ids2[t] => s = t
    BY <1>3 DEF Books
<1>6. \A i \in 1..n : q[i] # id
    BY <1>1 DEF Books
<1>7. \A i, j \in 1..(n + 1) : q2[i] = q2[j] => i = j
  <2>1. \A i \in 1..(n + 1) : i \in 1..n \/ i = n + 1
    BY <1>1
  <2>2. \A i, j \in 1..n : q[i] = q[j] => i = j
    BY <1>1 DEF Books
  <2> QED
    BY <1>2, <1>6, <2>1, <2>2
<1>8. ASSUME NEW s \in V \cup {s1} PROVE \E i \in 1..(n + 1) : q2[i] = ids2[s]
  <2>1. CASE s = s1
    <3>1. n + 1 \in 1..(n + 1)
        BY <1>1
    <3> QED
        BY <1>2, <1>3, <2>1, <3>1
  <2>2. CASE s \in V
    <3>1. PICK i \in 1..n : q[i] = ids[s]
        BY <1>1, <2>2 DEF Books
    <3>2. i \in 1..(n + 1)
        BY <1>1
    <3> QED
        BY <1>2, <1>3, <2>2, <3>1, <3>2
  <2> QED
    BY <2>1, <2>2
<1>9. ASSUME NEW i \in 1..(n + 1) PROVE \E s \in V \cup {s1} : ids2[s] = q2[i]
  <2>1. CASE i \in 1..n
    <3>1. PICK s \in V : ids[s] = q[i]
        BY <1>1, <2>1 DEF Books
    <3> QED
        BY <1>2, <1>3, <2>1, <3>1
  <2>2. CASE i = n + 1
    BY <1>2, <1>3, <2>2
  <2> QED
    BY <1>1, <2>1, <2>2
<1>10. V \cup {s1} \subseteq Slots /\ n + 1 \in Nat
    BY <1>1
<1> QED
    BY <1>2, <1>3, <1>4, <1>5, <1>7, <1>8, <1>9, <1>10 DEF Books, q2

(* The slot that takes a request: the first one that is free.              *)
LEMMA FreeSlot ==
    ASSUME NEW K, K \subseteq Slots, NEW free, free = [s \in Slots |-> s \notin K],
           Cardinality(K) < MaxOutstanding
    PROVE  \E s1 \in Slots : /\ s1 \notin K
                             /\ \A s \in Slots : insert_here(TRUE, free)[s] <=> s = s1
<1>1. Slots \ K # {} /\ Slots \subseteq Nat
  <2>1. K # Slots
    BY SlotsFinite, RequestAssumption
  <2>2. Slots \subseteq Nat
    BY RequestAssumption DEF Slots
  <2> QED
    BY <2>1, <2>2
<1>2. PICK s1 \in Slots \ K : \A t \in Slots \ K : s1 <= t
    BY <1>1, Least
<1>3. ASSUME NEW s \in Slots PROVE insert_here(TRUE, free)[s] <=> s = s1
  <2>1. insert_here(TRUE, free)[s] <=> s \notin K /\ \A t \in Slots : t < s => t \in K
    BY DEF insert_here
  <2>2. s \in Nat /\ s1 \in Nat
    BY <1>1
  <2>3. CASE s = s1
    <3>1. ASSUME NEW t \in Slots, t < s PROVE t \in K
        BY <1>1, <1>2, <2>2, <2>3, <3>1
    <3> QED
        BY <2>1, <2>3, <3>1
  <2>4. CASE s # s1
    <3>1. s \notin K => s1 < s
        BY <1>2, <2>2, <2>4
    <3> QED
        BY <2>1, <2>4, <3>1
  <2> QED
    BY <2>3, <2>4
<1> QED
    BY <1>2, <1>3

(* An edge of the out-of-order ledger: the request that is answered is     *)
(* struck out, then the new one is entered.                                *)
LEMMA OutOfOrderStep ==
    ASSUME RequestTypes, Books(Occupied, slot_id, waiting, outstanding),
           NEW request \in BOOLEAN, NEW taken \in BOOLEAN, NEW response \in BOOLEAN,
           NEW take \in BOOLEAN, NEW id \in Ids, NEW rid \in Ids,
           OutOfOrderEdge(asks(request, taken), id, answers(response, take), rid)
    PROVE  /\ Books(Occupied, slot_id, waiting, outstanding)' /\ outstanding' \in 0..MaxOutstanding
<1> DEFINE asking == asks(request, taken)
           answered == answers(response, take)
           kept == valid_after_remove(answered, rid)
           free == [s \in Slots |-> ~kept[s]]
           insert == insert_here(asking, free)
           K == {s \in Slots : kept[s]}
           w1 == IF answered THEN Struck(waiting, rid) ELSE waiting
           n1 == IF answered THEN outstanding - 1 ELSE outstanding
<1>1. /\ asking \in BOOLEAN /\ answered \in BOOLEAN
      /\ asking => outstanding < MaxOutstanding
      /\ answered => outstanding # 0
    BY DEF asks, answers
<1>2. /\ outstanding' = Step(outstanding, asking, answered)
      /\ slot_valid' = [s \in Slots |-> kept[s] \/ insert[s]]
      /\ slot_id' = [s \in Slots |-> IF insert[s] THEN id ELSE slot_id[s]]
      /\ waiting' = w1 \o (IF asking THEN <<id>> ELSE <<>>)
    BY DEF OutOfOrderEdge
<1>3. /\ asking => \A s \in Occupied : slot_id[s] # id
      /\ answered => \E s \in Occupied : slot_id[s] = rid
    <2>1. LedgerChecks(asking, id, answered, rid) = {}
        BY DEF OutOfOrderEdge
    <2>2. ~duplicate(asking, id) /\ ~missing(answered, rid)
        BY <2>1 DEF LedgerChecks
    <2> QED
        BY <2>2 DEF duplicate, missing, stored, Occupied
<1>4. outstanding \in 0..MaxOutstanding /\ slot_id \in [Slots -> Ids]
      /\ slot_valid \in [Slots -> BOOLEAN]
    BY DEF RequestTypes
<1>5. outstanding' \in 0..MaxOutstanding
    BY <1>1, <1>2, <1>4, StepStays
<1>6. kept = [s \in Slots |-> slot_valid[s] /\ ~(answered /\ slot_id[s] = rid)]
    BY DEF valid_after_remove
<1> HIDE DEF asking, answered, kept, free, insert, w1, n1
<1>7. /\ K \subseteq Slots /\ K \subseteq Occupied
      /\ Books(K, slot_id, w1, n1)
  <2>1. CASE answered
    <3>1. PICK s0 \in Occupied : slot_id[s0] = rid
        BY <1>3, <2>1
    <3>2. K = Occupied \ {s0}
        <4>1. \A s \in Occupied : slot_id[s] = rid <=> s = s0
            BY <3>1 DEF Books
        <4> QED
            BY <1>4, <1>6, <2>1, <3>1, <4>1 DEF Occupied
    <3>3. w1 = Struck(waiting, slot_id[s0]) /\ n1 = outstanding - 1
        BY <2>1, <3>1 DEF w1, n1
    <3>4. Books(Occupied \ {s0}, slot_id, Struck(waiting, slot_id[s0]), outstanding - 1)
        BY Strike
    <3> QED
        BY <3>2, <3>3, <3>4 DEF Occupied
  <2>2. CASE ~answered
    <3>1. K = Occupied
        BY <1>4, <1>6, <2>2 DEF Occupied
    <3> QED
        BY <2>2, <3>1 DEF w1, n1, Occupied
  <2> QED
    BY <1>1, <2>1, <2>2
<1> HIDE DEF K
<1>8. \A s \in Slots : kept[s] <=> s \in K
    BY <1>4, <1>6 DEF K
<1>9. free = [s \in Slots |-> s \notin K]
    BY <1>8 DEF free
<1>10. \A s \in Slots : insert[s] \in BOOLEAN
    BY <1>9 DEF insert, insert_here
<1>11. CASE ~asking
  <2>1. \A s \in Slots : ~insert[s]
    BY <1>9, <1>11 DEF insert, insert_here
  <2>2. Occupied' = K
    BY <1>2, <1>7, <1>8, <2>1 DEF Occupied, Slots
  <2>3. slot_id' = slot_id
    BY <1>2, <1>4, <2>1
  <2>4. waiting' = w1
    <3>1. w1 \in Seq(Ids)
        BY <1>7 DEF Books, IdWords
    <3> QED
        BY <1>2, <1>11, <3>1
  <2>5. outstanding' = n1
    BY <1>1, <1>2, <1>4, <1>11 DEF n1, Step
  <2> QED
    BY <1>5, <1>7, <2>2, <2>3, <2>4, <2>5
<1>12. CASE asking
  <2>1. Cardinality(K) < MaxOutstanding
    <3>1. Cardinality(K) = n1
        BY <1>7 DEF Books
    <3> QED
        BY <1>1, <1>4, <1>12, <3>1, RequestAssumption DEF n1
  <2>2. PICK s1 \in Slots : s1 \notin K /\ \A s \in Slots : insert[s] <=> s = s1
    <3>1. insert = insert_here(TRUE, free)
        BY <1>12 DEF insert, insert_here
    <3> QED
        BY <1>7, <1>9, <2>1, <3>1, FreeSlot
  <2>3. Occupied' = K \cup {s1}
    BY <1>2, <1>7, <1>8, <2>2 DEF Occupied, Slots
  <2>4. slot_id' = [s \in Slots |-> IF s = s1 THEN id ELSE slot_id[s]]
    BY <1>2, <1>10, <2>2
  <2>5. waiting' = w1 \o <<id>>
    BY <1>2, <1>12
  <2>6. outstanding' = n1 + 1
    BY <1>1, <1>2, <1>4, <1>12 DEF n1, Step
  <2>7. \A s \in K : slot_id[s] # id
    BY <1>3, <1>7, <1>12
  <2>8. Books(K \cup {s1}, slot_id', w1 \o <<id>>, n1 + 1)
    BY <1>7, <2>2, <2>4, <2>7, Enter
  <2> QED
    BY <1>5, <2>3, <2>5, <2>6, <2>8
<1> QED
    BY <1>1, <1>11, <1>12

-----------------------------------------------------------------------------
RequestInv ==
    /\ RequestTypes
    /\ ordering = "in_order" => InOrderExact
    /\ ordering = "out_of_order" => Books(Occupied, slot_id, waiting, outstanding)

(* The invariant of both orderings, which begins, is kept, and says what   *)
(* is claimed.                                                             *)
LEMMA RequestInvInit == RequestInit => RequestInv
<1> SUFFICES ASSUME RequestInit PROVE RequestInv
    OBVIOUS
<1> USE DEF RequestInit
<1>1. RequestTypes
  <2>1. (CHOOSE i \in Ids : TRUE) \in Ids
    BY RequestAssumption
  <2>2. slot_id \in [Slots -> Ids] /\ slot_valid \in [Slots -> BOOLEAN]
    BY <2>1
  <2>3. request_depth \in Nat /\ response_depth \in Nat /\ 0 \in 0..MaxOutstanding
    BY RequestAssumption
  <2>4. Len(request_buffer) <= request_depth /\ Len(response_buffer) <= response_depth
    BY <2>3
  <2>5. /\ request_buffer \in Seq(Ids) /\ response_buffer \in Seq(Ids)
        /\ pending \in Seq(Ids) /\ waiting \in Seq(Ids)
    OBVIOUS
  <2>6. outstanding \in 0..MaxOutstanding /\ served \in 0..MaxOutstanding
    BY <2>3
  <2> QED
    BY <2>2, <2>4, <2>5, <2>6 DEF RequestTypes
<1>2. InOrderExact
    BY DEF InOrderExact
<1>3. Books(Occupied, slot_id, waiting, outstanding)
  <2>1. Occupied = {}
    BY DEF Occupied
  <2> QED
    BY <1>1, <2>1, FS_EmptySet DEF Books, RequestTypes, IdWords
<1> QED
    BY <1>1, <1>2, <1>3 DEF RequestInv

LEMMA RequestInvNext == RequestInv /\ [RequestNext]_rrVars => RequestInv'
<1> SUFFICES ASSUME RequestInv, [RequestNext]_rrVars PROVE RequestInv'
    OBVIOUS
<1>0. ordering \in {"in_order", "out_of_order"}
    BY RequestAssumption DEF RequestInv, RequestTypes
<1>1. ASSUME NEW w \in Will, InOrderEdge(w) PROVE RequestInv'
  <2>1. ordering = "in_order" /\ ordering' = ordering
    BY <1>1 DEF InOrderEdge, connection
  <2>2. InOrderExact' /\ RequestTypes'
    BY <1>1, <2>1, InOrderStep DEF RequestInv
  <2> QED
    BY <2>1, <2>2 DEF RequestInv
<1>2. CASE OutOfOrder
  <2>1. PICK request \in BOOLEAN, taken \in BOOLEAN, response \in BOOLEAN, take \in BOOLEAN,
             id \in Ids, rid \in Ids :
          \/ OutOfOrderEdge(asks(request, taken), id, answers(response, take), rid)
          \/ LedgerAlarm(asks(request, taken), id, answers(response, take), rid)
    BY <1>2 DEF OutOfOrder
  <2>2. CASE OutOfOrderEdge(asks(request, taken), id, answers(response, take), rid)
    <3>1. /\ ordering = "out_of_order" /\ ordering' = ordering /\ request_depth' = request_depth
          /\ response_depth' = response_depth /\ served' = served
          /\ request_buffer' = request_buffer /\ response_buffer' = response_buffer
          /\ pending' = pending /\ ledger_alarms' = ledger_alarms /\ rr_reset' = rr_reset
        BY <2>2 DEF OutOfOrderEdge, connection, inOrderVars
    <3>2. Books(Occupied, slot_id, waiting, outstanding)' /\ outstanding' \in 0..MaxOutstanding
        BY <2>2, <3>1, OutOfOrderStep DEF RequestInv
    <3>3. slot_valid' \in [Slots -> BOOLEAN]
        BY <2>2 DEF OutOfOrderEdge
    <3>4. slot_id' \in [Slots -> Ids] /\ waiting' \in Seq(Ids)
        BY <3>2 DEF Books, IdWords, Slots
    <3>5. RequestTypes'
        BY <3>1, <3>2, <3>3, <3>4 DEF RequestInv, RequestTypes
    <3> QED
        BY <3>1, <3>2, <3>5 DEF RequestInv
  <2>3. CASE LedgerAlarm(asks(request, taken), id, answers(response, take), rid)
    BY <2>3 DEF LedgerAlarm, LedgerChecks, connection, inOrderVars, ledgerVars, RequestInv,
       RequestTypes, InOrderExact, Books, Occupied, Slots
  <2> QED
    BY <2>1, <2>2, <2>3
<1>3. CASE AssertRequestReset
    BY <1>3 DEF AssertRequestReset, connection, inOrderVars, ledgerVars, RequestInv, RequestTypes,
       InOrderExact, Books, Occupied, Slots
<1>4. CASE RequestResetEdge
  <2>1. (CHOOSE i \in Ids : TRUE) \in Ids
    BY RequestAssumption
  <2>2. slot_id' \in [Slots -> Ids] /\ slot_valid' \in [Slots -> BOOLEAN]
    BY <1>4, <2>1 DEF RequestResetEdge
  <2>3. RequestTypes'
    BY <1>4, <2>2, RequestAssumption DEF RequestResetEdge, RequestInv, RequestTypes, connection
  <2>4. InOrderExact'
    BY <1>4 DEF RequestResetEdge, InOrderExact
  <2>5. Occupied' = {}
    BY <1>4 DEF RequestResetEdge, Occupied, Slots
  <2>6. Books(Occupied, slot_id, waiting, outstanding)'
    BY <1>4, <2>2, <2>5, FS_EmptySet DEF RequestResetEdge, Books, IdWords, Slots
  <2> QED
    BY <2>3, <2>4, <2>6 DEF RequestInv
<1>5. CASE UNCHANGED rrVars
    BY <1>5 DEF rrVars, connection, inOrderVars, ledgerVars, RequestInv, RequestTypes,
       InOrderExact, Books, Occupied, Slots
<1> QED
    BY <1>1, <1>2, <1>3, <1>4, <1>5 DEF RequestNext

LEMMA RequestInvExact == RequestInv => LedgerExact /\ RequestTypeOK
<1> SUFFICES ASSUME RequestInv PROVE LedgerExact /\ RequestTypeOK
    OBVIOUS
<1>1. RequestTypeOK
    BY RequestAssumption DEF RequestInv, RequestTypes, RequestTypeOK
<1>2. ordering = "out_of_order" =>
          /\ {slot_id[s] : s \in {t \in Slots : slot_valid[t]}}
                = {waiting[i] : i \in DOMAIN waiting}
          /\ Cardinality({t \in Slots : slot_valid[t]}) = outstanding
          /\ outstanding = Len(waiting)
  <2> SUFFICES ASSUME ordering = "out_of_order"
               PROVE  /\ {slot_id[s] : s \in Occupied} = {waiting[i] : i \in DOMAIN waiting}
                      /\ Cardinality(Occupied) = outstanding
                      /\ outstanding = Len(waiting)
    BY DEF Occupied
  <2>1. Books(Occupied, slot_id, waiting, outstanding)
    BY DEF RequestInv
  <2>2. DOMAIN waiting = 1..Len(waiting)
    BY <2>1 DEF Books, IdWords
  <2> QED
    BY <2>1, <2>2 DEF Books
<1>3. ordering \in {"in_order", "out_of_order"}
    BY RequestAssumption DEF RequestInv, RequestTypes
<1> QED
    BY <1>1, <1>2, <1>3 DEF RequestInv, LedgerExact, InOrderExact

(* The books of lower_request_response_module and of _OutstandingIdLedger  *)
(* agree with what is outstanding, for any number of outstanding requests, *)
(* any FIFO depths and any identifiers: in order, each response is the     *)
(* answer to the oldest request; out of order, the slots hold each         *)
(* outstanding identifier once.                                            *)
THEOREM LedgerExactHolds == RequestSpec => []LedgerExact
<1>1. RequestSpec => []RequestInv
    BY RequestInvInit, RequestInvNext, PTL DEF RequestSpec
<1> QED
    BY <1>1, RequestInvExact, PTL

(* The counts of the two ends never pass the number of requests that may   *)
(* be outstanding, nor the FIFOs their depths.                             *)
THEOREM RequestTypeCorrect == RequestSpec => []RequestTypeOK
<1>1. RequestSpec => []RequestInv
    BY RequestInvInit, RequestInvNext, PTL DEF RequestSpec
<1> QED
    BY <1>1, RequestInvExact, PTL
=============================================================================
