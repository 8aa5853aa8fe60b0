------------------------------ MODULE CsrBlock ------------------------------
(***************************************************************************)
(* A block of control and status registers as lower_csr_module makes it    *)
(* into registers and equations (_emit_csr writes the same ones): STATUS   *)
(* holds a sticky w1c field that hardware sets, COMMAND a pulse field      *)
(* bound to command wires, CONTROL a rw field with an event after each     *)
(* accepted write.  A field is the set of its bits that are one.           *)
(*                                                                         *)
(* External: hardware raises events at any edge and takes the commands     *)
(* when their wires are up; the driver program reads STATUS, clears the    *)
(* bits it has read, and then writes the command that deals with each.     *)
(***************************************************************************)
CONSTANTS FieldBits,    \* of every field
          Priorities    \* of "hardware" and "software": who wins a sticky bit

ASSUME CsrAssumption == Priorities \subseteq {"hardware", "software"}

VARIABLES
    priority,
    status, command, control, notified,    \* the registers of the block
    csr_reset,
    phase, seen,    \* the driver, and the bits it last found in STATUS
    raised_open,    \* events raised and not yet dealt with
    asked           \* commands written and not yet taken by the hardware

csrVars == <<priority, status, command, control, notified, csr_reset,
             phase, seen, raised_open, asked>>

-----------------------------------------------------------------------------
(* An access is what the wires of the access interface hold in a cycle.    *)
Declared == {"STATUS", "COMMAND", "CONTROL"}
Idle == [read |-> FALSE, write |-> FALSE, address |-> "elsewhere", data |-> {}]
Read(a) == [read |-> TRUE, write |-> FALSE, address |-> a, data |-> {}]
Write(a, bits) == [read |-> FALSE, write |-> TRUE, address |-> a, data |-> bits]

write_hit(access, register) == access.write /\ access.address = register

(* Only rw, ro and w1c fields are read back; any other address reads zero. *)
csr_read_data(access) ==
    IF ~access.read THEN {}
    ELSE CASE access.address = "STATUS" -> status
           [] access.address = "CONTROL" -> control
           [] OTHER -> {}

csr_ready(access) ==
    (access.read \/ access.write) /\ access.address \in Declared

Incoming(access, register) ==
    IF write_hit(access, register) THEN access.data ELSE {}

(* A sticky w1c field: the priority decides between a bit set and cleared  *)
(* at one edge.                                                            *)
(* Mutant: a write clears the field, and not the bits that are written.    *)
status_next_all(access, raised) ==
    IF write_hit(access, "STATUS") THEN raised ELSE status \cup raised
(* Mutant: hardware is not looked at in the cycle of a write.              *)
status_next_deaf(access, raised) ==
    IF write_hit(access, "STATUS") THEN status \ access.data ELSE status \cup raised
status_next(access, raised) ==
    IF priority = "software"
    THEN (status \cup raised) \ Incoming(access, "STATUS")
    ELSE (status \ Incoming(access, "STATUS")) \cup raised

(* Mutant: a pulse stays up until the next write.                          *)
command_next_held(access) ==
    IF write_hit(access, "COMMAND") THEN access.data ELSE command
command_next(access) == Incoming(access, "COMMAND")
control_next(access) ==
    IF write_hit(access, "CONTROL") THEN access.data ELSE control

(* Mutant: the event is of any write.                                      *)
notified_next_any(access) == IF access.write THEN access.data ELSE {}
notified_next(access) == Incoming(access, "CONTROL")

-----------------------------------------------------------------------------
CsrInit ==
    /\ priority \in Priorities
    /\ status = {} /\ command = {} /\ control = {} /\ notified = {}
    /\ csr_reset = FALSE
    /\ phase = "idle" /\ seen = {} /\ raised_open = {} /\ asked = {}

(* The accesses of the driver, besides those that change nothing for it.   *)
DriverStep(access) ==
    \/ /\ phase = "idle" /\ access = Read("STATUS") /\ csr_ready(access)
       /\ seen' = csr_read_data(access)
       /\ phase' = IF csr_read_data(access) = {} THEN "idle" ELSE "seen"
    \/ /\ phase = "seen" /\ access = Write("STATUS", seen) /\ csr_ready(access)
       /\ phase' = "cleared" /\ UNCHANGED seen
    \/ /\ phase = "cleared" /\ access = Write("COMMAND", seen) /\ csr_ready(access)
       /\ phase' = "idle" /\ seen' = {}
    \/ /\ access \in {Idle, Read("CONTROL"), Read("COMMAND"), Write("elsewhere", FieldBits)}
                        \cup {Write("CONTROL", bits) : bits \in SUBSET FieldBits}
       /\ UNCHANGED <<phase, seen>>

Accesses ==
    {Idle, Read("STATUS"), Read("CONTROL"), Read("COMMAND"), Write("elsewhere", FieldBits),
     Write("STATUS", seen), Write("COMMAND", seen)}
       \cup {Write("CONTROL", bits) : bits \in SUBSET FieldBits}

CsrEdge(access, raised) ==
    /\ ~csr_reset
    /\ DriverStep(access)
    /\ status' = status_next(access, raised)
    /\ command' = command_next(access)
    /\ control' = control_next(access)
    /\ notified' = notified_next(access)
    /\ raised_open' = (raised_open \ command) \cup raised
    /\ asked' = (asked \ command)
                   \cup (IF access.address = "COMMAND" THEN access.data ELSE {})
    /\ UNCHANGED <<priority, csr_reset>>

AssertCsrReset ==
    /\ ~csr_reset /\ csr_reset' = TRUE
    /\ UNCHANGED <<priority, status, command, control, notified, phase, seen,
                   raised_open, asked>>

(* A reset starts the block, and the driver with it, from the beginning.   *)
CsrResetEdge ==
    /\ csr_reset
    /\ status' = {} /\ command' = {} /\ control' = {} /\ notified' = {}
    /\ phase' = "idle" /\ seen' = {} /\ raised_open' = {} /\ asked' = {}
    /\ csr_reset' \in BOOLEAN
    /\ UNCHANGED priority

CsrNext ==
    \/ \E access \in Accesses, raised \in SUBSET FieldBits : CsrEdge(access, raised)
    \/ AssertCsrReset
    \/ CsrResetEdge

CsrSpec == CsrInit /\ [][CsrNext]_csrVars

-----------------------------------------------------------------------------
(* Every register holds bits of its field.                                 *)
CsrTypeOK ==
    /\ priority \in Priorities
    /\ {status, command, control, notified, seen, raised_open, asked}
          \subseteq SUBSET FieldBits
    /\ csr_reset \in BOOLEAN
    /\ phase \in {"idle", "seen", "cleared"}

(* An event that hardware raises is never forgotten, whoever has priority  *)
(* and however the driver's read and clear fall between the events: until  *)
(* the hardware takes the command that deals with it, it is in STATUS, in  *)
(* the hands of the driver that has cleared it, or on the command wires.   *)
(* And the hardware takes each command that is written once, and hears of  *)
(* a new CONTROL word in the cycle in which that word is there.            *)
NoEventForgotten ==
    /\ raised_open \subseteq status \cup command
                           \cup (IF phase = "cleared" THEN seen ELSE {})
    /\ command = asked
    /\ notified # {} => notified = control
=============================================================================
