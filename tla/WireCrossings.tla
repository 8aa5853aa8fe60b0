--------------------------- MODULE WireCrossings ---------------------------
(***************************************************************************)
(* The crossings of single wires: `crossing sync_level`, two flops of the  *)
(* destination that follow a level, and `crossing pulse_toggle`, in which  *)
(* a pulse toggles a register of the source, the toggle goes through two   *)
(* flops, and the destination makes a pulse of each change it sees.  The   *)
(* registers are those of _lower_sync_level and _lower_pulse_toggle        *)
(* (simulation), _emit_sync_level and _emit_pulse_toggle (SystemVerilog).  *)
(* One crossing of each kind connects the same two clock domains.          *)
(*                                                                         *)
(* pulse_toggle is for "rate-limited" pulses.  What that has to mean is    *)
(* modelled: the source gives no pulse before the destination, out of      *)
(* reset, has had an edge at which the last toggle was stable.  Without it *)
(* a toggle may be undone before it is ever sampled.                       *)
(***************************************************************************)
EXTENDS Integers

VARIABLES
    level, source_toggle, source_reset,            \* source clock domain
    sync_stage1, sync_stage2,                      \* destination clock domain
    toggle_sync1, toggle_sync2, previous_toggle, destination_reset,
    cleared,    \* the domains that have seen an edge in the current reset episode
    steady,     \* destination edges, up to two, since the level last changed
    settled,    \* the destination has sampled the last toggle
    owed        \* pulses given and not yet seen by the destination's logic

sourceVars == <<level, source_toggle>>
destinationVars == <<sync_stage1, sync_stage2, toggle_sync1, toggle_sync2, previous_toggle>>
resetVars == <<source_reset, destination_reset>>
vars == <<sourceVars, destinationVars, resetVars, cleared, steady, settled, owed>>

(* The registers of the crossings are single bits, and no more pulses are  *)
(* under way than there are registers to hold them.                        *)
TypeOK ==
    /\ {level, source_toggle, sync_stage1, sync_stage2,
        toggle_sync1, toggle_sync2, previous_toggle} \subseteq {0, 1}
    /\ {source_reset, destination_reset, settled} \subseteq BOOLEAN
    /\ cleared \subseteq {"source", "destination"}
    /\ steady \in 0..2
    /\ owed \in 0..3

-----------------------------------------------------------------------------
Init ==
    /\ level = 0 /\ source_toggle = 0
    /\ sync_stage1 = 0 /\ sync_stage2 = 0
    /\ toggle_sync1 = 0 /\ toggle_sync2 = 0 /\ previous_toggle = 0
    /\ source_reset = FALSE /\ destination_reset = FALSE
    /\ cleared = {} /\ steady = 2 /\ settled = TRUE /\ owed = 0

(* What the destination's logic sees of the level and of the pulses.       *)
LevelOut == IF destination_reset THEN 0 ELSE sync_stage2
PulseOut == IF destination_reset \/ toggle_sync2 = previous_toggle THEN 0 ELSE 1

source_toggle_next(pulse) ==
    IF source_reset THEN 0 ELSE IF pulse THEN 1 - source_toggle ELSE source_toggle

(* Mutant: the history register holds while the output is raised.          *)
previous_toggle_next_held == IF PulseOut = 1 THEN previous_toggle ELSE toggle_sync2
(* Mutant: it follows the first flop, so that a change is not seen.        *)
previous_toggle_next_first == toggle_sync1
previous_toggle_next == toggle_sync2

(* Mutant: the second stage keeps a level that was once raised.            *)
sync_stage2_next_sticky == IF sync_stage2 = 1 THEN 1 ELSE sync_stage1
sync_stage2_next == sync_stage1

DestinationRegisters(sampledLevel, sampledToggle) ==
    IF destination_reset
    THEN /\ sync_stage1' = 0 /\ sync_stage2' = 0
         /\ toggle_sync1' = 0 /\ toggle_sync2' = 0 /\ previous_toggle' = 0
    ELSE /\ sync_stage1' = sampledLevel /\ sync_stage2' = sync_stage2_next
         /\ toggle_sync1' = sampledToggle /\ toggle_sync2' = toggle_sync1
         /\ previous_toggle' = previous_toggle_next

(* The books: a pulse accepted by the source is owed until an edge of the  *)
(* destination finds the output raised.                                    *)
Given(pulse) == IF pulse /\ ~source_reset THEN 1 ELSE 0
OneMore(n) == IF destination_reset THEN 0 ELSE IF n = 2 THEN 2 ELSE n + 1

Clear(edges) ==
    cleared' = cleared \cup {d \in edges : \/ d = "source" /\ source_reset
                                           \/ d = "destination" /\ destination_reset}

SourceEdge(newLevel, pulse) ==
    /\ pulse => settled
    /\ level' = newLevel
    /\ source_toggle' = source_toggle_next(pulse)
    /\ steady' = IF newLevel = level THEN steady ELSE 0
    /\ settled' = (settled /\ Given(pulse) = 0)
    /\ owed' = owed + Given(pulse)
    /\ Clear({"source"})
    /\ UNCHANGED <<destinationVars, resetVars>>

DestinationEdge ==
    /\ DestinationRegisters(level, source_toggle)
    /\ steady' = OneMore(steady)
    /\ settled' = (settled \/ ~destination_reset)
    /\ owed' = owed - PulseOut
    /\ Clear({"destination"})
    /\ UNCHANGED <<sourceVars, resetVars>>

(* Both clocks have an edge at once: a wire that changes is sampled before *)
(* or after the change.                                                    *)
BothEdges(newLevel, pulse) ==
    /\ pulse => settled
    /\ level' = newLevel
    /\ source_toggle' = source_toggle_next(pulse)
    /\ \E l \in {level, newLevel}, t \in {source_toggle, source_toggle_next(pulse)} :
          DestinationRegisters(l, t)
    /\ steady' = IF newLevel = level THEN OneMore(steady) ELSE 0
    /\ settled' = ((settled \/ ~destination_reset) /\ Given(pulse) = 0)
    /\ owed' = owed + Given(pulse) - PulseOut
    /\ Clear({"source", "destination"})
    /\ UNCHANGED resetVars

(* A coordinated reset episode, as in the asynchronous FIFO; the pulses    *)
(* that are under way are given up.                                        *)
AssertReset ==
    /\ source_reset' = TRUE /\ destination_reset' = TRUE
    /\ cleared' = {} /\ owed' = 0 /\ settled' = TRUE
    /\ UNCHANGED <<sourceVars, destinationVars, steady>>

ReleaseSource ==
    /\ source_reset /\ cleared = {"source", "destination"}
    /\ source_reset' = FALSE
    /\ UNCHANGED <<sourceVars, destinationVars, destination_reset, cleared, steady,
                   settled, owed>>

ReleaseDestination ==
    /\ destination_reset /\ cleared = {"source", "destination"}
    /\ destination_reset' = FALSE
    /\ UNCHANGED <<sourceVars, destinationVars, source_reset, cleared, steady,
                   settled, owed>>

Next ==
    \/ \E newLevel \in {0, 1}, pulse \in BOOLEAN :
          SourceEdge(newLevel, pulse) \/ BothEdges(newLevel, pulse)
    \/ DestinationEdge
    \/ AssertReset \/ ReleaseSource \/ ReleaseDestination

(* The destination's clock keeps running, and a reset episode that is      *)
(* begun is ended.                                                         *)
Spec ==
    /\ Init /\ [][Next]_vars
    /\ WF_vars(DestinationEdge
                  \/ \E newLevel \in {0, 1}, pulse \in BOOLEAN : BothEdges(newLevel, pulse))
    /\ WF_vars(ReleaseSource) /\ WF_vars(ReleaseDestination)

-----------------------------------------------------------------------------
(* A reset that has not yet reached both domains.                          *)
Resetting == source_reset /\ destination_reset /\ cleared # {"source", "destination"}

Apart(a, b) == IF a = b THEN 0 ELSE 1
UnderWay == Apart(source_toggle, toggle_sync1) + Apart(toggle_sync1, toggle_sync2)
               + Apart(toggle_sync2, previous_toggle)

(* No pulse is lost and none is made up: outside a reset episode, the      *)
(* changes under way are exactly the pulses that the destination has yet   *)
(* to see, however the two clocks and the resets interleave.               *)
NoPulseLost == Resetting \/ owed = UnderWay

(* A pulse is seen, or a reset comes: none is owed for ever.               *)
PulseSeen == []<>(owed = 0 \/ PulseOut = 1 \/ destination_reset)

(* A level that has been still for two edges of the destination is what    *)
(* the destination sees.                                                   *)
LevelArrives == steady = 2 /\ ~destination_reset => LevelOut = level

(* What the destination sees is what the source gave, of pulses and of     *)
(* levels.                                                                 *)
WiresExact == NoPulseLost /\ LevelArrives
=============================================================================
