------------------------ MODULE WireCrossingsProofs ------------------------
(***************************************************************************)
(* No pulse is lost or made up by a pulse_toggle crossing, and a level     *)
(* that is still arrives, however the two clocks and the reset episodes    *)
(* interleave.                                                             *)
(***************************************************************************)
EXTENDS WireCrossings, TLAPS

Both == {"source", "destination"}

(* One reset begins both; neither ends before both domains have seen it.   *)
EpisodeInv == cleared = Both \/ (source_reset /\ destination_reset)
                             \/ (~source_reset /\ ~destination_reset)

(* A domain that is in reset and has seen an edge holds zeros.             *)
SourceCleared == source_reset /\ "source" \in cleared => source_toggle = 0
DestinationCleared ==
    destination_reset /\ "destination" \in cleared =>
        /\ toggle_sync1 = 0 /\ toggle_sync2 = 0 /\ previous_toggle = 0
        /\ steady = 0

(* Outside a reset episode, when the last toggle is settled it has been    *)
(* sampled: there is room for another.  During one nothing is owed.        *)
PulseInv ==
    IF Resetting THEN owed = 0 /\ settled
    ELSE owed = UnderWay /\ (settled => toggle_sync1 = source_toggle)

(* A level that was still at an edge is in the first flop, and after       *)
(* another one in the second.                                              *)
LevelInv ==
    ~destination_reset => /\ steady >= 1 => sync_stage1 = level
                          /\ steady = 2 => sync_stage2 = level

Bits ==
    /\ level \in {0, 1} /\ source_toggle \in {0, 1}
    /\ sync_stage1 \in {0, 1} /\ sync_stage2 \in {0, 1}
    /\ toggle_sync1 \in {0, 1} /\ toggle_sync2 \in {0, 1} /\ previous_toggle \in {0, 1}
    /\ cleared \subseteq Both
    /\ steady \in 0..2 /\ owed \in Int

Flags == source_reset \in BOOLEAN /\ destination_reset \in BOOLEAN /\ settled \in BOOLEAN

WireInv ==
    /\ Bits /\ Flags /\ EpisodeInv /\ SourceCleared /\ DestinationCleared /\ PulseInv /\ LevelInv

(* The wires begin at rest.                                                *)
LEMMA WireInitInv == Init => WireInv
<1> SUFFICES ASSUME Init PROVE WireInv
    OBVIOUS
<1>1. Bits /\ LevelInv
    BY DEF Init, Bits, LevelInv
<1>2. Flags
    BY DEF Init, Flags
<1>3. EpisodeInv /\ SourceCleared /\ DestinationCleared
    BY DEF Init, EpisodeInv, SourceCleared, DestinationCleared
<1>4. PulseInv
    BY DEF Init, PulseInv, Resetting, UnderWay, Apart
<1> QED
    BY <1>1, <1>2, <1>3, <1>4 DEF WireInv

(* The two clocks keep the registers bits.                                 *)
LEMMA BitsStep == WireInv /\ [Next]_vars => Bits'
<1> SUFFICES ASSUME Bits, [Next]_vars PROVE Bits'
    BY DEF WireInv
<1> DEFINE Registers == /\ level \in {0, 1} /\ source_toggle \in {0, 1}
                        /\ sync_stage1 \in {0, 1} /\ sync_stage2 \in {0, 1}
                        /\ toggle_sync1 \in {0, 1} /\ toggle_sync2 \in {0, 1}
                        /\ previous_toggle \in {0, 1}
<1>1. Registers'
    BY DEF Bits, Next, SourceEdge, BothEdges, DestinationEdge, AssertReset, ReleaseSource,
       ReleaseDestination, vars, sourceVars, destinationVars, DestinationRegisters,
       source_toggle_next, sync_stage2_next, previous_toggle_next
<1>2. cleared' \subseteq Both
    BY DEF Bits, Next, SourceEdge, BothEdges, DestinationEdge, AssertReset, ReleaseSource,
       ReleaseDestination, vars, Clear, Both
<1>3. steady' \in 0..2
    BY DEF Bits, Next, SourceEdge, BothEdges, DestinationEdge, AssertReset, ReleaseSource,
       ReleaseDestination, vars, OneMore
<1>4. owed' \in Int
    BY DEF Bits, Next, SourceEdge, BothEdges, DestinationEdge, AssertReset, ReleaseSource,
       ReleaseDestination, vars, Given, PulseOut
<1> QED
    BY <1>1, <1>2, <1>3, <1>4 DEF Bits

(* And the books of the model flags.                                       *)
LEMMA FlagsStep == WireInv /\ [Next]_vars => Flags'
<1> SUFFICES ASSUME Flags, [Next]_vars PROVE Flags'
    BY DEF WireInv
<1>1. /\ source_reset' \in {source_reset, TRUE, FALSE}
      /\ destination_reset' \in {destination_reset, TRUE, FALSE}
    BY DEF Next, SourceEdge, BothEdges, DestinationEdge, AssertReset, ReleaseSource,
       ReleaseDestination, vars, resetVars
<1>2. settled' \in {settled, TRUE, FALSE}
    BY DEF Next, SourceEdge, BothEdges, DestinationEdge, AssertReset, ReleaseSource,
       ReleaseDestination, vars
<1> QED
    BY <1>1, <1>2 DEF Flags

(* A reset episode clears both ends of a crossing before either goes on.   *)
LEMMA EpisodeStep ==
    WireInv /\ [Next]_vars => EpisodeInv' /\ SourceCleared' /\ DestinationCleared'
<1> SUFFICES ASSUME WireInv, [Next]_vars PROVE EpisodeInv' /\ SourceCleared' /\ DestinationCleared'
    OBVIOUS
<1> USE DEF WireInv, Bits, Both, Clear, DestinationRegisters, source_toggle_next,
        previous_toggle_next, OneMore, sourceVars, destinationVars, resetVars,
        EpisodeInv, SourceCleared, DestinationCleared
<1>1. ASSUME NEW newLevel \in {0, 1}, NEW pulse \in BOOLEAN, SourceEdge(newLevel, pulse)
      PROVE EpisodeInv' /\ SourceCleared' /\ DestinationCleared'
    BY <1>1 DEF SourceEdge
<1>2. ASSUME NEW newLevel \in {0, 1}, NEW pulse \in BOOLEAN, BothEdges(newLevel, pulse)
      PROVE EpisodeInv' /\ SourceCleared' /\ DestinationCleared'
    BY <1>2 DEF BothEdges
<1>3. CASE DestinationEdge
    BY <1>3 DEF DestinationEdge
<1>4. CASE AssertReset \/ ReleaseSource \/ ReleaseDestination
    BY <1>4 DEF AssertReset, ReleaseSource, ReleaseDestination
<1>5. CASE UNCHANGED vars
    BY <1>5 DEF vars
<1> QED
    BY <1>1, <1>2, <1>3, <1>4, <1>5 DEF Next

(* The level passes from stage to stage.                                   *)
LEMMA LevelStep == WireInv /\ [Next]_vars => LevelInv'
<1> SUFFICES ASSUME WireInv, [Next]_vars PROVE LevelInv'
    OBVIOUS
<1> USE DEF WireInv, Bits, Both, DestinationRegisters, OneMore, sync_stage2_next,
        sourceVars, destinationVars, resetVars, LevelInv, DestinationCleared
<1>1. ASSUME NEW newLevel \in {0, 1}, NEW pulse \in BOOLEAN, SourceEdge(newLevel, pulse)
      PROVE LevelInv'
    BY <1>1 DEF SourceEdge
<1>2. ASSUME NEW newLevel \in {0, 1}, NEW pulse \in BOOLEAN, BothEdges(newLevel, pulse)
      PROVE LevelInv'
    BY <1>2 DEF BothEdges
<1>3. CASE DestinationEdge
    BY <1>3 DEF DestinationEdge
<1>4. CASE AssertReset \/ ReleaseSource \/ ReleaseDestination
    BY <1>4 DEF AssertReset, ReleaseSource, ReleaseDestination
<1>5. CASE UNCHANGED vars
    BY <1>5 DEF vars
<1> QED
    BY <1>1, <1>2, <1>3, <1>4, <1>5 DEF Next

(* A toggle that is under way stands for one pulse that is owed.           *)
LEMMA PulseStep == WireInv /\ [Next]_vars => PulseInv'
<1> SUFFICES ASSUME WireInv, [Next]_vars PROVE PulseInv'
    OBVIOUS
<1>0. Bits' /\ Flags' /\ EpisodeInv' /\ SourceCleared' /\ DestinationCleared'
    BY BitsStep, FlagsStep, EpisodeStep
<1> USE <1>0 DEF WireInv, Bits, Flags, Both, Clear, DestinationRegisters, source_toggle_next, previous_toggle_next,
        Given, PulseOut, sourceVars, destinationVars, resetVars,
        EpisodeInv, SourceCleared, DestinationCleared, PulseInv, Resetting, UnderWay, Apart
<1>1. ASSUME NEW newLevel \in {0, 1}, NEW pulse \in BOOLEAN, SourceEdge(newLevel, pulse)
      PROVE PulseInv'
    BY <1>1 DEF SourceEdge
<1>2. ASSUME NEW newLevel \in {0, 1}, NEW pulse \in BOOLEAN, BothEdges(newLevel, pulse)
      PROVE PulseInv'
    BY <1>2 DEF BothEdges
<1>3. CASE DestinationEdge
    BY <1>3 DEF DestinationEdge
<1>4. CASE AssertReset
    BY <1>4 DEF AssertReset
<1>5. CASE ReleaseSource \/ ReleaseDestination
    BY <1>5 DEF ReleaseSource, ReleaseDestination
<1>6. CASE UNCHANGED vars
    BY <1>6 DEF vars
<1> QED
    BY <1>1, <1>2, <1>3, <1>4, <1>5, <1>6 DEF Next

(* All of it together is inductive.                                        *)
LEMMA WireStep == WireInv /\ [Next]_vars => WireInv'
    BY BitsStep, FlagsStep, EpisodeStep, LevelStep, PulseStep DEF WireInv

LEMMA WireInvariant == Spec => []WireInv
    BY WireInitInv, WireStep, PTL DEF Spec

(* What is promised of the crossings follows from it.                      *)
LEMMA WirePromises == WireInv => TypeOK /\ WiresExact
<1>1. WireInv => TypeOK
    BY DEF WireInv, Bits, Flags, TypeOK, PulseInv, UnderWay, Apart, Both
<1>2. WireInv => WiresExact
    BY DEF WireInv, Bits, PulseInv, LevelInv, WiresExact, NoPulseLost, LevelArrives, LevelOut
<1> QED
    BY <1>1, <1>2

(* The registers and the wires of the level and pulse crossings hold what  *)
(* they are meant to.                                                      *)
THEOREM WireTypeCorrect == Spec => []TypeOK
    BY WireInvariant, WirePromises, PTL

(* No pulse is lost, doubled or made up by a toggle crossing whose source  *)
(* keeps its spacing, and a level that is held long enough arrives, for    *)
(* every interleaving of the two clocks and of the resets.                 *)
THEOREM WiresExactHolds == Spec => []WiresExact
    BY WireInvariant, WirePromises, PTL
=============================================================================
