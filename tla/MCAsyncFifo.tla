---------------------------- MODULE MCAsyncFifo ----------------------------
(***************************************************************************)
(* The FIFO of four words; and the facts about Gray codes that it rests    *)
(* on, evaluated for several depths.                                       *)
(***************************************************************************)
EXTENDS AsyncFifo

CONSTANT Depths

Of(depth) == INSTANCE AsyncFifo WITH Depth <- depth

ASSUME GrayEvaluated == \A depth \in Depths : Of(depth)!GrayFacts
=============================================================================
