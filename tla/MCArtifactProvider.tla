------------------------- MODULE MCArtifactProvider -------------------------
(***************************************************************************)
(* One session with two threads and three recipes: a proof, which has a    *)
(* codec and so a file, a replay, which has only a fingerprint, and a      *)
(* route, which has neither.  What other sessions do to the files is among *)
(* what Tamper may do.                                                     *)
(***************************************************************************)
EXTENDS ArtifactProvider

CONSTANTS session, proof, replay, route

HomeOf == [t \in Threads |-> session]
=============================================================================
