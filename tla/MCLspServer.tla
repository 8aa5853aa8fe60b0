---------------------------- MODULE MCLspServer ----------------------------
(***************************************************************************)
(* Small editor sessions.  A text is named for what it holds: an error, an *)
(* import of the other document or of a library file, or nothing of note.  *)
(***************************************************************************)
EXTENDS LspServer

CONSTANTS a, b, lib, clean, broken, imports, stuck

OneDoc == <<a>>
TwoDocs == <<a, b>>
Library1 == {lib}

ImportsOf == [t \in Texts |-> IF t = imports THEN {a, b, lib} \cap Files ELSE {}]
=============================================================================
