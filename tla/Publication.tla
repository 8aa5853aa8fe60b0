----------------------------- MODULE Publication -----------------------------
(***************************************************************************)
(* Publication of a whole-build manifest.  A build takes a snapshot of the *)
(* root source, writes the generated RTL and then the manifest, a record   *)
(* of the contents of both.  publish_manifest_atomically validates the     *)
(* files against the record, renames the manifest into place, validates    *)
(* again, and removes the manifest if a file has changed in between.       *)
(* Files are validated one after the other in the order of their logical   *)
(* paths: the RTL is backends/..., the root source is sources/root.zhl, so *)
(* the RTL is compared first, both times.  Meanwhile users edit files and  *)
(* other builds write the same paths.                                      *)
(*                                                                         *)
(* Contents are named by the source they come from: the RTL that is        *)
(* generated from source v is named v as well, and a file edited by hand   *)
(* is like no other.                                                       *)
(***************************************************************************)
EXTENDS Naturals

CONSTANTS Builds,
          SourceVersions,   \* contents of the root source
          Missing,          \* no file, no manifest
          ByHand            \* RTL that no build generated

ASSUME PublicationAssumption ==
    Missing \notin SourceVersions \cup Builds /\ ByHand \notin SourceVersions

VARIABLES
    source, rtl,    \* the physical files
    manifest,       \* the version that the manifest on disk records, or Missing
    at,             \* what each build is about to do
    snapshot,       \* the source that it compiled
    owner,          \* the last build to rename a manifest into place
    killed,         \* it was killed between its rename and its verdict
    touched         \* a file changed after every check that could have noticed

publicationVars == <<source, rtl, manifest, at, snapshot, owner, killed, touched>>

(* The steps of a build after the compilation, in order.                   *)
Steps == {"idle", "write", "record", "check rtl", "check source", "rename",
          "recheck rtl", "recheck source", "unlink", "published", "refused"}

PublicationInit ==
    /\ source \in SourceVersions /\ rtl = Missing /\ manifest = Missing
    /\ at = [b \in Builds |-> "idle"]
    /\ snapshot = [b \in Builds |-> Missing]
    /\ owner = Missing /\ killed = FALSE /\ touched = FALSE

GoesTo(b, step) == at' = [at EXCEPT ![b] = step]

(* A change of a file is noticed by the build that has renamed the         *)
(* manifest, if it has yet to check that file again: the source until the  *)
(* end, the RTL only before the source's turn.                             *)
Noticed(steps) == owner \in Builds /\ at[owner] \in steps
Touch(steps) == touched' = (touched \/ (manifest # Missing /\ ~Noticed(steps)))
RtlSteps == {"recheck rtl"}
SourceSteps == {"recheck rtl", "recheck source"}

Compile(b) ==
    /\ at[b] \in {"idle", "published", "refused"}
    /\ snapshot' = [snapshot EXCEPT ![b] = source]
    /\ GoesTo(b, "write")
    /\ UNCHANGED <<source, rtl, manifest, owner, killed, touched>>

WriteRtl(b) ==
    /\ at[b] = "write"
    /\ rtl' = snapshot[b]
    /\ IF rtl' = rtl THEN UNCHANGED touched ELSE Touch(RtlSteps)
    /\ GoesTo(b, "record")
    /\ UNCHANGED <<source, manifest, snapshot, owner, killed>>

(* The record takes the digest of the RTL from the file, and is refused if *)
(* that is not the digest of what was generated.                           *)
RecordRtl(b) ==
    /\ at[b] = "record"
    /\ GoesTo(b, IF rtl = snapshot[b] THEN "check rtl" ELSE "refused")
    /\ UNCHANGED <<source, rtl, manifest, snapshot, owner, killed, touched>>

(* The first validation: a mismatch refuses the build, and a manifest that *)
(* was there stays.                                                        *)
CheckRtl(b) ==
    /\ at[b] = "check rtl"
    /\ GoesTo(b, IF rtl = snapshot[b] THEN "check source" ELSE "refused")
    /\ UNCHANGED <<source, rtl, manifest, snapshot, owner, killed, touched>>

CheckSource(b) ==
    /\ at[b] = "check source"
    /\ GoesTo(b, IF source = snapshot[b] THEN "rename" ELSE "refused")
    /\ UNCHANGED <<source, rtl, manifest, snapshot, owner, killed, touched>>

(* The temporary file is written and synchronised, and replaces the        *)
(* manifest.                                                               *)
Rename(b) ==
    /\ at[b] = "rename"
    /\ manifest' = snapshot[b] /\ owner' = b
    /\ GoesTo(b, "recheck rtl")
    /\ touched' = FALSE /\ killed' = FALSE
    /\ UNCHANGED <<source, rtl, snapshot>>

(* The second validation: a mismatch removes the manifest.                 *)
RecheckRtl(b) ==
    /\ at[b] = "recheck rtl"
    /\ GoesTo(b, IF rtl = snapshot[b] THEN "recheck source" ELSE "unlink")
    /\ UNCHANGED <<source, rtl, manifest, snapshot, owner, killed, touched>>

(* Mutant: the source is not looked at again.                              *)
RecheckSource_passed(b) ==
    /\ at[b] = "recheck source"
    /\ GoesTo(b, "published")
    /\ UNCHANGED <<source, rtl, manifest, snapshot, owner, killed, touched>>
RecheckSource(b) ==
    /\ at[b] = "recheck source"
    /\ GoesTo(b, IF source = snapshot[b] THEN "published" ELSE "unlink")
    /\ UNCHANGED <<source, rtl, manifest, snapshot, owner, killed, touched>>

Unlink(b) ==
    /\ at[b] = "unlink"
    /\ manifest' = Missing
    /\ GoesTo(b, "refused")
    /\ UNCHANGED <<source, rtl, snapshot, owner, killed, touched>>

EditSource(v) ==
    /\ source' = v /\ v # source
    /\ Touch(SourceSteps)
    /\ UNCHANGED <<rtl, manifest, at, snapshot, owner, killed>>

EditRtl ==
    /\ rtl' = ByHand /\ rtl # ByHand
    /\ Touch(RtlSteps)
    /\ UNCHANGED <<source, manifest, at, snapshot, owner, killed>>

KillBuild(b) ==
    /\ at[b] \notin {"idle", "published", "refused"}
    /\ killed' = (killed \/ (b = owner /\ at[b] \in {"recheck rtl", "recheck source", "unlink"}))
    /\ GoesTo(b, "idle")
    /\ UNCHANGED <<source, rtl, manifest, snapshot, owner, touched>>

PublicationNext ==
    \/ \E b \in Builds :
          \/ Compile(b) \/ WriteRtl(b) \/ RecordRtl(b) \/ CheckRtl(b) \/ CheckSource(b)
          \/ Rename(b) \/ RecheckRtl(b) \/ RecheckSource(b) \/ Unlink(b) \/ KillBuild(b)
    \/ \E v \in SourceVersions : EditSource(v)
    \/ EditRtl

PublicationSpec == PublicationInit /\ [][PublicationNext]_publicationVars

-----------------------------------------------------------------------------
(* The files hold what some build, or somebody by hand, wrote to them, and *)
(* each build is at a step of publish_manifest_atomically.                 *)
PublicationTypeOK ==
    /\ source \in SourceVersions
    /\ rtl \in SourceVersions \cup {Missing, ByHand}
    /\ manifest \in SourceVersions \cup {Missing}
    /\ at \in [Builds -> Steps]
    /\ snapshot \in [Builds -> SourceVersions \cup {Missing}]
    /\ owner \in Builds \cup {Missing} /\ killed \in BOOLEAN /\ touched \in BOOLEAN

AtRest == \A b \in Builds : at[b] \in {"idle", "published", "refused"}

(* "The second validation closes the output-mutation window": once the     *)
(* builds have given their verdicts, a manifest on disk is true of the     *)
(* files on disk, or was left by a build that was killed before its        *)
(* verdict, or a file was changed after the last check that could have     *)
(* noticed.                                                                *)
RestingManifestTrue ==
    AtRest /\ manifest # Missing => \/ source = manifest /\ rtl = manifest
                                    \/ killed \/ touched
=============================================================================
