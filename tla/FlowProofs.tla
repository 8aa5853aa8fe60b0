----------------------------- MODULE FlowProofs -----------------------------
(***************************************************************************)
(* Theorems about the flows that several processes take part in: the       *)
(* publication of a build, the execution of a verification bundle, the     *)
(* snapshots of a tooling session whose files others write, and the        *)
(* artifacts that threads and sessions share, each for any number of       *)
(* processes or writes; about the rule scheduler, for any number of rules  *)
(* and FIFOs of any depth; and at the end about all of them as MCFlows     *)
(* runs them.                                                              *)
(***************************************************************************)
EXTENDS MCFlows, SequenceTheorems, NumberProofs

-----------------------------------------------------------------------------
(* The publication of a manifest.  That a manifest at rest is true is not  *)
(* inductive: between the rename and the verdict the invariant must say    *)
(* what the owner of the manifest still has to compare, and that what it   *)
(* has compared agrees.                                                    *)

(* The steps between the rename of a manifest and the verdict on it.       *)
Reviewing == {"recheck rtl", "recheck source", "unlink"}

(* What is known of a manifest that nothing has touched since the checks   *)
(* passed by: its owner compares the files with the version that the       *)
(* manifest records; a file that it has compared agrees; and once it has   *)
(* given its verdict, both do.                                             *)
ManifestUnderReview ==
    manifest # Missing /\ ~touched /\ ~killed =>
        /\ at[owner] \in {"recheck rtl", "recheck source"} => snapshot[owner] = manifest
        /\ at[owner] = "recheck source" => rtl = manifest
        /\ at[owner] \notin Reviewing => source = manifest /\ rtl = manifest

PublicationInv ==
    /\ PublicationTypeOK
    /\ manifest # Missing => owner \in Builds
    /\ ManifestUnderReview

(* There is no manifest to begin with.                                     *)
LEMMA PublicationInitInv == PublicationInit => PublicationInv
BY DEF PublicationInit, PublicationInv, PublicationTypeOK, ManifestUnderReview, Steps

(* The steps of a build keep the files and its program counter what they   *)
(* are.                                                                    *)
LEMMA PublicationTypeStep ==
    PublicationTypeOK /\ [PublicationNext]_publicationVars => PublicationTypeOK'
<1> SUFFICES ASSUME PublicationTypeOK, [PublicationNext]_publicationVars
             PROVE PublicationTypeOK'
    OBVIOUS
<1> USE DEF PublicationTypeOK, Steps, GoesTo, Touch, Noticed, SourceSteps, RtlSteps
<1>1. ASSUME NEW b \in Builds, Compile(b) PROVE PublicationTypeOK'
    BY <1>1 DEF Compile
<1>2. ASSUME NEW b \in Builds, WriteRtl(b) PROVE PublicationTypeOK'
    BY <1>2 DEF WriteRtl
<1>3. ASSUME NEW b \in Builds, CheckSource(b) PROVE PublicationTypeOK'
    BY <1>3 DEF CheckSource
<1>4. ASSUME NEW b \in Builds, CheckRtl(b) PROVE PublicationTypeOK'
    BY <1>4 DEF CheckRtl
<1>5. ASSUME NEW b \in Builds, Rename(b) PROVE PublicationTypeOK'
    BY <1>5 DEF Rename
<1>6. ASSUME NEW b \in Builds, RecheckSource(b) PROVE PublicationTypeOK'
    BY <1>6 DEF RecheckSource
<1>7. ASSUME NEW b \in Builds, RecheckRtl(b) PROVE PublicationTypeOK'
    BY <1>7 DEF RecheckRtl
<1>8. ASSUME NEW b \in Builds, Unlink(b) PROVE PublicationTypeOK'
    BY <1>8 DEF Unlink
<1>9. ASSUME NEW b \in Builds, KillBuild(b) PROVE PublicationTypeOK'
    BY <1>9 DEF KillBuild
<1>10. ASSUME NEW v \in SourceVersions, EditSource(v) PROVE PublicationTypeOK'
    BY <1>10 DEF EditSource
<1>11. CASE EditRtl
    BY <1>11 DEF EditRtl
<1>12. CASE UNCHANGED publicationVars
    BY <1>12 DEF publicationVars
<1>13. ASSUME NEW b \in Builds, RecordRtl(b) PROVE PublicationTypeOK'
    BY <1>13 DEF RecordRtl
<1> QED
    BY <1>1, <1>2, <1>3, <1>4, <1>5, <1>6, <1>7, <1>8, <1>9, <1>10, <1>11, <1>12, <1>13
    DEF PublicationNext

(* Only the owner of a manifest passes a verdict on it, and a rename makes *)
(* the one who renames its owner.                                          *)
LEMMA PublicationStep ==
    PublicationInv /\ [PublicationNext]_publicationVars => PublicationInv'
<1> SUFFICES ASSUME PublicationInv, [PublicationNext]_publicationVars
             PROVE PublicationInv'
    OBVIOUS
<1>0. PublicationTypeOK /\ PublicationTypeOK'
    BY PublicationTypeStep DEF PublicationInv
<1> DEFINE Goal == (manifest # Missing => owner \in Builds)' /\ ManifestUnderReview'
<1> USE <1>0 DEF PublicationInv, PublicationTypeOK, ManifestUnderReview, Reviewing,
        GoesTo, Touch, Noticed, SourceSteps, RtlSteps
<1>1. ASSUME NEW b \in Builds, Compile(b) PROVE Goal
    BY <1>1 DEF Compile
<1>2. ASSUME NEW b \in Builds, WriteRtl(b) PROVE Goal
    BY <1>2 DEF WriteRtl
<1>3. ASSUME NEW b \in Builds, CheckSource(b) PROVE Goal
    BY <1>3 DEF CheckSource
<1>4. ASSUME NEW b \in Builds, CheckRtl(b) PROVE Goal
    BY <1>4 DEF CheckRtl
<1>5. ASSUME NEW b \in Builds, Rename(b) PROVE Goal
    BY <1>5 DEF Rename
<1>6. ASSUME NEW b \in Builds, RecheckSource(b) PROVE Goal
    BY <1>6 DEF RecheckSource
<1>7. ASSUME NEW b \in Builds, RecheckRtl(b) PROVE Goal
    BY <1>7 DEF RecheckRtl
<1>8. ASSUME NEW b \in Builds, Unlink(b) PROVE Goal
    BY <1>8 DEF Unlink
<1>9. ASSUME NEW b \in Builds, KillBuild(b) PROVE Goal
    BY <1>9 DEF KillBuild
<1>10. ASSUME NEW v \in SourceVersions, EditSource(v) PROVE Goal
    BY <1>10 DEF EditSource
<1>11. CASE EditRtl
    BY <1>11 DEF EditRtl
<1>12. CASE UNCHANGED publicationVars
    BY <1>12 DEF publicationVars
<1>13. ASSUME NEW b \in Builds, RecordRtl(b) PROVE Goal
    BY <1>13 DEF RecordRtl
<1>14. Goal
    BY <1>1, <1>2, <1>3, <1>4, <1>5, <1>6, <1>7, <1>8, <1>9, <1>10, <1>11, <1>12, <1>13
    DEF PublicationNext
<1> QED
    BY <1>14

(* A manifest at rest, which nothing has touched since the checks of its   *)
(* publication passed by, describes the sources and the RTL that are       *)
(* there, for any number of builds that write to the same paths and for    *)
(* any versions.                                                           *)
THEOREM RestingManifestTrueHolds == PublicationSpec => []RestingManifestTrue
<1>1. PublicationInv => RestingManifestTrue
    BY DEF PublicationInv, PublicationTypeOK, ManifestUnderReview, Reviewing, RestingManifestTrue, AtRest
<1> QED
    BY <1>1, PublicationInitInv, PublicationStep, PTL DEF PublicationSpec

-----------------------------------------------------------------------------
(* The execution of a verification bundle.  That a report is true rests on *)
(* the results collected so far, these on the cache and on the files of    *)
(* the execution root, and those on the lease of the root being held by    *)
(* one process.                                                            *)

Passed == {"bounded_pass", "proven"}

(* A process at work holds the lease of its execution root, and holds it   *)
(* alone.                                                                  *)
LeaseIsExclusive ==
    \A p \in Processes : stage[p] \in {"running", "publishing"} => lease[mode[p]] = {p}

(* What the cache keeps is the answer to the question it is filed under.   *)
CacheIsTrue ==
    \A j \in Jobs, m \in Modes :
        cache[<<j, m>>] \in DecisiveStatuses => cache[<<j, m>>] = Answer(j, m)

(* So is every decisive result of a run, for the mode of the run.          *)
ResultsAreTrue ==
    \A p \in Processes, j \in Jobs :
        results[p][j] \in DecisiveStatuses => results[p][j] = Answer(j, mode[p])

(* The revised results of a bounded run claim no vacuous success.          *)
RevisedResults ==
    \A p \in Processes, j \in SafetyJobs :
        stage[p] = "publishing" /\ mode[p] = "bmc"
            /\ results[p][j] \in Passed /\ Feasibility[j] # NoJob
        => results[p][Feasibility[j]] = "witnessed"

(* A process is in proof mode on the strength of its bounded report: every *)
(* safety job passed in it, and no pass was vacuous.                       *)
ProofIsFounded ==
    \A p \in Processes : mode[p] = "prove" =>
        \A j \in SafetyJobs :
            /\ bounded[p][j] = "bounded_pass"
            /\ Feasibility[j] # NoJob => /\ bounded[p][Feasibility[j]] = "witnessed"
                                         /\ truth[Feasibility[j]] = "reached"

(* Covers are reached or not; safety properties hold or not.               *)
KindsOfTruth == \A j \in Jobs : truth[j] \in {"reached", "not reached"} <=> j \in CoverJobs

RunInv ==
    /\ VerificationTypeOK /\ KindsOfTruth /\ LeaseIsExclusive /\ CacheIsTrue
    /\ ResultsAreTrue /\ RevisedResults /\ ProofIsFounded /\ ReportsAreSound

-----------------------------------------------------------------------------
(* What a solver can answer to a cover, and to a safety job below.         *)
LEMMA CoverAnswer ==
    ASSUME truth \in [Jobs -> Truths], KindsOfTruth, NEW j \in CoverJobs, NEW m \in Modes
    PROVE  /\ Answer(j, m) \in {"witnessed", "bounded_unreached"}
           /\ Answer(j, m) = "witnessed" => truth[j] = "reached"
           /\ Answer(j, m) = Answer(j, "bmc")
BY DEF Answer, KindsOfTruth, CoverJobs, Truths

LEMMA SafetyAnswer ==
    ASSUME truth \in [Jobs -> Truths], KindsOfTruth, NEW j \in SafetyJobs, NEW m \in Modes
    PROVE  /\ Answer(j, m) \in {"failed", "bounded_pass", "proven"}
           /\ Answer(j, "bmc") # "proven"
BY VerificationAssumption DEF Answer, KindsOfTruth, CoverJobs, Truths

LEMMA AnswerStays ==
    ASSUME truth' = truth, NEW j, NEW m
    PROVE  Answer(j, m)' = Answer(j, m)
BY DEF Answer

(* The results of a run are numbered.                                      *)
LEMMA JobCount ==
    /\ Len(JobOrder) \in Nat /\ 0 \in 0..Len(JobOrder)
    /\ \A n \in 0..Len(JobOrder) : n < Len(JobOrder) => n + 1 \in 0..Len(JobOrder)
<1>1. Len(JobOrder) \in Nat
    BY VerificationAssumption, LenProperties
<1> QED
    BY <1>1

(* No process has begun.                                                   *)
LEMMA RunInitInv == VerificationInit => RunInv
<1> SUFFICES ASSUME VerificationInit PROVE RunInv
    OBVIOUS
<1> USE DEF VerificationInit, Pending, NoReport, Keys, Modes
<1>1. VerificationTypeOK
  <2>2. executable \subseteq Jobs
    OBVIOUS
  <2>3. cache \in [Keys -> Statuses \cup {"absent", "damaged"}]
    OBVIOUS
  <2>4. /\ results \in [Processes -> [Jobs -> Statuses \cup {"pending"}]]
        /\ bounded \in [Processes -> [Jobs -> Statuses \cup {"none", "pending"}]]
        /\ report \in [Processes -> [Jobs -> Statuses \cup {"none", "pending"}]]
    OBVIOUS
  <2>5. published \in [Processes -> 0..Len(JobOrder)]
    BY JobCount
  <2> QED
    BY <2>2, <2>3, <2>4, <2>5 DEF VerificationTypeOK
<1>2. KindsOfTruth /\ LeaseIsExclusive /\ CacheIsTrue
    BY DEF KindsOfTruth, LeaseIsExclusive, CacheIsTrue, DecisiveStatuses
<1>3. ResultsAreTrue /\ RevisedResults /\ ProofIsFounded
    BY DEF ResultsAreTrue, RevisedResults, ProofIsFounded, DecisiveStatuses
<1>4. ReportsAreSound
    BY VerificationAssumption DEF ReportsAreSound, DecisiveStatuses
<1> QED
    BY <1>1, <1>2, <1>3, <1>4 DEF RunInv

(* What a solver may report is a status.                                   *)
LEMMA ExecuteStatus ==
    ASSUME VerificationTypeOK, KindsOfTruth, NEW p \in Processes, NEW j \in Jobs
    PROVE  Solved(p, j) \subseteq Statuses
<1>1. mode[p] \in Modes
    BY DEF VerificationTypeOK
<1>2. Answer(j, mode[p]) \in Statuses
  <2>1. CASE j \in CoverJobs
    BY <1>1, <2>1, CoverAnswer DEF VerificationTypeOK, Statuses, DecisiveStatuses
  <2>2. CASE j \in SafetyJobs
    BY <1>1, <2>2, SafetyAnswer DEF VerificationTypeOK, Statuses, DecisiveStatuses
  <2> QED
    BY <2>1, <2>2 DEF CoverJobs
<1> QED
    BY <1>2 DEF Solved, Statuses

(* The states that a process can be in are kept by each of its steps.      *)
LEMMA RunTypeStep ==
    VerificationTypeOK /\ KindsOfTruth /\ [VerificationNext]_verificationVars
    => VerificationTypeOK' /\ KindsOfTruth' /\ truth' = truth
<1> SUFFICES ASSUME VerificationTypeOK, KindsOfTruth, [VerificationNext]_verificationVars
             PROVE  VerificationTypeOK' /\ KindsOfTruth' /\ truth' = truth
    OBVIOUS
<1> USE VerificationAssumption
<1>1. truth' = truth
    BY DEF VerificationNext, AcquireLease, Raise, Revise, Publish, FinishBounded, FinishProof,
       Killed, RunAgain, Execute, StartsOver, DamageResult, verificationVars
<1>2. KindsOfTruth'
    BY <1>1 DEF KindsOfTruth
<1>3. ASSUME NEW p \in Processes, AcquireLease(p) PROVE VerificationTypeOK'
    BY <1>3 DEF AcquireLease, Enters, VerificationTypeOK
<1>4. ASSUME NEW p \in Processes, NEW j \in Jobs, Execute(p, j) PROVE VerificationTypeOK'
  <2>1. PICK s \in Statuses : results' = [results EXCEPT ![p][j] = s]
    BY <1>4, ExecuteStatus DEF Execute, Statuses
  <2>2. results' \in [Processes -> [Jobs -> Statuses \cup {"pending"}]]
    BY <2>1 DEF VerificationTypeOK
  <2>3. hits' \in [Processes -> SUBSET Jobs]
    BY <1>4 DEF Execute, VerificationTypeOK
  <2> QED
    BY <1>4, <2>2, <2>3 DEF Execute, VerificationTypeOK
<1>5. ASSUME NEW p \in Processes, StartsOver(p) PROVE VerificationTypeOK'
    BY <1>5, JobCount DEF StartsOver, VerificationTypeOK, Pending, NoReport, Modes
<1>6. ASSUME NEW p \in Processes, Revise(p) PROVE VerificationTypeOK'
  <2>1. Revised(p) \in [Jobs -> Statuses \cup {"pending"}]
    BY DEF Revised, VerificationTypeOK, Statuses
  <2> QED
    BY <1>6, <2>1 DEF Revise, Enters, VerificationTypeOK
<1>7. ASSUME NEW p \in Processes, Publish(p) PROVE VerificationTypeOK'
  <2>1. cache' \in [Keys -> Statuses \cup {"absent", "damaged"}]
    BY <1>7 DEF Publish, VerificationTypeOK, Statuses
  <2>2. published' \in [Processes -> 0..Len(JobOrder)]
    BY <1>7, JobCount DEF Publish, VerificationTypeOK
  <2> QED
    BY <1>7, <2>1, <2>2 DEF Publish, VerificationTypeOK
<1>8. ASSUME NEW p \in Processes, FinishBounded(p) PROVE VerificationTypeOK'
  <2>1. results[p] \in [Jobs -> Statuses \cup {"none", "pending"}]
    BY DEF VerificationTypeOK
  <2>2. /\ bounded' \in [Processes -> [Jobs -> Statuses \cup {"none", "pending"}]]
        /\ report' \in [Processes -> [Jobs -> Statuses \cup {"none", "pending"}]]
    BY <1>8, <2>1 DEF FinishBounded, VerificationTypeOK
  <2>3. /\ results' \in [Processes -> [Jobs -> Statuses \cup {"pending"}]]
        /\ hits' \in [Processes -> SUBSET Jobs]
        /\ published' \in [Processes -> 0..Len(JobOrder)]
    BY <1>8, JobCount DEF FinishBounded, VerificationTypeOK, Pending
  <2>4. /\ stage' \in [Processes -> {"waiting", "running", "publishing", "done"}]
        /\ mode' \in [Processes -> Modes] /\ lease' \in [Modes -> SUBSET Processes]
    BY <1>8 DEF FinishBounded, VerificationTypeOK, Enters, Modes
  <2> QED
    BY <1>8, <2>2, <2>3, <2>4 DEF FinishBounded, VerificationTypeOK
<1>9. ASSUME NEW p \in Processes, FinishProof(p) PROVE VerificationTypeOK'
  <2>1. [j \in Jobs |-> IF j \in SafetyJobs THEN results[p][j] ELSE bounded[p][j]]
            \in [Jobs -> Statuses \cup {"none", "pending"}]
    BY DEF VerificationTypeOK
  <2>2. report' \in [Processes -> [Jobs -> Statuses \cup {"none", "pending"}]]
    BY <1>9, <2>1 DEF FinishProof, VerificationTypeOK
  <2>3. /\ results' \in [Processes -> [Jobs -> Statuses \cup {"pending"}]]
        /\ hits' \in [Processes -> SUBSET Jobs]
        /\ published' \in [Processes -> 0..Len(JobOrder)]
    BY <1>9, JobCount DEF FinishProof, VerificationTypeOK, Pending
  <2>4. /\ stage' \in [Processes -> {"waiting", "running", "publishing", "done"}]
        /\ lease' \in [Modes -> SUBSET Processes]
    BY <1>9 DEF FinishProof, VerificationTypeOK, Enters, Modes
  <2> QED
    BY <1>9, <2>2, <2>3, <2>4 DEF FinishProof, VerificationTypeOK
<1>10. ASSUME NEW k \in Keys, DamageResult(k) PROVE VerificationTypeOK'
    BY <1>10 DEF DamageResult, VerificationTypeOK, runVars
<1>11. CASE UNCHANGED verificationVars
  <2>1. /\ truth' = truth /\ executable' = executable /\ cache' = cache
        /\ lease' = lease /\ stage' = stage /\ mode' = mode /\ results' = results
        /\ hits' = hits /\ published' = published /\ bounded' = bounded /\ report' = report
    BY <1>11 DEF verificationVars, runVars
  <2> QED
    BY <1>2, <2>1 DEF VerificationTypeOK
<1> QED
    BY <1>1, <1>2, <1>3, <1>4, <1>5, <1>6, <1>7, <1>8, <1>9, <1>10, <1>11
    DEF VerificationNext, Raise, Killed, RunAgain

(* The lease of an execution root: only a process that finds it free takes *)
(* it, and a process gives back no lease but its own.                      *)
LEMMA LeaseStep ==
    RunInv /\ [VerificationNext]_verificationVars => LeaseIsExclusive'
<1> SUFFICES ASSUME RunInv, [VerificationNext]_verificationVars,
                    NEW q \in Processes, stage'[q] \in {"running", "publishing"}
             PROVE  lease'[mode'[q]] = {q}
    BY DEF LeaseIsExclusive
<1>0. /\ VerificationTypeOK /\ LeaseIsExclusive
      /\ mode[q] \in Modes /\ stage[q] \in {"waiting", "running", "publishing", "done"}
    BY DEF RunInv, VerificationTypeOK
<1> USE <1>0 DEF VerificationTypeOK, LeaseIsExclusive, Enters
<1>1. ASSUME NEW p \in Processes, AcquireLease(p) PROVE lease'[mode'[q]] = {q}
    BY <1>1 DEF AcquireLease
<1>2. ASSUME NEW p \in Processes, NEW j \in Jobs, Execute(p, j) PROVE lease'[mode'[q]] = {q}
    BY <1>2 DEF Execute
<1>3. ASSUME NEW p \in Processes, StartsOver(p) PROVE lease'[mode'[q]] = {q}
    BY <1>3 DEF StartsOver
<1>4. ASSUME NEW p \in Processes, Revise(p) PROVE lease'[mode'[q]] = {q}
    BY <1>4 DEF Revise
<1>5. ASSUME NEW p \in Processes, Publish(p) PROVE lease'[mode'[q]] = {q}
    BY <1>5 DEF Publish
<1>6. ASSUME NEW p \in Processes, FinishBounded(p) PROVE lease'[mode'[q]] = {q}
  <2>1. q # p /\ mode'[q] = mode[q] /\ stage'[q] = stage[q]
    BY <1>6 DEF FinishBounded
  <2>2. lease[mode[q]] = {q} /\ lease["bmc"] = {p}
    BY <1>6, <2>1 DEF FinishBounded, AllPublished
  <2> QED
    BY <1>6, <2>1, <2>2 DEF FinishBounded, Modes
<1>7. ASSUME NEW p \in Processes, FinishProof(p) PROVE lease'[mode'[q]] = {q}
  <2>1. q # p /\ mode'[q] = mode[q] /\ stage'[q] = stage[q]
    BY <1>7 DEF FinishProof
  <2>2. lease[mode[q]] = {q} /\ lease["prove"] = {p}
    BY <1>7, <2>1 DEF FinishProof, AllPublished
  <2> QED
    BY <1>7, <2>1, <2>2 DEF FinishProof, Modes
<1>8. ASSUME NEW k \in Keys, DamageResult(k) PROVE lease'[mode'[q]] = {q}
    BY <1>8 DEF DamageResult, runVars
<1>9. CASE UNCHANGED verificationVars
    BY <1>9 DEF verificationVars, runVars
<1> QED
    BY <1>1, <1>2, <1>3, <1>4, <1>5, <1>6, <1>7, <1>8, <1>9
    DEF VerificationNext, Raise, Killed, RunAgain

(* The modes of the identities of the results.                             *)
LEMMA ModeOfAnswer ==
    ASSUME truth \in [Jobs -> Truths], KindsOfTruth, NEW j \in Jobs, NEW m \in Modes
    PROVE  ModeOf(j, m) \in Modes /\ Answer(j, ModeOf(j, m)) = Answer(j, m)
BY CoverAnswer DEF ModeOf, Modes

(* What goes into the cache is a decisive result, under its own identity.  *)
LEMMA CacheStep ==
    RunInv /\ [VerificationNext]_verificationVars => CacheIsTrue'
<1> SUFFICES ASSUME RunInv, [VerificationNext]_verificationVars,
                    NEW i \in Jobs, NEW m \in Modes, cache'[<<i, m>>] \in DecisiveStatuses
             PROVE  cache'[<<i, m>>] = Answer(i, m)
    BY RunTypeStep, AnswerStays DEF RunInv, CacheIsTrue
<1>0. VerificationTypeOK /\ KindsOfTruth /\ CacheIsTrue /\ ResultsAreTrue
    BY DEF RunInv
<1>1. CASE cache' = cache
    BY <1>0, <1>1 DEF CacheIsTrue
<1>2. ASSUME NEW p \in Processes, Publish(p) PROVE cache'[<<i, m>>] = Answer(i, m)
  <2> DEFINE j == JobOrder[published[p] + 1]
             key == <<j, ModeOf(j, mode[p])>>
  <2>1. CASE j \in selected_jobs(p) \ hits[p] /\ results[p][j] \in DecisiveStatuses
    <3>1. j \in Jobs /\ mode[p] \in Modes
        BY <2>1, <1>0, VerificationAssumption DEF selected_jobs, VerificationTypeOK
    <3>2. cache' = [cache EXCEPT ![key] = results[p][j]]
        BY <1>2, <2>1 DEF Publish
    <3>3. results[p][j] = Answer(j, ModeOf(j, mode[p])) /\ ModeOf(j, mode[p]) \in Modes
        BY <1>0, <2>1, <3>1, ModeOfAnswer DEF ResultsAreTrue, VerificationTypeOK
    <3> HIDE DEF j
    <3>4. key \in Keys /\ <<i, m>> \in Keys
        BY <3>1, <3>3 DEF Keys
    <3>5. CASE <<i, m>> = key
        <4>1. i = j /\ m = ModeOf(j, mode[p])
            BY <3>5
        <4> QED
            BY <4>1, <3>2, <3>3, <3>4, <1>0 DEF VerificationTypeOK
    <3>6. CASE <<i, m>> # key
        <4>1. cache'[<<i, m>>] = cache[<<i, m>>]
            BY <3>6, <3>2, <3>4, <1>0 DEF VerificationTypeOK
        <4> QED
            BY <4>1, <1>0 DEF CacheIsTrue
    <3> QED
        BY <3>5, <3>6
  <2> QED
    BY <1>1, <1>2, <2>1 DEF Publish
<1>3. ASSUME NEW k \in Keys, DamageResult(k) PROVE cache'[<<i, m>>] = Answer(i, m)
  <2>1. <<i, m>> \in Keys
    BY DEF Keys
  <2>2. <<i, m>> # k /\ cache'[<<i, m>>] = cache[<<i, m>>]
    BY <1>0, <1>3, <2>1 DEF DamageResult, VerificationTypeOK, DecisiveStatuses
  <2> QED
    BY <1>0, <2>2 DEF CacheIsTrue
<1> QED
    BY <1>1, <1>2, <1>3 DEF VerificationNext, AcquireLease, Raise, Revise, FinishBounded,
       FinishProof, Killed, RunAgain, Execute, StartsOver, verificationVars

(* A job is answered with the truth: by the cache, or by a solver whose    *)
(* files no other process writes.                                          *)
LEMMA ExecuteIsTrue ==
    ASSUME RunInv, NEW p \in Processes, NEW j \in Jobs, Execute(p, j)
    PROVE  \E s \in Statuses : /\ results' = [results EXCEPT ![p][j] = s]
                               /\ s \in DecisiveStatuses => s = Answer(j, mode[p])
<1>0. VerificationTypeOK /\ KindsOfTruth /\ CacheIsTrue /\ LeaseIsExclusive /\ mode[p] \in Modes
    BY DEF RunInv, VerificationTypeOK
<1> DEFINE known == cache[<<j, ModeOf(j, mode[p])>>]
<1>1. known \in DecisiveStatuses => known = Answer(j, mode[p])
    BY <1>0, ModeOfAnswer DEF CacheIsTrue, VerificationTypeOK
<1>2. Solved(p, j) = {Answer(j, mode[p]), "unknown"} /\ Solved(p, j) \subseteq Statuses
    BY <1>0, ExecuteStatus DEF Solved, LeaseIsExclusive, Execute
<1>3. "unknown" \notin DecisiveStatuses /\ "skipped" \notin DecisiveStatuses
      /\ "skipped" \in Statuses /\ DecisiveStatuses \subseteq Statuses
    BY DEF DecisiveStatuses, Statuses
<1> HIDE DEF known
<1>4. \E s \in CASE j \notin executable -> {"skipped"}
                 [] j \in executable /\ known \in DecisiveStatuses -> {known}
                 [] OTHER -> Solved(p, j) :
          results' = [results EXCEPT ![p][j] = s]
    BY DEF Execute, known
<1> QED
    BY <1>1, <1>2, <1>3, <1>4

(* The results that a process has collected stay true.                     *)
LEMMA ResultsStep ==
    RunInv /\ [VerificationNext]_verificationVars => ResultsAreTrue'
<1> SUFFICES ASSUME RunInv, [VerificationNext]_verificationVars,
                    NEW q \in Processes, NEW i \in Jobs, results'[q][i] \in DecisiveStatuses
             PROVE  results'[q][i] = Answer(i, mode'[q])
    BY RunTypeStep, AnswerStays DEF RunInv, ResultsAreTrue
<1>0. VerificationTypeOK /\ ResultsAreTrue
    BY DEF RunInv
<1> USE <1>0 DEF VerificationTypeOK, ResultsAreTrue
<1>1. CASE results' = results /\ mode' = mode
    BY <1>1
<1>2. ASSUME NEW p \in Processes, NEW j \in Jobs, Execute(p, j)
      PROVE results'[q][i] = Answer(i, mode'[q])
  <2>1. PICK s \in Statuses : /\ results' = [results EXCEPT ![p][j] = s]
                              /\ s \in DecisiveStatuses => s = Answer(j, mode[p])
    BY <1>2, ExecuteIsTrue
  <2>2. mode' = mode
    BY <1>2 DEF Execute
  <2>3. CASE q = p /\ i = j
    BY <2>1, <2>2, <2>3
  <2>4. CASE ~(q = p /\ i = j)
    <3>1. results'[q][i] = results[q][i]
        BY <2>1, <2>4
    <3> QED
        BY <2>2, <3>1
  <2> QED
    BY <2>3, <2>4
<1>3. ASSUME NEW p \in Processes, Revise(p) PROVE results'[q][i] = Answer(i, mode'[q])
  <2>1. results'[q][i] \in {results[q][i], "unknown"} /\ mode' = mode
    BY <1>3 DEF Revise, Revised
  <2> QED
    BY <2>1 DEF DecisiveStatuses
<1>4. ASSUME NEW p \in Processes, results' = [results EXCEPT ![p] = Pending],
             q # p => mode'[q] = mode[q]
      PROVE results'[q][i] = Answer(i, mode'[q])
  <2>1. q # p /\ results'[q] = results[q]
    BY <1>4 DEF Pending, DecisiveStatuses
  <2> QED
    BY <1>4, <2>1
<1>5. ASSUME NEW p \in Processes, \/ StartsOver(p) \/ FinishBounded(p) \/ FinishProof(p)
      PROVE results'[q][i] = Answer(i, mode'[q])
  <2>1. results' = [results EXCEPT ![p] = Pending] /\ (q # p => mode'[q] = mode[q])
    BY <1>5 DEF StartsOver, FinishBounded, FinishProof
  <2> QED
    BY <1>4, <2>1
<1>6. ASSUME NEW p \in Processes, AcquireLease(p) \/ Publish(p)
      PROVE results'[q][i] = Answer(i, mode'[q])
    BY <1>1, <1>6 DEF AcquireLease, Publish
<1>7. ASSUME NEW k \in Keys, DamageResult(k) PROVE results'[q][i] = Answer(i, mode'[q])
    BY <1>1, <1>7 DEF DamageResult, runVars
<1>8. CASE UNCHANGED verificationVars
    BY <1>1, <1>8 DEF verificationVars, runVars
<1> QED
    BY <1>2, <1>3, <1>5, <1>6, <1>7, <1>8 DEF VerificationNext, Raise, Killed, RunAgain

(* A bounded run that is done has an answer to every job, so that a cover  *)
(* that does not call for a revision was witnessed.                        *)
LEMMA RevisedStep ==
    RunInv /\ [VerificationNext]_verificationVars => RevisedResults'
<1> SUFFICES ASSUME RunInv, [VerificationNext]_verificationVars,
                    NEW q \in Processes, NEW i \in SafetyJobs,
                    stage'[q] = "publishing", mode'[q] = "bmc",
                    results'[q][i] \in Passed, Feasibility[i] # NoJob
             PROVE  results'[q][Feasibility[i]] = "witnessed"
    BY DEF RevisedResults
<1>0. VerificationTypeOK /\ KindsOfTruth /\ ResultsAreTrue /\ RevisedResults
    BY DEF RunInv
<1>a. i \in Jobs /\ Feasibility[i] \in CoverJobs /\ Feasibility[i] \in Jobs
    BY VerificationAssumption DEF CoverJobs
<1> USE <1>0, <1>a DEF VerificationTypeOK
<1>1. CASE results'[q] = results[q] /\ stage'[q] = stage[q] /\ mode'[q] = mode[q]
    BY <1>1 DEF RevisedResults
<1>2. ASSUME NEW p \in Processes, Revise(p)
      PROVE results'[q][Feasibility[i]] = "witnessed"
  <2>1. CASE q # p
    BY <1>1, <1>2, <2>1 DEF Revise, Enters
  <2>2. CASE q = p
    <3> DEFINE c == Feasibility[i]
    <3>1. results'[q] = Revised(q) /\ mode[q] = "bmc"
        BY <1>2, <2>2 DEF Revise
    <3>2. results'[q][c] = results[q][c]
        BY <3>1 DEF Revised, CoverJobs
    <3>3. results[q][i] \in Passed
          /\ results[q][c] \notin {"bounded_unreached", "unknown", "skipped"}
        BY <3>1 DEF Revised, Passed
    <3>4. results[q][c] \in Statuses
        BY <1>2, <2>2, <3>1 DEF Revise, selected_jobs
    <3>5. results[q][c] = Answer(c, "bmc")
        BY <3>1, <3>3, <3>4 DEF ResultsAreTrue, Statuses
    <3>6. Answer(c, "bmc") \in {"witnessed", "bounded_unreached"}
        BY CoverAnswer DEF Modes
    <3> QED
        BY <3>2, <3>3, <3>5, <3>6
  <2> QED
    BY <2>1, <2>2
<1>3. ASSUME NEW p \in Processes, NEW j \in Jobs, Execute(p, j)
      PROVE results'[q][Feasibility[i]] = "witnessed"
  <2>1. q # p
    BY <1>3 DEF Execute
  <2>2. PICK s \in Statuses : results' = [results EXCEPT ![p][j] = s]
    BY <1>3, ExecuteIsTrue
  <2> QED
    BY <1>1, <1>3, <2>1, <2>2 DEF Execute
<1>4. ASSUME NEW p \in Processes,
             \/ StartsOver(p) \/ FinishBounded(p) \/ FinishProof(p) \/ AcquireLease(p) \/ Publish(p)
      PROVE results'[q][Feasibility[i]] = "witnessed"
  <2>1. CASE q # p
    BY <1>1, <1>4, <2>1 DEF StartsOver, FinishBounded, FinishProof, AcquireLease, Publish, Enters
  <2>2. CASE q = p
    BY <1>1, <1>4, <2>2 DEF StartsOver, FinishBounded, FinishProof, AcquireLease, Publish, Enters
  <2> QED
    BY <2>1, <2>2
<1>5. ASSUME NEW k \in Keys, DamageResult(k) PROVE results'[q][Feasibility[i]] = "witnessed"
    BY <1>1, <1>5 DEF DamageResult, runVars
<1>6. CASE UNCHANGED verificationVars
    BY <1>1, <1>6 DEF verificationVars, runVars
<1> QED
    BY <1>2, <1>3, <1>4, <1>5, <1>6 DEF VerificationNext, Raise, Killed, RunAgain

(* The results of a bounded run that justify its proof.                    *)
LEMMA BoundedFounds ==
    ASSUME RunInv, NEW p \in Processes, NEW j \in SafetyJobs,
           stage[p] = "publishing", mode[p] = "bmc",
           results[p][j] \in Passed, Feasibility[j] # NoJob
    PROVE  /\ results[p][Feasibility[j]] = "witnessed"
           /\ truth[Feasibility[j]] = "reached"
<1>1. Feasibility[j] \in CoverJobs /\ Feasibility[j] \in Jobs
    BY VerificationAssumption DEF CoverJobs
<1>2. results[p][Feasibility[j]] = "witnessed"
    BY DEF RunInv, RevisedResults
<1>3. Answer(Feasibility[j], "bmc") = "witnessed"
    BY <1>1, <1>2 DEF RunInv, ResultsAreTrue, DecisiveStatuses
<1> QED
    BY <1>1, <1>2, <1>3, CoverAnswer DEF RunInv, VerificationTypeOK, Modes

(* A proof is begun from a bounded run that passed, and keeps its results. *)
LEMMA ProofStep ==
    RunInv /\ [VerificationNext]_verificationVars => ProofIsFounded'
<1> SUFFICES ASSUME RunInv, [VerificationNext]_verificationVars,
                    NEW q \in Processes, mode'[q] = "prove", NEW j \in SafetyJobs
             PROVE  /\ bounded'[q][j] = "bounded_pass"
                    /\ Feasibility[j] # NoJob => /\ bounded'[q][Feasibility[j]] = "witnessed"
                                                 /\ truth'[Feasibility[j]] = "reached"
    BY DEF ProofIsFounded
<1> DEFINE Goal == /\ bounded'[q][j] = "bounded_pass"
                   /\ Feasibility[j] # NoJob => /\ bounded'[q][Feasibility[j]] = "witnessed"
                                                /\ truth'[Feasibility[j]] = "reached"
<1>0. VerificationTypeOK /\ ProofIsFounded /\ truth' = truth
    BY RunTypeStep DEF RunInv
<1>1. CASE bounded'[q] = bounded[q] /\ mode'[q] = mode[q]
    BY <1>0, <1>1 DEF ProofIsFounded
<1>2. ASSUME NEW p \in Processes, FinishBounded(p) PROVE Goal
  <2>1. CASE q # p
    BY <1>0, <1>1, <1>2, <2>1 DEF FinishBounded, VerificationTypeOK
  <2>2. CASE q = p
    <3>1. ProofIsDue(p) /\ bounded'[q] = results[q] /\ stage[q] = "publishing" /\ mode[q] = "bmc"
        BY <1>0, <1>2, <2>2 DEF FinishBounded, AllPublished, VerificationTypeOK
    <3>2. results[q][j] = "bounded_pass"
        BY <2>2, <3>1 DEF ProofIsDue
    <3> QED
        BY <1>0, <3>1, <3>2, BoundedFounds DEF Passed
  <2> QED
    BY <2>1, <2>2
<1>3. ASSUME NEW p \in Processes, StartsOver(p) PROVE Goal
    BY <1>0, <1>1, <1>3 DEF StartsOver, VerificationTypeOK
<1>4. ASSUME NEW p \in Processes,
             \/ AcquireLease(p) \/ Revise(p) \/ Publish(p) \/ FinishProof(p)
             \/ \E i \in Jobs : Execute(p, i)
      PROVE Goal
    BY <1>1, <1>4 DEF AcquireLease, Revise, Publish, FinishProof, Execute
<1>5. ASSUME NEW k \in Keys, DamageResult(k) PROVE Goal
    BY <1>1, <1>5 DEF DamageResult, runVars
<1>6. CASE UNCHANGED verificationVars
    BY <1>1, <1>6 DEF verificationVars, runVars
<1>7. Goal
    BY <1>2, <1>3, <1>4, <1>5, <1>6 DEF VerificationNext, Raise, Killed, RunAgain
<1> QED
    BY <1>7

(* What a process may report, from what it has collected.                  *)
LEMMA ReportStep ==
    RunInv /\ [VerificationNext]_verificationVars => ReportsAreSound'
<1> DEFINE Sound(r, b, j) ==
        /\ r[j] \in DecisiveStatuses => r[j] \in {Answer(j, "bmc"), Answer(j, "prove")}
        /\ r[j] \in Passed /\ Feasibility[j] # NoJob =>
              /\ r[Feasibility[j]] = "witnessed"
              /\ truth[Feasibility[j]] = "reached"
        /\ r[j] = "proven" => \A other \in SafetyJobs : b[other] = "bounded_pass"
<1> SUFFICES ASSUME RunInv, [VerificationNext]_verificationVars,
                    NEW q \in Processes, NEW j \in SafetyJobs
             PROVE  Sound(report'[q], bounded'[q], j)
    BY RunTypeStep, AnswerStays DEF RunInv, ReportsAreSound, Passed
<1>0. /\ VerificationTypeOK /\ KindsOfTruth /\ ProofIsFounded /\ ResultsAreTrue
      /\ truth \in [Jobs -> Truths] /\ j \in Jobs
      /\ Feasibility[j] # NoJob => Feasibility[j] \in CoverJobs /\ Feasibility[j] \notin SafetyJobs
      /\ CoverJobs \subseteq Jobs
      /\ Sound(report[q], bounded[q], j)
    BY VerificationAssumption DEF RunInv, VerificationTypeOK, ReportsAreSound, Passed, CoverJobs
<1>1. CASE report'[q] = report[q] /\ bounded'[q] = bounded[q]
    BY <1>0, <1>1
<1>2. ASSUME NEW p \in Processes, FinishBounded(p)
      PROVE Sound(report'[q], bounded'[q], j)
  <2>1. CASE q # p
    BY <1>0, <1>1, <1>2, <2>1 DEF FinishBounded, VerificationTypeOK
  <2>2. CASE q = p /\ ProofIsDue(p)
    <3>1. report'[q] = report[q] /\ bounded'[q] = results[q]
        BY <1>0, <1>2, <2>2 DEF FinishBounded, VerificationTypeOK
    <3> QED
        BY <1>0, <2>2, <3>1 DEF ProofIsDue
  <2>3. CASE q = p /\ ~ProofIsDue(p)
    <3>1. report'[q] = results[q] /\ stage[q] = "publishing" /\ mode[q] = "bmc"
        BY <1>0, <1>2, <2>3 DEF FinishBounded, AllPublished, VerificationTypeOK
    <3>2. results[q][j] \in DecisiveStatuses => results[q][j] = Answer(j, "bmc")
        BY <1>0, <3>1 DEF ResultsAreTrue
    <3>3. Answer(j, "bmc") # "proven"
        BY <1>0, SafetyAnswer DEF Modes
    <3> QED
        BY <3>1, <3>2, <3>3, BoundedFounds DEF DecisiveStatuses
  <2> QED
    BY <2>1, <2>2, <2>3
<1>3. ASSUME NEW p \in Processes, FinishProof(p)
      PROVE Sound(report'[q], bounded'[q], j)
  <2>1. CASE q # p
    BY <1>0, <1>1, <1>3, <2>1 DEF FinishProof, VerificationTypeOK
  <2>2. CASE q = p
    <3>1. /\ report'[q] = [i \in Jobs |-> IF i \in SafetyJobs THEN results[q][i] ELSE bounded[q][i]]
          /\ bounded'[q] = bounded[q] /\ mode[q] = "prove"
        BY <1>0, <1>3, <2>2 DEF FinishProof, VerificationTypeOK
    <3>2. report'[q][j] = results[q][j]
          /\ (Feasibility[j] # NoJob => report'[q][Feasibility[j]] = bounded[q][Feasibility[j]])
        BY <1>0, <3>1
    <3>3. results[q][j] \in DecisiveStatuses => results[q][j] = Answer(j, "prove")
        BY <1>0, <3>1 DEF ResultsAreTrue
    <3> QED
        BY <1>0, <3>1, <3>2, <3>3 DEF ProofIsFounded
  <2> QED
    BY <2>1, <2>2
<1>4. ASSUME NEW p \in Processes, StartsOver(p)
      PROVE Sound(report'[q], bounded'[q], j)
  <2>1. CASE q # p
    BY <1>0, <1>1, <1>4, <2>1 DEF StartsOver, VerificationTypeOK
  <2>2. CASE q = p
    <3>1. report'[q][j] = "none"
        BY <1>0, <1>4, <2>2 DEF StartsOver, VerificationTypeOK, NoReport
    <3> QED
        BY <3>1 DEF DecisiveStatuses, Passed
  <2> QED
    BY <2>1, <2>2
<1>5. ASSUME NEW p \in Processes,
             \/ AcquireLease(p) \/ Revise(p) \/ Publish(p) \/ \E i \in Jobs : Execute(p, i)
      PROVE Sound(report'[q], bounded'[q], j)
    BY <1>1, <1>5 DEF AcquireLease, Revise, Publish, Execute
<1>6. ASSUME NEW k \in Keys, DamageResult(k) PROVE Sound(report'[q], bounded'[q], j)
    BY <1>1, <1>6 DEF DamageResult, runVars
<1>7. CASE UNCHANGED verificationVars
    BY <1>1, <1>7 DEF verificationVars, runVars
<1> HIDE DEF Sound
<1> QED
    BY <1>2, <1>3, <1>4, <1>5, <1>6, <1>7 DEF VerificationNext, Raise, Killed, RunAgain

(* The reports of a verification run, with any number of processes, for    *)
(* any bundle: a success is true, not vacuous, and proved only after the   *)
(* bounded run.                                                            *)
THEOREM ReportsAreSoundHolds == VerificationSpec => []ReportsAreSound
<1>1. RunInv /\ [VerificationNext]_verificationVars => RunInv'
    BY RunTypeStep, LeaseStep, CacheStep, ResultsStep, RevisedStep, ProofStep, ReportStep
    DEF RunInv
<1>2. RunInv => ReportsAreSound
    BY DEF RunInv
<1> QED
    BY RunInitInv, <1>1, <1>2, PTL DEF VerificationSpec

-----------------------------------------------------------------------------
(* The snapshots of a tooling session.  That an answer is of files and     *)
(* names of its own time rests on the order of the readings: a signature   *)
(* is read before the digests that are kept with it, so that an entry with *)
(* the present signature has the present digests, and everything that a    *)
(* request compares with was read after it was made.                       *)

Snapshots ==
    [root : Roots, needs : Needs, result : Products, signature : Nat,
     fingerprint : Digests, names : Inventories]

(* The phases in which a request has a product.                            *)
Resolved == {"validate", "resolve", "fresh", "judge", "keep", "retain", "check", "refresh",
             "retake", "sign", "record", "store"}
AtWork == {"lookup", "match", "rehash", "rematch", "session", "compare", "discover", "load",
           "failed"} \cup Resolved
ToolingRequests ==
    [phase : AtWork, root : Roots, asked : Needs, needs : Needs, attempt : {0, 1},
     signature : Nat, files : Digests, result : Products,
     old : SessionRecords \cup {NoSession}, current : Worlds, own : BOOLEAN]
ToolingAnswers ==
    [phase : {"answered"}, asked : Needs, needs : Needs, result : Products, own : BOOLEAN]
ToolingDrops == [phase : {"drop"}, roots : SUBSET Roots]

Distinct(q) ==
    /\ q \in Seq(Snapshots)
    /\ \A i, j \in 1..Len(q) : q[i].root = q[j].root => i = j
Free(q, root) == \A i \in 1..Len(q) : q[i].root # root

(* A snapshot kept with the present signature has the present digests.     *)
Dated(e) == e.signature <= stamp /\ (e.signature = stamp => e.fingerprint = Files(world))
AllDated(q) == \A i \in 1..Len(q) : Dated(q[i])

ToolingTypes ==
    /\ world \in Worlds /\ stamp \in Nat /\ writes \in 0..MaxWrites /\ stamp <= writes
    /\ seen \in [content : SUBSET FileContents, names : SUBSET Inventories]
    /\ sessions \in [Roots \X Needs -> SessionRecords \cup {NoSession}]
    /\ \/ request = NoRequest \/ request \in ToolingRequests
       \/ request \in ToolingAnswers \/ request \in ToolingDrops

EntriesOK == Distinct(entries) /\ Len(entries) <= MaxSnapshots /\ AllDated(entries)

Present == world.content \in seen.content /\ world.names \in seen.names

(* What a request knows of the entry of its root, of the files after its   *)
(* signature was read, of its session and of its product.                  *)
EntryKnown ==
    /\ request.phase \in {"match", "rehash", "rematch"} => HasEntry(request.root)
    /\ Is("match") => \A i \in 1..Len(entries) :
          entries[i].root = request.root /\ entries[i].signature = request.signature
             => entries[i].fingerprint.content \in seen.content
FilesKnown ==
    /\ request.needs >= request.asked /\ request.signature <= stamp
    /\ request.files.content \in seen.content
    /\ request.phase \in {"rematch", "store"} =>
          (request.signature = stamp => request.files = Files(world))
SessionKnown ==
    /\ request.phase \in {"compare", "check", "refresh", "retake"} => Kept # NoSession
    /\ request.phase \in {"fresh", "judge"} => request.old # NoSession
ProductKnown ==
    /\ Is("load") => request.result.names \in seen.names
    /\ request.phase \in Resolved => Current(request.result) \/ ~request.own

RequestOK ==
    /\ request.phase \in AtWork \cup {"answered"} => Present
    /\ request.phase \in AtWork => EntryKnown /\ FilesKnown /\ SessionKnown /\ ProductKnown

ToolingInv == ToolingTypes /\ EntriesOK /\ RequestOK /\ SnapshotsCurrent

(* What the snapshot of a root is, and what is left without it.            *)
LEMMA PlaceFacts ==
    ASSUME EntriesOK, NEW root, HasEntry(root)
    PROVE  /\ PlaceOf(root) \in 1..Len(entries) /\ entries[PlaceOf(root)].root = root
           /\ entries[PlaceOf(root)] \in Snapshots /\ Dated(entries[PlaceOf(root)])
<1>1. DOMAIN entries = 1..Len(entries) /\ entries \in Seq(Snapshots)
    BY DEF EntriesOK, Distinct
<1>2. PlaceOf(root) \in DOMAIN entries /\ entries[PlaceOf(root)].root = root
    BY DEF HasEntry, PlaceOf
<1> QED
    BY <1>1, <1>2 DEF EntriesOK, AllDated

LEMMA WithoutEntryFacts ==
    ASSUME EntriesOK, NEW root
    PROVE  /\ Distinct(WithoutEntry(root)) /\ Free(WithoutEntry(root), root)
           /\ AllDated(WithoutEntry(root)) /\ Len(WithoutEntry(root)) <= Len(entries)
           /\ HasEntry(root) => Len(WithoutEntry(root)) = Len(entries) - 1
<1> DEFINE p == WithoutEntry(root)
           place == PlaceOf(root)
           n == Len(entries)
<1>1. n \in Nat /\ DOMAIN entries = 1..n /\ \A i \in 1..n : entries[i] \in Snapshots
    BY DEF EntriesOK, Distinct
<1>2. CASE ~HasEntry(root)
  <2>1. p = entries /\ Free(entries, root)
    BY <1>1, <1>2 DEF WithoutEntry, HasEntry, Free
  <2>2. Distinct(entries) /\ AllDated(entries) /\ Len(entries) <= Len(entries)
    BY <1>1 DEF EntriesOK
  <2> HIDE DEF p
  <2>3. /\ Distinct(p) /\ Free(p, root) /\ AllDated(p) /\ Len(p) <= Len(entries)
    BY <2>1, <2>2
  <2> QED
    BY <1>2, <2>3 DEF p
<1>3. CASE HasEntry(root)
  <2>1. place \in 1..n /\ entries[place].root = root
    BY <1>3, PlaceFacts
  <2>2. p = [i \in 1..(n - 1) |-> IF i < place THEN entries[i] ELSE entries[i + 1]]
    BY <1>3 DEF WithoutEntry
  <2> HIDE DEF place, p, n
  <2>3. n - 1 \in Nat
    BY <1>1, <2>1
  <2>4. \A i \in 1..(n - 1) : (IF i < place THEN entries[i] ELSE entries[i + 1]) \in Snapshots
    BY <1>1, <2>1
  <2>5. p \in [1..(n - 1) -> Snapshots]
    BY <2>2, <2>4
  <2>6. p \in Seq(Snapshots) /\ Len(p) = n - 1
    BY <2>3, <2>5, SeqDef, LenProperties
  <2>7. ASSUME NEW i \in 1..(n - 1)
        PROVE  \E j \in 1..n : j # place /\ p[i] = entries[j] /\ j = (IF i < place THEN i ELSE i + 1)
    <3>1. CASE i < place
      BY <1>1, <2>1, <2>2, <3>1
    <3>2. CASE ~(i < place)
      <4>1. i + 1 \in 1..n /\ i + 1 # place /\ p[i] = entries[i + 1]
        BY <1>1, <2>1, <2>2, <3>2
      <4> QED
        BY <3>2, <4>1
    <3> QED
      BY <3>1, <3>2
  <2>8. \A i, j \in 1..n : entries[i].root = entries[j].root => i = j
    BY DEF EntriesOK, Distinct, n
  <2>9. \A i \in 1..n : Dated(entries[i])
    BY DEF EntriesOK, AllDated, n
  <2>10. Free(p, root)
    BY <2>1, <2>6, <2>7, <2>8 DEF Free
  <2>11. AllDated(p)
    BY <2>6, <2>7, <2>9 DEF AllDated
  <2>12. ASSUME NEW i \in 1..(n - 1), NEW j \in 1..(n - 1), p[i].root = p[j].root PROVE i = j
    <3>1. PICK k \in 1..n : p[i] = entries[k] /\ k = (IF i < place THEN i ELSE i + 1)
      BY <2>7
    <3>2. PICK l \in 1..n : p[j] = entries[l] /\ l = (IF j < place THEN j ELSE j + 1)
      BY <2>7
    <3>3. k = l
      BY <2>8, <2>12, <3>1, <3>2
    <3> QED
      BY <1>1, <2>1, <3>1, <3>2, <3>3
  <2>13. Distinct(p)
    BY <2>6, <2>12 DEF Distinct
  <2>14. Len(p) <= n
    BY <1>1, <2>6
  <2> QED
    BY <2>6, <2>10, <2>11, <2>13, <2>14 DEF p, n
<1> QED
    BY <1>2, <1>3

LEMMA AppendFacts ==
    ASSUME NEW q, Distinct(q), AllDated(q), NEW e \in Snapshots, Free(q, e.root), Dated(e)
    PROVE  Distinct(Append(q, e)) /\ AllDated(Append(q, e)) /\ Len(Append(q, e)) = Len(q) + 1
<1> DEFINE p == Append(q, e)
           n == Len(q)
<1>1. q \in Seq(Snapshots) /\ n \in Nat
    BY DEF Distinct
<1>2. p \in Seq(Snapshots) /\ Len(p) = n + 1 /\ p[n + 1] = e /\ \A k \in 1..n : p[k] = q[k]
    BY <1>1
<1>3. /\ \A i, j \in 1..n : q[i].root = q[j].root => i = j
      /\ \A i \in 1..n : q[i].root # e.root /\ Dated(q[i])
    BY DEF Distinct, Free, AllDated
<1> HIDE DEF p, n
<1>4. \A i, j \in 1..(n + 1) : p[i].root = p[j].root => i = j
    BY <1>1, <1>2, <1>3
<1>5. \A i \in 1..(n + 1) : Dated(p[i])
    BY <1>1, <1>2, <1>3
<1>6. Distinct(p) /\ AllDated(p) /\ Len(p) = n + 1
    BY <1>2, <1>4, <1>5 DEF Distinct, AllDated
<1> QED
    BY <1>6 DEF p, n

(* The oldest snapshot gives way.                                          *)
LEMMA BoundedFacts ==
    ASSUME NEW q, Distinct(q), AllDated(q), Len(q) <= MaxSnapshots + 1
    PROVE  Distinct(Bounded(q)) /\ AllDated(Bounded(q)) /\ Len(Bounded(q)) <= MaxSnapshots
<1>1. q \in Seq(Snapshots) /\ Len(q) \in Nat /\ MaxSnapshots \in Nat \ {0}
    BY ToolingAssumption DEF Distinct
<1>2. CASE Len(q) > MaxSnapshots
  <2> DEFINE p == Tail(q)
             n == Len(q) - 1
  <2>1. n \in Nat /\ Len(q) = n + 1 /\ q # <<>>
    BY <1>1, <1>2
  <2>2. p \in Seq(Snapshots) /\ Len(p) = n /\ \A k \in 1..n : p[k] = q[k + 1]
    BY <1>1, <2>1
  <2>3. /\ \A i, j \in 1..(n + 1) : q[i].root = q[j].root => i = j
        /\ \A i \in 1..(n + 1) : Dated(q[i])
    BY <2>1 DEF Distinct, AllDated
  <2> HIDE DEF p, n
  <2>4. ASSUME NEW i \in 1..n, NEW j \in 1..n, p[i].root = p[j].root PROVE i = j
    <3>1. i + 1 \in 1..(n + 1) /\ j + 1 \in 1..(n + 1) /\ q[i + 1].root = q[j + 1].root
      BY <2>1, <2>2, <2>4
    <3>2. i + 1 = j + 1
      BY <2>3, <3>1
    <3> QED
      BY <2>1, <3>2
  <2>5. ASSUME NEW i \in 1..n PROVE Dated(p[i])
    <3>1. i + 1 \in 1..(n + 1) /\ p[i] = q[i + 1]
      BY <2>1, <2>2
    <3> QED
      BY <2>3, <3>1
  <2>6. Distinct(p) /\ AllDated(p) /\ Len(p) <= MaxSnapshots
    BY <1>1, <2>1, <2>2, <2>4, <2>5 DEF Distinct, AllDated
  <2>7. Bounded(q) = p
    BY <1>2 DEF Bounded, p
  <2> QED
    BY <2>6, <2>7
<1>3. CASE ~(Len(q) > MaxSnapshots)
  <2>1. Bounded(q) = q /\ Len(q) <= MaxSnapshots
    BY <1>1, <1>3 DEF Bounded
  <2> QED
    BY <2>1
<1> QED
    BY <1>2, <1>3

(* A snapshot that is used becomes the latest; its signature may be new.   *)
LEMMA RenewFacts ==
    ASSUME EntriesOK, NEW root, HasEntry(root), NEW e \in Snapshots, e.root = root, Dated(e)
    PROVE  /\ Distinct(Append(WithoutEntry(root), e)) /\ AllDated(Append(WithoutEntry(root), e))
           /\ Len(Append(WithoutEntry(root), e)) <= MaxSnapshots
<1> DEFINE q == WithoutEntry(root)
<1>1. /\ Distinct(q) /\ Free(q, root) /\ AllDated(q) /\ Len(q) = Len(entries) - 1
    BY WithoutEntryFacts
<1> HIDE DEF q
<1>2. /\ Distinct(Append(q, e)) /\ AllDated(Append(q, e)) /\ Len(Append(q, e)) = Len(q) + 1
    BY <1>1, AppendFacts
<1>3. Len(entries) \in Nat /\ Len(entries) <= MaxSnapshots
    BY DEF EntriesOK, Distinct
<1>4. Len(Append(q, e)) <= MaxSnapshots
    BY <1>1, <1>2, <1>3
<1> QED
    BY <1>2, <1>4 DEF q

(* A request that is being worked on has all its fields.                   *)
LEMMA WorkingRequest ==
    ASSUME ToolingTypes, request.phase \in AtWork
    PROVE  request \in ToolingRequests
<1>1. request # NoRequest
    BY DEF NoRequest, AtWork, Resolved
<1>2. request \notin ToolingAnswers /\ request \notin ToolingDrops
    BY DEF ToolingAnswers, ToolingDrops, AtWork, Resolved
<1> QED
    BY <1>1, <1>2 DEF ToolingTypes

(* What is known while a request is worked on.                             *)
LEMMA AtWorkFacts ==
    ASSUME ToolingInv, request.phase \in AtWork
    PROVE  /\ request \in ToolingRequests /\ Present
           /\ EntryKnown /\ FilesKnown /\ SessionKnown /\ ProductKnown
           /\ world \in Worlds /\ Files(world) \in Digests /\ Product(world) \in Products
           /\ stamp \in Nat
           /\ seen \in [content : SUBSET FileContents, names : SUBSET Inventories]
           /\ <<request.root, request.needs>> \in Roots \X Needs
           /\ Kept \in SessionRecords \cup {NoSession}
<1>1. request \in ToolingRequests /\ ToolingTypes
    BY WorkingRequest DEF ToolingInv
<1>2. Files(world) \in Digests /\ Product(world) \in Products
    BY <1>1 DEF ToolingTypes, Worlds, Files, Product, Digests, Products
<1>3. Kept \in SessionRecords \cup {NoSession} /\ <<request.root, request.needs>> \in Roots \X Needs
    BY <1>1 DEF ToolingTypes, ToolingRequests, Kept
<1> QED
    BY <1>1, <1>2, <1>3 DEF ToolingInv, RequestOK, ToolingTypes

(* Steps of a request that leave files, names and snapshots alone.         *)
EntriesKept == UNCHANGED <<world, stamp, writes, entries>>

LEMMA EntriesKeptStep ==
    ASSUME EntriesOK, EntriesKept
    PROVE  EntriesOK'
<1>1. \A e : Dated(e)' <=> Dated(e)
    BY DEF Dated, EntriesKept
<1> QED
    BY <1>1 DEF EntriesOK, EntriesKept, AllDated, Distinct

LEMMA EntriesRenewedStep ==
    ASSUME UNCHANGED <<world, stamp>>, Distinct(entries'), AllDated(entries'),
           Len(entries') <= MaxSnapshots
    PROVE  EntriesOK'
<1>1. \A e : Dated(e)' <=> Dated(e)
    BY DEF Dated
<1> QED
    BY <1>1 DEF EntriesOK, AllDated, Distinct

(* A step by which a request stays at work.                                *)
LEMMA OnwardStep ==
    ASSUME ToolingInv, request.phase \in AtWork, EntriesKept, seen' = seen,
           sessions' \in [Roots \X Needs -> SessionRecords \cup {NoSession}],
           request' \in ToolingRequests,
           EntryKnown', FilesKnown', SessionKnown', ProductKnown'
    PROVE  ToolingInv'
<1>1. ToolingTypes' /\ EntriesOK'
    BY EntriesKeptStep DEF ToolingInv, ToolingTypes, EntriesKept
<1>2. Present'
    BY DEF ToolingInv, RequestOK, Present, EntriesKept
<1>3. SnapshotsCurrent'
    BY DEF SnapshotsCurrent, Is, ToolingRequests, AtWork, Resolved
<1> QED
    BY <1>1, <1>2, <1>3 DEF ToolingInv, RequestOK

LEMMA AskStep ==
    ASSUME ToolingInv, NEW root \in Roots, NEW needs \in Needs, Ask(root, needs)
    PROVE  ToolingInv'
<1> USE DEF ToolingInv
<1>1. world \in Worlds /\ Files(world) \in Digests /\ Product(world) \in Products /\ stamp \in Nat
    BY DEF ToolingTypes, Worlds, Files, Product, Digests, Products
<1>2. /\ request' = [phase |-> "lookup", root |-> root, asked |-> needs, needs |-> needs,
                     attempt |-> 0, signature |-> 0, files |-> Files(world),
                     result |-> Product(world), old |-> NoSession, current |-> world,
                     own |-> TRUE]
      /\ seen' = [content |-> {world.content}, names |-> {world.names}]
      /\ UNCHANGED <<world, stamp, writes, entries, sessions>>
    BY DEF Ask
<1>3. request' \in ToolingRequests
    BY <1>1, <1>2 DEF ToolingRequests, AtWork
<1>4. seen' \in [content : SUBSET FileContents, names : SUBSET Inventories] /\ Present'
    BY <1>1, <1>2 DEF Worlds, Present
<1>5. ToolingTypes' /\ EntriesOK'
    BY <1>2, <1>3, <1>4, EntriesKeptStep DEF ToolingTypes, EntriesKept
<1>6. EntryKnown' /\ SessionKnown' /\ ProductKnown' /\ SnapshotsCurrent'
    BY <1>2 DEF EntryKnown, SessionKnown, ProductKnown, SnapshotsCurrent, Is, Resolved
<1>7. FilesKnown'
    BY <1>1, <1>2 DEF FilesKnown, Files, Needs
<1> QED
    BY <1>4, <1>5, <1>6, <1>7 DEF RequestOK

LEMMA LookupStep ==
    ASSUME ToolingInv, Lookup
    PROVE  ToolingInv'
<1> request.phase \in AtWork
    BY DEF Lookup, Is, AtWork
<1> USE AtWorkFacts
<1>1. EntriesKept /\ seen' = seen /\ sessions' = sessions
    BY DEF Lookup, EntriesKept
<1>2. \/ ~HasEntry(request.root) /\ request' = [request EXCEPT !.phase = "session"]
      \/ HasEntry(request.root) /\ request' = [request EXCEPT !.phase = "match", !.signature = stamp]
    BY DEF Lookup, Goes
<1>3. request' \in ToolingRequests
    BY <1>2 DEF ToolingRequests, AtWork
<1> DEFINE kept == /\ request'.root = request.root /\ request'.needs = request.needs
                   /\ request'.asked = request.asked /\ request'.files = request.files
<1>8. kept /\ \/ request'.phase = "session" /\ request'.signature = request.signature
              \/ request'.phase = "match" /\ request'.signature = stamp /\ HasEntry(request.root)
    BY <1>2 DEF ToolingRequests
<1>4. SessionKnown' /\ ProductKnown'
    BY <1>8 DEF SessionKnown, ProductKnown, Is, Resolved
<1>5. FilesKnown'
    BY <1>1, <1>8 DEF FilesKnown, EntriesKept
<1>6. \A i \in 1..Len(entries) :
          entries[i].signature = stamp => entries[i].fingerprint.content \in seen.content
    BY DEF ToolingInv, EntriesOK, AllDated, Dated, Files, Present
<1>7. EntryKnown'
    BY <1>1, <1>6, <1>8 DEF EntryKnown, HasEntry, EntriesKept, Is
<1> QED
    BY <1>1, <1>3, <1>4, <1>5, <1>7, OnwardStep DEF ToolingInv, ToolingTypes

LEMMA LookupMissStep ==
    ASSUME ToolingInv, LookupMiss
    PROVE  ToolingInv'
<1> request.phase \in AtWork
    BY DEF LookupMiss, Is, AtWork
<1> USE AtWorkFacts
<1>1. EntriesKept /\ seen' = seen /\ sessions' = sessions
    BY DEF LookupMiss, EntriesKept
<1>2. request' = [request EXCEPT !.phase = "rehash"] /\ HasEntry(request.root)
    BY DEF LookupMiss, Goes, Is, EntryKnown
<1>3. request' \in ToolingRequests
    BY <1>2 DEF ToolingRequests, AtWork
<1>4. SessionKnown' /\ ProductKnown'
    BY <1>2 DEF SessionKnown, ProductKnown, Is, ToolingRequests, Resolved
<1>5. FilesKnown' /\ EntryKnown'
    BY <1>1, <1>2 DEF FilesKnown, EntryKnown, HasEntry, ToolingRequests, EntriesKept, Is
<1> QED
    BY <1>1, <1>3, <1>4, <1>5, OnwardStep DEF ToolingInv, ToolingTypes

LEMMA HashFilesStep ==
    ASSUME ToolingInv, HashFiles
    PROVE  ToolingInv'
<1> DEFINE p == AfterHash[request.phase]
<1>1. /\ request.phase \in {"rehash", "session", "fresh", "keep", "refresh", "record"}
      /\ p \in {"rematch", "compare", "judge", "retain", "retake", "store"}
      /\ p = "rematch" <=> request.phase = "rehash"
      /\ p = "compare" <=> request.phase = "session"
      /\ p = "judge" <=> request.phase = "fresh"
      /\ p = "retake" <=> request.phase = "refresh"
    BY DEF HashFiles, AfterHash
<1>2. request.phase \in AtWork
    BY <1>1 DEF AtWork, Resolved
<1> USE <1>2, AtWorkFacts
<1>3. EntriesKept /\ seen' = seen /\ sessions' = sessions
    BY DEF HashFiles, EntriesKept
<1>4. /\ request' = [request EXCEPT !.phase = p, !.files = Files(world)]
      /\ Is("session") => Kept # NoSession
    BY DEF HashFiles
<1> HIDE DEF p
<1>5. request' \in ToolingRequests
    BY <1>1, <1>4 DEF ToolingRequests, AtWork, Resolved
<1>6. request'.phase = p /\ request'.files = Files(world)
      /\ request'.root = request.root /\ request'.needs = request.needs
      /\ request'.asked = request.asked /\ request'.signature = request.signature
      /\ request'.old = request.old /\ request'.result = request.result /\ request'.own = request.own
    BY <1>4 DEF ToolingRequests
<1>7. SessionKnown'
    BY <1>1, <1>3, <1>4, <1>6 DEF SessionKnown, Kept, Is
<1>8. ProductKnown'
    BY <1>1, <1>3, <1>6 DEF ProductKnown, Is, Current, Resolved
<1>9. FilesKnown'
    BY <1>1, <1>3, <1>6 DEF FilesKnown, EntriesKept, Present, Files
<1>10. EntryKnown'
    BY <1>1, <1>3, <1>6 DEF EntryKnown, HasEntry, EntriesKept, Is
<1> QED
    BY <1>3, <1>5, <1>7, <1>8, <1>9, <1>10, OnwardStep DEF ToolingInv, ToolingTypes

(* A snapshot answers.                                                     *)
LEMMA AnswerStep ==
    ASSUME ToolingInv, request.phase \in AtWork,
           NEW needs \in Needs, NEW result \in Products, NEW own \in BOOLEAN,
           request' = [phase |-> "answered", asked |-> request.asked,
                       needs |-> needs, result |-> result, own |-> own],
           needs >= request.needs, own => Current(result),
           UNCHANGED <<world, stamp, writes, sessions, seen>>, EntriesOK'
    PROVE  ToolingInv'
<1>1. request \in ToolingRequests /\ Present /\ FilesKnown
    BY AtWorkFacts
<1>2. request' \in ToolingAnswers
    BY <1>1 DEF ToolingAnswers, ToolingRequests
<1>3. ToolingTypes'
    BY <1>2 DEF ToolingInv, ToolingTypes
<1>4. needs >= request.asked
    BY <1>1 DEF FilesKnown, ToolingRequests, Needs
<1>5. SnapshotsCurrent'
    BY <1>4 DEF SnapshotsCurrent, Current
<1>6. RequestOK'
    BY <1>1 DEF RequestOK, Present, AtWork, Resolved
<1> QED
    BY <1>3, <1>5, <1>6 DEF ToolingInv

LEMMA OwnIsCurrent ==
    ASSUME NEW e \in Snapshots, Own(e), e.fingerprint.content \in seen.content,
           e.names \in seen.names
    PROVE  Current(e.result)
BY DEF Own, Current

LEMMA LookupHitStep ==
    ASSUME ToolingInv, LookupHit
    PROVE  ToolingInv'
<1> DEFINE e == entries[PlaceOf(request.root)]
<1>1. Is("match") /\ request.phase \in AtWork
    BY DEF LookupHit, Is, AtWork
<1>2. request \in ToolingRequests /\ Present /\ EntryKnown /\ EntriesOK
    BY <1>1, AtWorkFacts DEF ToolingInv
<1>3. HasEntry(request.root)
    BY <1>1, <1>2 DEF EntryKnown, Is
<1>4. /\ PlaceOf(request.root) \in 1..Len(entries) /\ e.root = request.root
      /\ e \in Snapshots /\ Dated(e)
    BY <1>2, <1>3, PlaceFacts
<1>5. /\ e.signature = request.signature /\ e.names = world.names /\ e.needs >= request.needs
      /\ entries' = Append(WithoutEntry(request.root), e)
      /\ request' = [phase |-> "answered", asked |-> request.asked, needs |-> e.needs,
                     result |-> e.result, own |-> Own(e)]
      /\ UNCHANGED <<world, stamp, writes, sessions, seen>>
    BY DEF LookupHit, Cached, Suffices, Answered
<1>6. e.fingerprint.content \in seen.content /\ e.names \in seen.names
    BY <1>1, <1>2, <1>4, <1>5 DEF EntryKnown, Present
<1> HIDE DEF e
<1>7. EntriesOK'
  <2>1. Distinct(entries') /\ AllDated(entries') /\ Len(entries') <= MaxSnapshots
    BY <1>2, <1>3, <1>4, <1>5, RenewFacts
  <2> QED
    BY <1>5, <2>1, EntriesRenewedStep
<1>8. e.needs \in Needs /\ e.result \in Products /\ Own(e) \in BOOLEAN
    BY <1>4 DEF Snapshots, Own
<1>9. Own(e) => Current(e.result)
    BY <1>4, <1>6, OwnIsCurrent
<1> QED
    BY <1>1, <1>5, <1>7, <1>8, <1>9, AnswerStep

LEMMA RehashHitStep ==
    ASSUME ToolingInv, RehashHit
    PROVE  ToolingInv'
<1> DEFINE e == entries[PlaceOf(request.root)]
           renewed == [e EXCEPT !.signature = request.signature]
<1>1. Is("rematch") /\ request.phase \in AtWork
    BY DEF RehashHit, Is, AtWork
<1>2. /\ request \in ToolingRequests /\ Present /\ EntryKnown /\ FilesKnown /\ EntriesOK
      /\ stamp \in Nat
    BY <1>1, AtWorkFacts DEF ToolingInv
<1>3. HasEntry(request.root)
    BY <1>1, <1>2 DEF EntryKnown, Is
<1>4. e.root = request.root /\ e \in Snapshots
    BY <1>2, <1>3, PlaceFacts
<1>5. /\ e.fingerprint = request.files /\ e.names = world.names /\ e.needs >= request.needs
      /\ entries' = Append(WithoutEntry(request.root), renewed)
      /\ request' = [phase |-> "answered", asked |-> request.asked, needs |-> e.needs,
                     result |-> e.result, own |-> Own(e)]
      /\ UNCHANGED <<world, stamp, writes, sessions, seen>>
    BY DEF RehashHit, Cached, Suffices, Answered
<1>6. e.fingerprint.content \in seen.content /\ e.names \in seen.names
    BY <1>2, <1>5 DEF FilesKnown, Present
<1> HIDE DEF e
<1>7. renewed \in Snapshots /\ renewed.root = request.root /\ Dated(renewed)
    BY <1>1, <1>2, <1>4, <1>5 DEF Snapshots, ToolingRequests, Dated, FilesKnown, Is
<1> HIDE DEF renewed
<1>8. EntriesOK'
  <2>1. Distinct(entries') /\ AllDated(entries') /\ Len(entries') <= MaxSnapshots
    BY <1>2, <1>3, <1>5, <1>7, RenewFacts
  <2> QED
    BY <1>5, <2>1, EntriesRenewedStep
<1>9. e.needs \in Needs /\ e.result \in Products /\ Own(e) \in BOOLEAN
    BY <1>4 DEF Snapshots, Own
<1>10. Own(e) => Current(e.result)
    BY <1>4, <1>6, OwnIsCurrent
<1> QED
    BY <1>1, <1>5, <1>8, <1>9, <1>10, AnswerStep

LEMMA RehashMissStep ==
    ASSUME ToolingInv, RehashMiss
    PROVE  ToolingInv'
<1> DEFINE place == PlaceOf(request.root)
           e == entries[place]
<1>1. Is("rematch") /\ request.phase \in AtWork
    BY DEF RehashMiss, Is, AtWork
<1>2. /\ request \in ToolingRequests /\ Present /\ EntryKnown /\ FilesKnown /\ EntriesOK
      /\ stamp \in Nat
    BY <1>1, AtWorkFacts DEF ToolingInv
<1>3. HasEntry(request.root)
    BY <1>1, <1>2 DEF EntryKnown, Is
<1>4. place \in 1..Len(entries) /\ e \in Snapshots /\ Dated(e)
    BY <1>2, <1>3, PlaceFacts
<1>5. /\ entries' = IF e.fingerprint = request.files
                    THEN [entries EXCEPT ![place].signature = request.signature] ELSE entries
      /\ request' = [request EXCEPT !.phase = "session", !.needs = More(@, e.needs)]
      /\ UNCHANGED <<world, stamp, writes, sessions, seen>>
    BY DEF RehashMiss, Cached
<1> HIDE DEF place
<1>6. EntriesOK'
  <2>1. CASE e.fingerprint # request.files
    BY <1>2, <1>5, <2>1, EntriesKeptStep DEF EntriesKept
  <2>2. CASE e.fingerprint = request.files
    <3> DEFINE q == [entries EXCEPT ![place].signature = request.signature]
               n == Len(entries)
    <3>1. entries \in Seq(Snapshots) /\ n \in Nat /\ n <= MaxSnapshots
      BY <1>2 DEF EntriesOK, Distinct
    <3>2. /\ \A i, j \in 1..n : entries[i].root = entries[j].root => i = j
          /\ \A i \in 1..n : Dated(entries[i])
      BY <1>2 DEF EntriesOK, Distinct, AllDated
    <3>3. [e EXCEPT !.signature = request.signature] \in Snapshots
      BY <1>2, <1>4 DEF Snapshots, ToolingRequests
    <3>4. q \in Seq(Snapshots) /\ Len(q) = n
      BY <1>4, <3>1, <3>3
    <3>5. \A i \in 1..n : i # place => q[i] = entries[i]
      BY <1>4, <3>1
    <3>6. q[place] = [e EXCEPT !.signature = request.signature]
      BY <1>4, <3>1
    <3>7. q[place].root = e.root /\ Dated(q[place])
      BY <1>1, <1>2, <1>4, <2>2, <3>6 DEF Snapshots, Dated, FilesKnown, Is
    <3>8. entries' = q
      BY <1>5, <2>2
    <3> HIDE DEF q, n
    <3>9. \A i \in 1..n : q[i].root = entries[i].root /\ Dated(q[i])
      BY <1>4, <3>2, <3>5, <3>7
    <3>10. Distinct(q) /\ AllDated(q)
      BY <3>2, <3>4, <3>9 DEF Distinct, AllDated
    <3> QED
      BY <1>5, <3>1, <3>4, <3>8, <3>10, EntriesRenewedStep
  <2> QED
    BY <2>1, <2>2
<1>7. /\ request' \in ToolingRequests /\ request'.phase = "session"
      /\ request'.signature = request.signature /\ request'.files = request.files
      /\ request'.asked = request.asked /\ request'.needs >= request'.asked
  <2> DEFINE more == More(request.needs, e.needs)
  <2>1. more \in Needs /\ more >= request.asked
    BY <1>2, <1>4 DEF ToolingRequests, Snapshots, More, Needs, FilesKnown
  <2>2. request' = [request EXCEPT !.phase = "session", !.needs = more]
    BY <1>2, <1>5 DEF ToolingRequests
  <2> HIDE DEF more
  <2> QED
    BY <1>2, <2>1, <2>2 DEF ToolingRequests, AtWork
<1> HIDE DEF e
<1>8. RequestOK' /\ SnapshotsCurrent'
  <2>1. Present' /\ FilesKnown'
    BY <1>2, <1>5, <1>7 DEF Present, FilesKnown
  <2>2. EntryKnown' /\ SessionKnown' /\ ProductKnown' /\ SnapshotsCurrent'
    BY <1>7 DEF EntryKnown, SessionKnown, ProductKnown, SnapshotsCurrent, Is, Resolved
  <2> QED
    BY <2>1, <2>2 DEF RequestOK
<1>9. ToolingTypes'
    BY <1>5, <1>7 DEF ToolingInv, ToolingTypes
<1> QED
    BY <1>6, <1>8, <1>9 DEF ToolingInv

LEMMA RecordEntryStep ==
    ASSUME ToolingInv, RecordEntry
    PROVE  ToolingInv'
<1> DEFINE e == [root |-> request.root, needs |-> request.needs, result |-> request.result,
                 signature |-> request.signature, fingerprint |-> request.files,
                 names |-> world.names]
           q == WithoutEntry(request.root)
<1>1. Is("store") /\ request.phase \in AtWork
    BY DEF RecordEntry, Is, AtWork, Resolved
<1>2. /\ request \in ToolingRequests /\ FilesKnown /\ ProductKnown /\ EntriesOK
      /\ world \in Worlds /\ stamp \in Nat
    BY <1>1, AtWorkFacts DEF ToolingInv
<1>3. /\ entries' = Bounded(Append(q, e))
      /\ request' = [phase |-> "answered", asked |-> request.asked, needs |-> request.needs,
                     result |-> request.result, own |-> request.own]
      /\ UNCHANGED <<world, stamp, writes, sessions, seen>>
    BY DEF RecordEntry, Answered
<1>4. e \in Snapshots /\ Dated(e) /\ e.root = request.root
    BY <1>1, <1>2 DEF Snapshots, ToolingRequests, Worlds, Dated, FilesKnown, Is
<1>5. Distinct(q) /\ Free(q, e.root) /\ AllDated(q) /\ Len(q) <= Len(entries)
    BY <1>2, <1>4, WithoutEntryFacts
<1> HIDE DEF e, q
<1>6. Distinct(Append(q, e)) /\ AllDated(Append(q, e)) /\ Len(Append(q, e)) = Len(q) + 1
    BY <1>4, <1>5, AppendFacts
<1>7. Len(q) \in Nat /\ Len(entries) \in Nat /\ Len(entries) <= MaxSnapshots /\ MaxSnapshots \in Nat
    BY <1>2, <1>5, ToolingAssumption DEF EntriesOK, Distinct
<1>8. Len(Append(q, e)) <= MaxSnapshots + 1
    BY <1>5, <1>6, <1>7
<1>9. EntriesOK'
    BY <1>3, <1>6, <1>8, BoundedFacts, EntriesRenewedStep
<1>10. request.own => Current(request.result)
    BY <1>1, <1>2 DEF ProductKnown, Is, Resolved
<1>11. request.needs \in Needs /\ request.result \in Products /\ request.own \in BOOLEAN
       /\ request.needs >= request.needs
    BY <1>2 DEF ToolingRequests, Needs
<1> QED
    BY <1>1, <1>3, <1>9, <1>10, <1>11, AnswerStep

(* A step between the look at the entry and the record of a new one.       *)
Between == request.phase \notin {"match", "rehash", "rematch", "store"}
SameQuestion ==
    /\ request'.root = request.root /\ request'.needs = request.needs
    /\ request'.asked = request.asked /\ request'.files = request.files

LEMMA BetweenStep ==
    ASSUME ToolingInv, request.phase \in AtWork, EntriesKept, seen' = seen,
           sessions' \in [Roots \X Needs -> SessionRecords \cup {NoSession}],
           request' \in ToolingRequests, SameQuestion, Between',
           request'.signature \in {request.signature, stamp},
           SessionKnown', ProductKnown'
    PROVE  ToolingInv'
<1>1. request \in ToolingRequests /\ FilesKnown /\ stamp \in Nat
    BY AtWorkFacts
<1>2. FilesKnown'
    BY <1>1 DEF FilesKnown, SameQuestion, Between, EntriesKept
<1>3. EntryKnown'
    BY DEF EntryKnown, Between, Is
<1> QED
    BY <1>2, <1>3, OnwardStep

LEMMA ReuseStep ==
    ASSUME ToolingInv, Reuse
    PROVE  ToolingInv'
<1>1. Is("compare") /\ request.phase \in AtWork
    BY DEF Reuse, Is, AtWork
<1>2. /\ request \in ToolingRequests /\ Present /\ FilesKnown /\ SessionKnown
      /\ Kept \in SessionRecords \cup {NoSession}
    BY <1>1, AtWorkFacts
<1>3. /\ Kept.fingerprint = Listed
      /\ request' = [request EXCEPT !.phase = "check", !.result = Kept.result,
                                    !.own = Kept.result = Product(Kept.fingerprint)]
      /\ EntriesKept /\ seen' = seen /\ sessions' = sessions
    BY DEF Reuse, EntriesKept
<1>4. Kept \in SessionRecords /\ Kept # NoSession /\ Kept.result \in Products
    BY <1>1, <1>2 DEF SessionKnown, SessionRecords, Is
<1>5. request' \in ToolingRequests /\ SameQuestion /\ Between'
      /\ request'.signature = request.signature /\ request'.phase = "check"
      /\ request'.result = Kept.result /\ request'.own = (Kept.result = Product(Kept.fingerprint))
    BY <1>2, <1>3, <1>4 DEF ToolingRequests, AtWork, Resolved, SameQuestion, Between
<1>6. SessionKnown'
    BY <1>3, <1>4, <1>5 DEF SessionKnown, Kept, SameQuestion
<1>7. ProductKnown'
  <2>1. Product(Kept.fingerprint).content = request.files.content
        /\ Product(Kept.fingerprint).names = world.names
    BY <1>3 DEF Product, Listed
  <2>2. request'.own => request'.result = Product(Kept.fingerprint)
    BY <1>5
  <2>3. request'.own => Current(request'.result)
    BY <1>2, <2>1, <2>2 DEF Current, FilesKnown, Present
  <2> QED
    BY <1>3, <1>5, <2>3 DEF ProductKnown, Is, Current
<1> QED
    BY <1>1, <1>3, <1>5, <1>6, <1>7, BetweenStep DEF ToolingInv, ToolingTypes

LEMMA SetAsideStep ==
    ASSUME ToolingInv, SetAside
    PROVE  ToolingInv'
<1>1. Is("compare") /\ request.phase \in AtWork
    BY DEF SetAside, Is, AtWork
<1>2. /\ request \in ToolingRequests /\ world \in Worlds
      /\ Kept \in SessionRecords \cup {NoSession}
    BY <1>1, AtWorkFacts
<1>3. /\ request' = [request EXCEPT !.phase = "discover", !.old = Kept, !.current = Listed]
      /\ sessions' = [sessions EXCEPT ![<<request.root, request.needs>>] = NoSession]
      /\ EntriesKept /\ seen' = seen
    BY DEF SetAside, EntriesKept
<1>4. Listed \in Worlds
    BY <1>2 DEF Listed, Worlds, ToolingRequests, Digests
<1>5. request' \in ToolingRequests /\ SameQuestion /\ Between'
      /\ request'.signature = request.signature /\ request'.phase = "discover"
    BY <1>2, <1>3, <1>4 DEF ToolingRequests, AtWork, Resolved, SameQuestion, Between
<1>6. SessionKnown' /\ ProductKnown'
    BY <1>5 DEF SessionKnown, ProductKnown, Is, Resolved
<1> QED
    BY <1>1, <1>3, <1>5, <1>6, BetweenStep DEF ToolingInv, ToolingTypes

LEMMA DiscoverStep ==
    ASSUME ToolingInv, Discover
    PROVE  ToolingInv'
<1>1. request.phase \in AtWork
    BY DEF Discover, Is, AtWork
<1>2. request \in ToolingRequests /\ world \in Worlds /\ Present
    BY <1>1, AtWorkFacts
<1>3. /\ request' = [request EXCEPT !.phase = "load", !.own = TRUE,
                                    !.result = [@ EXCEPT !.names = world.names]]
      /\ EntriesKept /\ seen' = seen /\ sessions' = sessions
    BY DEF Discover, EntriesKept
<1> DEFINE p == [request.result EXCEPT !.names = world.names]
<1>4. p \in Products /\ p.names = world.names
    BY <1>2 DEF Products, Worlds, ToolingRequests
<1>5. request' = [request EXCEPT !.phase = "load", !.own = TRUE, !.result = p]
    BY <1>3
<1> HIDE DEF p
<1>6. request' \in ToolingRequests /\ SameQuestion /\ Between' /\ request'.result = p
      /\ request'.signature = request.signature /\ request'.phase = "load"
    BY <1>2, <1>4, <1>5 DEF ToolingRequests, AtWork, Resolved, SameQuestion, Between
<1>7. SessionKnown' /\ ProductKnown'
    BY <1>2, <1>3, <1>4, <1>6 DEF SessionKnown, ProductKnown, Is, Resolved, Present
<1> QED
    BY <1>1, <1>3, <1>6, <1>7, BetweenStep DEF ToolingInv, ToolingTypes

(* A race is tried again, or ends the request, as any failure does.        *)
Retried ==
    \/ request' = [request EXCEPT !.phase = "failed"]
    \/ request' = [request EXCEPT !.phase = "session", !.attempt = 1, !.old = NoSession]

LEMMA RetriedStep ==
    ASSUME ToolingInv, request.phase \in AtWork, EntriesKept, seen' = seen, Retried,
           sessions' \in [Roots \X Needs -> SessionRecords \cup {NoSession}]
    PROVE  ToolingInv'
<1>1. request \in ToolingRequests
    BY AtWorkFacts
<1>2. request' \in ToolingRequests /\ SameQuestion /\ Between'
      /\ request'.signature = request.signature /\ request'.phase \in {"failed", "session"}
  <2>1. CASE request' = [request EXCEPT !.phase = "failed"]
    BY <1>1, <2>1 DEF ToolingRequests, AtWork, SameQuestion, Between
  <2>2. CASE request' = [request EXCEPT !.phase = "session", !.attempt = 1, !.old = NoSession]
    BY <1>1, <2>2 DEF ToolingRequests, AtWork, SameQuestion, Between
  <2> QED
    BY <2>1, <2>2 DEF Retried
<1>3. SessionKnown' /\ ProductKnown'
    BY <1>2 DEF SessionKnown, ProductKnown, Is, Resolved
<1> QED
    BY <1>2, <1>3, BetweenStep

LEMMA LoadStep ==
    ASSUME ToolingInv, LoadSources
    PROVE  ToolingInv'
<1>1. Is("load") /\ request.phase \in AtWork
    BY DEF LoadSources, Is, AtWork
<1>2. /\ request \in ToolingRequests /\ world \in Worlds /\ Files(world) \in Digests
      /\ Present /\ FilesKnown /\ ProductKnown
    BY <1>1, AtWorkFacts
<1>3. /\ EntriesKept /\ seen' = seen /\ sessions' = sessions
      /\ sessions \in [Roots \X Needs -> SessionRecords \cup {NoSession}]
    BY DEF LoadSources, EntriesKept, ToolingInv, ToolingTypes
<1> DEFINE p == [request.result EXCEPT !.content = world.content]
<1>4. CASE request' = [request EXCEPT !.phase = "validate", !.files = Files(world), !.result = p]
  <2>1. p \in Products /\ p.content = world.content /\ p.names = request.result.names
    BY <1>2 DEF Products, Worlds, ToolingRequests
  <2> HIDE DEF p
  <2>2. /\ request' \in ToolingRequests /\ request'.phase = "validate" /\ request'.result = p
        /\ request'.files = Files(world) /\ request'.needs = request.needs
        /\ request'.asked = request.asked /\ request'.signature = request.signature
    BY <1>2, <1>4, <2>1 DEF ToolingRequests, AtWork, Resolved
  <2>3. Current(p)
    BY <1>1, <1>2, <2>1 DEF Current, ProductKnown, Present, Is
  <2>4. EntryKnown' /\ SessionKnown' /\ ProductKnown'
    BY <1>3, <2>2, <2>3 DEF EntryKnown, SessionKnown, ProductKnown, Current, Is
  <2>5. FilesKnown'
    BY <1>2, <1>3, <2>2 DEF FilesKnown, Files, Present, EntriesKept
  <2> QED
    BY <1>1, <1>3, <2>2, <2>4, <2>5, OnwardStep
<1>5. CASE Retried
    BY <1>1, <1>3, <1>5, RetriedStep
<1>6. request' = [request EXCEPT !.phase = "validate", !.files = Files(world), !.result = p]
      \/ Retried
    BY DEF LoadSources, Goes, Retried
<1> QED
    BY <1>4, <1>5, <1>6

(* A request goes on with the product that it has.                         *)
ProductKept ==
    /\ request' \in ToolingRequests /\ SameQuestion
    /\ request'.signature \in {request.signature, stamp}
    /\ request'.result = request.result /\ request'.own = request.own

LEMMA ProductStep ==
    ASSUME ToolingInv, request.phase \in Resolved, EntriesKept, seen' = seen,
           sessions' \in [Roots \X Needs -> SessionRecords \cup {NoSession}],
           ProductKept, request'.phase \in Resolved \ {"store"},
           request'.phase \in {"check", "refresh", "retake"} =>
               sessions'[<<request.root, request.needs>>] # NoSession,
           request'.phase \in {"fresh", "judge"} => request'.old # NoSession
    PROVE  ToolingInv'
<1>1. request.phase \in AtWork /\ ~Is("load")
    BY DEF AtWork, Is, Resolved
<1>2. ProductKnown
    BY <1>1, AtWorkFacts
<1>3. Between'
    BY DEF Between, Resolved
<1>4. SessionKnown'
    BY DEF SessionKnown, Kept, SameQuestion, Resolved, ProductKept
<1>5. ProductKnown'
    BY <1>2 DEF ProductKnown, Is, Current, Resolved, ProductKept
<1> QED
    BY <1>1, <1>3, <1>4, <1>5, BetweenStep DEF ProductKept

LEMMA ValidateGraphStep ==
    ASSUME ToolingInv, ValidateGraph
    PROVE  ToolingInv'
<1>1. Is("validate") /\ request.phase \in Resolved /\ request.phase \in AtWork
    BY DEF ValidateGraph, Is, AtWork, Resolved
<1>2. request \in ToolingRequests
    BY <1>1, AtWorkFacts
<1>3. /\ EntriesKept /\ seen' = seen /\ sessions' = sessions
      /\ sessions \in [Roots \X Needs -> SessionRecords \cup {NoSession}]
    BY DEF ValidateGraph, EntriesKept, ToolingInv, ToolingTypes
<1>4. CASE request' = [request EXCEPT !.phase = "resolve"]
  <2>1. ProductKept /\ request'.phase = "resolve"
    BY <1>2, <1>4 DEF ProductKept, SameQuestion, ToolingRequests, AtWork, Resolved
  <2>2. request'.phase \in Resolved \ {"store"}
    BY <2>1 DEF Resolved
  <2> QED
    BY <1>1, <1>3, <2>1, <2>2, ProductStep
<1>5. CASE Retried
    BY <1>1, <1>3, <1>5, RetriedStep
<1>6. request' = [request EXCEPT !.phase = "resolve"] \/ Retried
    BY DEF ValidateGraph, Raced, Goes, Retried
<1> QED
    BY <1>4, <1>5, <1>6

LEMMA ResolveStep ==
    ASSUME ToolingInv, Resolve
    PROVE  ToolingInv'
<1>1. Is("resolve") /\ request.phase \in Resolved /\ request.phase \in AtWork
    BY DEF Resolve, Is, AtWork, Resolved
<1>2. request \in ToolingRequests
    BY <1>1, AtWorkFacts
<1>3. /\ EntriesKept /\ seen' = seen /\ sessions' = sessions
      /\ sessions \in [Roots \X Needs -> SessionRecords \cup {NoSession}]
    BY DEF Resolve, EntriesKept, ToolingInv, ToolingTypes
<1> DEFINE p == IF request.old = NoSession THEN "keep" ELSE "fresh"
<1>4. CASE request' = [request EXCEPT !.phase = p]
  <2>1. p \in {"keep", "fresh"} /\ (p = "fresh" => request.old # NoSession)
    OBVIOUS
  <2> HIDE DEF p
  <2>2. ProductKept /\ request'.phase = p /\ request'.old = request.old
    BY <1>2, <1>4, <2>1 DEF ProductKept, SameQuestion, ToolingRequests, AtWork, Resolved
  <2>3. request'.phase \in Resolved \ {"store"}
    BY <2>1, <2>2 DEF Resolved
  <2> QED
    BY <1>1, <1>3, <2>1, <2>2, <2>3, ProductStep
<1>5. CASE Retried
    BY <1>1, <1>3, <1>5, RetriedStep
<1>6. request' = [request EXCEPT !.phase = p] \/ Retried
    BY DEF Resolve, Raced, Goes, Retried
<1> QED
    BY <1>4, <1>5, <1>6

LEMMA KeepOldStep ==
    ASSUME ToolingInv, KeepOld
    PROVE  ToolingInv'
<1>1. Is("judge") /\ request.phase \in Resolved /\ request.phase \in AtWork
    BY DEF KeepOld, Is, AtWork, Resolved
<1>2. /\ request \in ToolingRequests /\ SessionKnown
      /\ <<request.root, request.needs>> \in Roots \X Needs
    BY <1>1, AtWorkFacts
<1> DEFINE s == [request.old EXCEPT !.fingerprint = request.current]
<1>3. /\ EntriesKept /\ seen' = seen
      /\ sessions' = [sessions EXCEPT ![<<request.root, request.needs>>] = s]
      /\ request' = [request EXCEPT !.phase = "check", !.result = request.old.result,
                                    !.old = NoSession]
      /\ request.old.result = request.result
    BY DEF KeepOld, EntriesKept, same_affected_closure
<1>4. s \in SessionRecords /\ s # NoSession
    BY <1>1, <1>2, ToolingAssumption DEF SessionKnown, ToolingRequests, SessionRecords, Is
<1> HIDE DEF s
<1>5. /\ sessions' \in [Roots \X Needs -> SessionRecords \cup {NoSession}]
      /\ sessions'[<<request.root, request.needs>>] # NoSession
    BY <1>2, <1>3, <1>4 DEF ToolingInv, ToolingTypes
<1>6. ProductKept /\ request'.phase = "check"
    BY <1>2, <1>3 DEF ProductKept, SameQuestion, ToolingRequests, AtWork, Resolved
<1>7. request'.phase \in Resolved \ {"store"}
    BY <1>6 DEF Resolved
<1> QED
    BY <1>1, <1>3, <1>5, <1>6, <1>7, ProductStep

LEMMA RejectOldStep ==
    ASSUME ToolingInv, RejectOld
    PROVE  ToolingInv'
<1>1. Is("judge") /\ request.phase \in Resolved /\ request.phase \in AtWork
    BY DEF RejectOld, Is, AtWork, Resolved
<1>2. request \in ToolingRequests
    BY <1>1, AtWorkFacts
<1>3. /\ EntriesKept /\ seen' = seen /\ sessions' = sessions
      /\ sessions \in [Roots \X Needs -> SessionRecords \cup {NoSession}]
      /\ request' = [request EXCEPT !.phase = "keep", !.old = NoSession]
    BY DEF RejectOld, EntriesKept, ToolingInv, ToolingTypes
<1>4. ProductKept /\ request'.phase = "keep"
    BY <1>2, <1>3 DEF ProductKept, SameQuestion, ToolingRequests, AtWork, Resolved
<1>5. request'.phase \in Resolved \ {"store"}
    BY <1>4 DEF Resolved
<1> QED
    BY <1>1, <1>3, <1>4, <1>5, ProductStep

LEMMA KeepFreshStep ==
    ASSUME ToolingInv, KeepFresh
    PROVE  ToolingInv'
<1>1. Is("retain") /\ request.phase \in Resolved /\ request.phase \in AtWork
    BY DEF KeepFresh, Is, AtWork, Resolved
<1>2. /\ request \in ToolingRequests /\ world \in Worlds
      /\ <<request.root, request.needs>> \in Roots \X Needs
    BY <1>1, AtWorkFacts
<1> DEFINE s == [result |-> request.result, made |-> "nothing", fingerprint |-> Listed]
<1>3. /\ EntriesKept /\ seen' = seen
      /\ sessions' = [sessions EXCEPT ![<<request.root, request.needs>>] = s]
      /\ request' = [request EXCEPT !.phase = "check"]
    BY DEF KeepFresh, EntriesKept, Goes
<1>4. s \in SessionRecords /\ s # NoSession
    BY <1>2, ToolingAssumption DEF ToolingRequests, SessionRecords, Made, Listed, Worlds, Digests
<1> HIDE DEF s
<1>5. /\ sessions' \in [Roots \X Needs -> SessionRecords \cup {NoSession}]
      /\ sessions'[<<request.root, request.needs>>] # NoSession
    BY <1>2, <1>3, <1>4 DEF ToolingInv, ToolingTypes
<1>6. ProductKept /\ request'.phase = "check"
    BY <1>2, <1>3 DEF ProductKept, SameQuestion, ToolingRequests, AtWork, Resolved
<1>7. request'.phase \in Resolved \ {"store"}
    BY <1>6 DEF Resolved
<1> QED
    BY <1>1, <1>3, <1>5, <1>6, <1>7, ProductStep

(* The session of a request is changed, and stays one.                     *)
LEMMA SessionChanged ==
    ASSUME ToolingInv, request.phase \in AtWork, Kept # NoSession,
           NEW made \in Made, NEW fingerprint \in Worlds
    PROVE  LET k == <<request.root, request.needs>>
               s == [Kept EXCEPT !.made = made, !.fingerprint = fingerprint]
           IN /\ [sessions EXCEPT ![k] = s] \in [Roots \X Needs -> SessionRecords \cup {NoSession}]
              /\ [sessions EXCEPT ![k] = s][k] # NoSession
<1> DEFINE k == <<request.root, request.needs>>
           s == [Kept EXCEPT !.made = made, !.fingerprint = fingerprint]
<1>1. Kept \in SessionRecords /\ k \in Roots \X Needs
    BY AtWorkFacts
<1>2. s \in SessionRecords /\ s # NoSession
    BY <1>1, ToolingAssumption DEF SessionRecords
<1> HIDE DEF s, k
<1>3. [sessions EXCEPT ![k] = s] \in [Roots \X Needs -> SessionRecords \cup {NoSession}]
      /\ [sessions EXCEPT ![k] = s][k] # NoSession
    BY <1>1, <1>2 DEF ToolingInv, ToolingTypes
<1> QED
    BY <1>3 DEF s, k

LEMMA CheckStep ==
    ASSUME ToolingInv, Check
    PROVE  ToolingInv'
<1>1. Is("check") /\ request.phase \in Resolved /\ request.phase \in AtWork
    BY DEF Check, Is, AtWork, Resolved
<1>2. /\ request \in ToolingRequests /\ Kept # NoSession
      /\ Kept \in SessionRecords
    BY <1>1, AtWorkFacts DEF SessionKnown, Is
<1> DEFINE k == <<request.root, request.needs>>
<1>3. PICK made \in Made : Make(made)
    BY <1>2 DEF Check, Made, SessionRecords
<1>4. EntriesKept /\ seen' = seen
    BY DEF Check, EntriesKept
<1>5. /\ sessions' = [sessions EXCEPT ![k].made = made]
      /\ request' = [request EXCEPT !.phase = "refresh"] \/ Retried
    BY <1>1, <1>2, <1>3 DEF Make, Goes, Raced, Retried, Made, Check, SessionRecords
<1>6. Kept.fingerprint \in Worlds
      /\ [Kept EXCEPT !.made = made] = [Kept EXCEPT !.made = made, !.fingerprint = Kept.fingerprint]
    BY <1>2 DEF SessionRecords
<1>7. sessions' = [sessions EXCEPT ![k] =
                      [Kept EXCEPT !.made = made, !.fingerprint = Kept.fingerprint]]
    BY <1>5, <1>6 DEF Kept
<1>8. sessions' \in [Roots \X Needs -> SessionRecords \cup {NoSession}] /\ sessions'[k] # NoSession
    BY <1>1, <1>2, <1>3, <1>6, <1>7, SessionChanged
<1>9. CASE Retried
    BY <1>1, <1>4, <1>8, <1>9, RetriedStep
<1>10. CASE request' = [request EXCEPT !.phase = "refresh"]
  <2>1. ProductKept /\ request'.phase = "refresh"
    BY <1>2, <1>10 DEF ProductKept, SameQuestion, ToolingRequests, AtWork, Resolved
  <2>2. request'.phase \in Resolved \ {"store"}
    BY <2>1 DEF Resolved
  <2> QED
    BY <1>1, <1>4, <1>8, <2>1, <2>2, ProductStep
<1> QED
    BY <1>5, <1>9, <1>10

LEMMA RefreshStep ==
    ASSUME ToolingInv, Refresh
    PROVE  ToolingInv'
<1>1. Is("retake") /\ request.phase \in Resolved /\ request.phase \in AtWork
    BY DEF Refresh, Is, AtWork, Resolved
<1>2. /\ request \in ToolingRequests /\ Kept # NoSession /\ world \in Worlds
      /\ Kept \in SessionRecords
    BY <1>1, AtWorkFacts DEF SessionKnown, Is
<1> DEFINE k == <<request.root, request.needs>>
<1>3. /\ EntriesKept /\ seen' = seen
      /\ sessions' = [sessions EXCEPT ![k].fingerprint = Listed]
      /\ request' = [request EXCEPT !.phase = "sign"]
    BY DEF Refresh, EntriesKept, Goes
<1>4. Listed \in Worlds /\ Kept.made \in Made
      /\ [Kept EXCEPT !.fingerprint = Listed] = [Kept EXCEPT !.made = Kept.made, !.fingerprint = Listed]
    BY <1>2 DEF SessionRecords, Listed, Worlds, ToolingRequests, Digests
<1>5. sessions' = [sessions EXCEPT ![k] = [Kept EXCEPT !.made = Kept.made, !.fingerprint = Listed]]
    BY <1>3, <1>4 DEF Kept
<1>6. sessions' \in [Roots \X Needs -> SessionRecords \cup {NoSession}]
    BY <1>1, <1>2, <1>4, <1>5, SessionChanged
<1>7. ProductKept /\ request'.phase = "sign"
    BY <1>2, <1>3 DEF ProductKept, SameQuestion, ToolingRequests, AtWork, Resolved
<1>8. request'.phase \in Resolved \ {"store"}
    BY <1>7 DEF Resolved
<1> QED
    BY <1>1, <1>3, <1>6, <1>7, <1>8, ProductStep

LEMMA SignStep ==
    ASSUME ToolingInv, Sign
    PROVE  ToolingInv'
<1>1. Is("sign") /\ request.phase \in Resolved /\ request.phase \in AtWork
    BY DEF Sign, Is, AtWork, Resolved
<1>2. request \in ToolingRequests /\ stamp \in Nat
    BY <1>1, AtWorkFacts
<1>3. /\ EntriesKept /\ seen' = seen /\ sessions' = sessions
      /\ sessions \in [Roots \X Needs -> SessionRecords \cup {NoSession}]
      /\ request' = [request EXCEPT !.phase = "record", !.signature = stamp]
    BY DEF Sign, EntriesKept, ToolingInv, ToolingTypes
<1>4. ProductKept /\ request'.phase = "record"
    BY <1>2, <1>3 DEF ProductKept, SameQuestion, ToolingRequests, AtWork, Resolved
<1>5. request'.phase \in Resolved \ {"store"}
    BY <1>4 DEF Resolved
<1> QED
    BY <1>1, <1>3, <1>4, <1>5, ProductStep

(* What happens between requests.                                          *)
LEMMA RequestAtRest ==
    ASSUME ToolingTypes, request.phase \in {"idle", "drop"}
    PROVE  request = NoRequest \/ request \in ToolingDrops
BY DEF ToolingTypes, ToolingRequests, ToolingAnswers, AtWork, Resolved

(* The next request has not been made yet.                                 *)
LEMMA RestStep ==
    ASSUME ToolingInv, UNCHANGED <<world, stamp, writes>>,
           seen' \in [content : SUBSET FileContents, names : SUBSET Inventories],
           sessions' \in [Roots \X Needs -> SessionRecords \cup {NoSession}],
           request' = NoRequest \/ request' \in ToolingDrops,
           entries' \in {entries, <<>>} \/ \E root \in Roots : entries' = WithoutEntry(root)
    PROVE  ToolingInv'
<1> USE DEF ToolingInv
<1>1. EntriesOK'
  <2>1. CASE entries' = entries
    BY <2>1, EntriesKeptStep DEF EntriesKept
  <2>2. CASE \E root \in Roots : entries' = WithoutEntry(root)
    <3>1. PICK root \in Roots : entries' = WithoutEntry(root)
      BY <2>2
    <3>2. Distinct(entries') /\ AllDated(entries') /\ Len(entries') <= Len(entries)
      BY <3>1, WithoutEntryFacts
    <3>3. Len(entries') \in Nat /\ Len(entries) \in Nat /\ MaxSnapshots \in Nat
          /\ Len(entries) <= MaxSnapshots
      BY <3>2, ToolingAssumption DEF EntriesOK, Distinct
    <3>4. Len(entries') <= MaxSnapshots
      BY <3>2, <3>3
    <3> QED
      BY <3>2, <3>4, EntriesRenewedStep
  <2>3. CASE entries' = <<>>
    <3>1. Distinct(entries') /\ AllDated(entries') /\ Len(entries') <= MaxSnapshots
      BY <2>3, ToolingAssumption DEF Distinct, AllDated
    <3> QED
      BY <3>1, EntriesRenewedStep
  <2> QED
    BY <2>1, <2>2, <2>3
<1>2. ToolingTypes'
    BY DEF ToolingTypes
<1>3. request'.phase \in {"idle", "drop"}
    BY DEF NoRequest, ToolingDrops
<1>4. RequestOK' /\ SnapshotsCurrent'
    BY <1>3 DEF RequestOK, SnapshotsCurrent, Is, AtWork, Resolved
<1> QED
    BY <1>1, <1>2, <1>4

LEMMA IdleSteps ==
    ASSUME ToolingInv,
           \/ Respond
           \/ \E roots \in SUBSET Roots : Invalidate(roots)
           \/ DropEntry
           \/ ClearTooling
           \/ \E k \in Roots \X Needs : DropSession(k)
    PROVE  ToolingInv'
<1>1. /\ seen \in [content : SUBSET FileContents, names : SUBSET Inventories]
      /\ sessions \in [Roots \X Needs -> SessionRecords \cup {NoSession}]
      /\ ToolingTypes
    BY DEF ToolingInv, ToolingTypes
<1>2. NothingSeen \in [content : SUBSET FileContents, names : SUBSET Inventories]
    BY DEF NothingSeen
<1>3. CASE Respond
    BY <1>1, <1>2, <1>3, RestStep DEF Respond
<1>4. ASSUME NEW roots \in SUBSET Roots, Invalidate(roots) PROVE ToolingInv'
  <2>1. request' \in ToolingDrops
    BY <1>4 DEF Invalidate, ToolingDrops
  <2> QED
    BY <1>1, <1>4, <2>1, RestStep DEF Invalidate
<1>5. CASE DropEntry
  <2>1. request \in ToolingDrops
    BY <1>1, <1>5, RequestAtRest DEF DropEntry, Is, NoRequest
  <2>2. \/ request' = NoRequest /\ entries' = entries
        \/ \E root \in request.roots :
              /\ request' = [request EXCEPT !.roots = @ \ {root}]
              /\ entries' = WithoutEntry(root)
    BY <1>5 DEF DropEntry
  <2>3. /\ request' = NoRequest \/ request' \in ToolingDrops
        /\ entries' = entries \/ \E root \in Roots : entries' = WithoutEntry(root)
    BY <2>1, <2>2 DEF ToolingDrops
  <2> QED
    BY <1>1, <1>5, <2>3, RestStep DEF DropEntry
<1>6. CASE ClearTooling \/ \E k \in Roots \X Needs : DropSession(k)
  <2>1. request' = NoRequest \/ request' \in ToolingDrops
    BY <1>1, <1>6, RequestAtRest DEF ClearTooling, DropSession, Is
  <2>2. sessions' \in [Roots \X Needs -> SessionRecords \cup {NoSession}]
    BY <1>1, <1>6 DEF ClearTooling, DropSession
  <2> QED
    BY <1>1, <1>6, <2>1, <2>2, RestStep DEF ClearTooling, DropSession
<1> QED
    BY <1>3, <1>4, <1>5, <1>6

(* A written file has a new signature, and a change of names alone leaves  *)
(* the digests what they are.                                              *)
LEMMA WriteFileStep ==
    ASSUME ToolingInv, NEW w \in Changes, WriteFile(w)
    PROVE  ToolingInv'
<1> USE DEF ToolingInv
<1>1. /\ world \in Worlds /\ stamp \in Nat /\ writes \in 0..MaxWrites /\ stamp <= writes
      /\ seen \in [content : SUBSET FileContents, names : SUBSET Inventories]
      /\ MaxWrites \in Nat
    BY ToolingAssumption DEF ToolingTypes
<1>2. w \in Worlds
    BY <1>1 DEF Changes, Worlds
<1>3. /\ world' = w /\ UNCHANGED <<entries, sessions, request>>
      /\ stamp' = stamp + 1 \/ (stamp' = stamp /\ Files(w) = Files(world))
    BY DEF WriteFile
<1>4. stamp' \in Nat /\ writes' \in 0..MaxWrites /\ stamp' <= writes'
    BY <1>1, <1>3 DEF WriteFile
<1>5. seen' \in [content : SUBSET FileContents, names : SUBSET Inventories]
    BY <1>1, <1>2 DEF WriteFile, Worlds
<1>6. request.phase \notin {"idle", "drop"} =>
          /\ w.content \in seen'.content /\ w.names \in seen'.names
          /\ seen.content \subseteq seen'.content /\ seen.names \subseteq seen'.names
    BY DEF WriteFile
<1>7. ToolingTypes'
    BY <1>2, <1>3, <1>4, <1>5 DEF ToolingTypes
<1>8. EntriesOK'
  <2>1. ASSUME NEW e \in Snapshots, Dated(e) PROVE Dated(e)'
    BY <1>1, <1>3, <2>1 DEF Dated, Snapshots, Files
  <2>2. \A i \in 1..Len(entries) : entries[i] \in Snapshots /\ Dated(entries[i])
    BY DEF EntriesOK, Distinct, AllDated
  <2>3. AllDated(entries)'
    BY <1>3, <2>1, <2>2 DEF AllDated
  <2> QED
    BY <1>3, <2>3 DEF EntriesOK, Distinct
<1>9. request.phase \in AtWork \cup {"answered"} => request.phase \notin {"idle", "drop"}
    BY DEF AtWork, Resolved
<1>10. request.phase \in AtWork \cup {"answered"} => Present'
    BY <1>3, <1>6, <1>9 DEF Present
<1>11. ASSUME request.phase \in AtWork
       PROVE  (EntryKnown /\ FilesKnown /\ SessionKnown /\ ProductKnown)'
  <2>1. /\ request \in ToolingRequests
        /\ EntryKnown /\ FilesKnown /\ SessionKnown /\ ProductKnown
    BY <1>11, AtWorkFacts
  <2>2. seen.content \subseteq seen'.content /\ seen.names \subseteq seen'.names
    BY <1>6, <1>9, <1>11
  <2>3. FilesKnown'
    BY <1>1, <1>3, <2>1, <2>2 DEF FilesKnown, ToolingRequests, Files
  <2>4. EntryKnown'
    BY <1>3, <2>1, <2>2 DEF EntryKnown, HasEntry, Is
  <2>5. SessionKnown' /\ ProductKnown'
    BY <1>3, <2>1, <2>2 DEF SessionKnown, Kept, ProductKnown, Current, Is
  <2> QED
    BY <2>3, <2>4, <2>5
<1>12. RequestOK'
    BY <1>3, <1>10, <1>11 DEF RequestOK
<1>13. SnapshotsCurrent'
    BY <1>3, <1>6 DEF SnapshotsCurrent, Current, Is
<1> QED
    BY <1>7, <1>8, <1>12, <1>13

LEMMA ToolingInitInv == ToolingInit => ToolingInv
<1> SUFFICES ASSUME ToolingInit PROVE ToolingInv
    OBVIOUS
<1>1. ToolingTypes
    BY ToolingAssumption DEF ToolingInit, ToolingTypes, NothingSeen
<1>2. EntriesOK
    BY ToolingAssumption DEF ToolingInit, EntriesOK, Distinct, AllDated
<1>3. RequestOK /\ SnapshotsCurrent
    BY DEF ToolingInit, RequestOK, SnapshotsCurrent, Is, NoRequest, AtWork, Resolved
<1> QED
    BY <1>1, <1>2, <1>3 DEF ToolingInv

LEMMA ToolingStutter ==
    ASSUME ToolingInv, UNCHANGED toolingVars
    PROVE  ToolingInv'
<1> USE DEF ToolingInv, toolingVars
<1>1. EntriesOK'
    BY EntriesKeptStep DEF EntriesKept
<1>2. ToolingTypes' /\ SnapshotsCurrent'
    BY DEF ToolingTypes, SnapshotsCurrent, Current, Is
<1>3. RequestOK'
    BY DEF RequestOK, Present, EntryKnown, HasEntry, FilesKnown, Files, SessionKnown, Kept,
       ProductKnown, Current, Is
<1> QED
    BY <1>1, <1>2, <1>3

LEMMA ToolingStep == ToolingInv /\ [ToolingNext]_toolingVars => ToolingInv'
<1> SUFFICES ASSUME ToolingInv, [ToolingNext]_toolingVars PROVE ToolingInv'
    OBVIOUS
<1>1. CASE \E root \in Roots, needs \in Needs : Ask(root, needs)
    BY <1>1, AskStep
<1>2. CASE Lookup \/ LookupHit \/ LookupMiss \/ HashFiles \/ RehashHit \/ RehashMiss
    BY <1>2, LookupStep, LookupHitStep, LookupMissStep, HashFilesStep, RehashHitStep, RehashMissStep
<1>3. CASE Reuse \/ SetAside \/ Discover \/ LoadSources \/ ValidateGraph \/ Resolve
    BY <1>3, ReuseStep, SetAsideStep, DiscoverStep, LoadStep, ValidateGraphStep, ResolveStep
<1>4. CASE KeepOld \/ RejectOld \/ KeepFresh \/ Check \/ Refresh \/ Sign \/ RecordEntry
    BY <1>4, KeepOldStep, RejectOldStep, KeepFreshStep, CheckStep, RefreshStep, SignStep,
       RecordEntryStep
<1>5. CASE \/ Respond
           \/ \E roots \in SUBSET Roots : Invalidate(roots)
           \/ DropEntry
           \/ ClearTooling
           \/ \E k \in Roots \X Needs : DropSession(k)
    BY <1>5, IdleSteps
<1>6. CASE \E w \in Changes : WriteFile(w)
    BY <1>6, WriteFileStep
<1>7. CASE UNCHANGED toolingVars
    BY <1>7, ToolingStutter
<1> QED
    BY <1>1, <1>2, <1>3, <1>4, <1>5, <1>6, <1>7 DEF ToolingNext

(* The cache of snapshots stays within its bound with one entry of a root, *)
(* and the sessions are of files that were there: for any number of roots, *)
(* contents, inventories and writes, and any bound of the cache.           *)
THEOREM ToolingTypeCorrect == ToolingSpec => []ToolingTypeOK
<1>1. ToolingInv => ToolingTypeOK
  <2> SUFFICES ASSUME ToolingInv PROVE ToolingTypeOK
    OBVIOUS
  <2>1. stamp \in 0..MaxWrites
    BY ToolingAssumption DEF ToolingInv, ToolingTypes
  <2> QED
    BY <2>1 DEF ToolingInv, ToolingTypes, ToolingTypeOK, EntriesOK, Distinct
<1> QED
    BY <1>1, ToolingInitInv, ToolingStep, PTL DEF ToolingSpec

(* A snapshot answers with at least what was asked for, and is of imported *)
(* files and of names of the time of the request, unless it was recorded   *)
(* with a fingerprint that is not of its own files: whatever files change  *)
(* between two readings of semantic_snapshot, and whatever the sessions    *)
(* that are used again have made.                                          *)
THEOREM SnapshotsCurrentHolds == ToolingSpec => []SnapshotsCurrent
BY ToolingInitInv, ToolingStep, PTL DEF ToolingSpec, ToolingInv

-----------------------------------------------------------------------------
(* The rule scheduler.  The answers are compared by what they have in      *)
(* common: each is the best legal selection, and there is only one.  The   *)
(* order of the rules lists each once (OrderFacts); rules settled one      *)
(* after the other, each selected whenever a legal selection goes on from  *)
(* there, end in the best (ChainBest), which covers the formula and the    *)
(* greedy choice; the search with FIFOs is compared branch by branch       *)
(* (Branches).  The recursions are over 0..RuleCount: that they have a     *)
(* value, and induction over them, rest on the least element of a set.     *)

(* The order of the rules.                                                 *)
LEMMA RulesFinite ==
    /\ RuleCount \in Nat /\ IsFiniteSet(Rules) /\ Cardinality(Rules) = RuleCount
    /\ \A S \in SUBSET Rules : IsFiniteSet(S) /\ Cardinality(S) \in Nat
                               /\ Cardinality(S) <= RuleCount
<1>1. RuleCount \in Nat
    BY SchedulerAssumption
<1>2. IsFiniteSet(Rules) /\ Cardinality(Rules) = RuleCount
  <2>1. IsFiniteSet(1..RuleCount)
        /\ Cardinality(1..RuleCount) = IF 1 > RuleCount THEN 0 ELSE RuleCount - 1 + 1
    BY <1>1, FS_Interval
  <2> QED
    BY <1>1, <2>1 DEF Rules
<1>3. ASSUME NEW S \in SUBSET Rules
      PROVE  IsFiniteSet(S) /\ Cardinality(S) \in Nat /\ Cardinality(S) <= RuleCount
  <2>1. IsFiniteSet(S) /\ Cardinality(S) <= Cardinality(Rules)
    BY <1>2, FS_Subset
  <2> QED
    BY <1>2, <2>1, FS_CardinalityType
<1> QED
    BY <1>1, <1>2, <1>3

Increasing(names, n) == \A i, j \in 1..n : i < j => names[i] < names[j]

LEMMA Greatest ==
    ASSUME NEW S \in SUBSET Rules, S # {}
    PROVE  \E m \in S : \A r \in S : r <= m
<1> DEFINE T == {RuleCount - r : r \in S}
<1>1. RuleCount \in Nat /\ \A r \in S : r \in 1..RuleCount
    BY SchedulerAssumption DEF Rules
<1>2. T \subseteq Nat /\ T # {}
    BY <1>1
<1> HIDE DEF T
<1>3. PICK t \in T : \A u \in T : t <= u
    BY <1>2, Least
<1>4. PICK m \in S : t = RuleCount - m
    BY DEF T
<1>5. ASSUME NEW r \in S PROVE r <= m
  <2>1. RuleCount - r \in T
    BY DEF T
  <2>2. RuleCount - m <= RuleCount - r
    BY <1>3, <1>4, <2>1
  <2> QED
    BY <1>1, <2>2
<1> QED
    BY <1>5

(* The rules of a round can be put in the order of their names: induction  *)
(* over their number, with the greatest name at the end.                   *)
LEMMA SortedExists ==
    ASSUME NEW S \in SUBSET Rules
    PROVE  \E names \in [1..Cardinality(S) -> S] : Increasing(names, Cardinality(S))
<1> DEFINE Sortable(Q) == \E names \in [1..Cardinality(Q) -> Q] : Increasing(names, Cardinality(Q))
           K == {n \in 0..RuleCount : \A Q \in SUBSET Rules : Cardinality(Q) = n => Sortable(Q)}
<1>1. /\ RuleCount \in Nat
      /\ \A Q \in SUBSET Rules : IsFiniteSet(Q) /\ Cardinality(Q) \in Nat
                                 /\ Cardinality(Q) <= RuleCount
    BY RulesFinite
<1>2. 0 \in K
  <2>1. ASSUME NEW Q \in SUBSET Rules, Cardinality(Q) = 0 PROVE Sortable(Q)
    <3>1. [i \in 1..0 |-> 0] \in [1..0 -> Q] /\ Increasing([i \in 1..0 |-> 0], 0)
      BY DEF Increasing
    <3> QED
      BY <2>1, <3>1
  <2> QED
    BY <1>1, <2>1
<1>3. ASSUME NEW n \in 1..RuleCount, n - 1 \in K PROVE n \in K
  <2>1. ASSUME NEW Q \in SUBSET Rules, Cardinality(Q) = n PROVE Sortable(Q)
    <3>1. Q # {} /\ n \in Nat /\ n > 0
      BY <1>1, <2>1, FS_EmptySet
    <3>2. PICK m \in Q : \A r \in Q : r <= m
      BY <3>1, Greatest
    <3> DEFINE P == Q \ {m}
    <3>3. P \in SUBSET Rules /\ Cardinality(P) = n - 1
      BY <1>1, <2>1, FS_RemoveElement
    <3>4. PICK a \in [1..(n - 1) -> P] : Increasing(a, n - 1)
      BY <1>3, <3>3
    <3> DEFINE names == [i \in 1..n |-> IF i = n THEN m ELSE a[i]]
    <3>5. names \in [1..n -> Q]
      BY <3>1, <3>4
    <3>6. Increasing(names, n)
      <4> SUFFICES ASSUME NEW i \in 1..n, NEW j \in 1..n, i < j
                   PROVE  names[i] < names[j]
        BY DEF Increasing
      <4>1. i \in 1..(n - 1) /\ names[i] = a[i] /\ a[i] \in P
        BY <3>1, <3>4
      <4>2. CASE j = n
        <5>1. a[i] \in Nat /\ m \in Nat /\ a[i] # m /\ a[i] <= m
          <6>1. a[i] \in Q /\ a[i] # m
            BY <4>1
          <6>2. a[i] \in 1..RuleCount /\ m \in 1..RuleCount
            BY <6>1 DEF Rules
          <6> QED
            BY <1>1, <3>2, <6>1, <6>2
        <5> QED
          BY <4>1, <4>2, <5>1
      <4>3. CASE j # n
        <5>1. j \in 1..(n - 1) /\ names[j] = a[j]
          BY <3>1, <4>3
        <5> QED
          BY <3>4, <4>1, <5>1 DEF Increasing
      <4> QED
        BY <4>2, <4>3
    <3> HIDE DEF names
    <3> QED
      BY <2>1, <3>5, <3>6
  <2> QED
    BY <1>1, <2>1
<1>4. \A n \in 0..RuleCount : n \in K
  <2> HIDE DEF K
  <2> QED
    BY <1>1, <1>2, <1>3, UpTo
<1>5. Cardinality(S) \in 0..RuleCount
    BY <1>1
<1> QED
    BY <1>4, <1>5

(* A list of n entries holds each member of S once.                        *)
Lists(a, n, S) ==
    /\ a \in [1..n -> S]
    /\ \A i, j \in 1..n : a[i] = a[j] => i = j
    /\ \A r \in S : \E i \in 1..n : a[i] = r

(* A list in increasing order has no rule twice, and so has all of them.   *)
LEMMA SortedFacts ==
    ASSUME NEW S \in SUBSET Rules
    PROVE  Lists(sorted(S), Cardinality(S), S)
<1> DEFINE n == Cardinality(S)
           s == sorted(S)
<1>1. n \in Nat /\ IsFiniteSet(S)
    BY RulesFinite
<1>2. s \in [1..n -> S] /\ Increasing(s, n)
    BY SortedExists DEF sorted, Increasing
<1> HIDE DEF s
<1>3. ASSUME NEW i \in 1..n, NEW j \in 1..n, s[i] = s[j] PROVE i = j
  <2> HIDE DEF n
  <2>1. s[i] \in Nat /\ s[j] \in Nat
    <3>1. s[i] \in Rules /\ s[j] \in Rules
      BY <1>2
    <3> QED
      BY <3>1, SchedulerAssumption DEF Rules
  <2>2. ~(s[i] < s[j]) /\ ~(s[j] < s[i])
    BY <1>3, <2>1
  <2>3. ~(i < j) /\ ~(j < i)
    BY <1>2, <2>2 DEF Increasing
  <2> QED
    BY <1>1, <2>3
<1>4. IsFiniteSet(1..n) /\ Cardinality(1..n) = n
  <2> HIDE DEF n
  <2>1. IsFiniteSet(1..n) /\ Cardinality(1..n) = IF 1 > n THEN 0 ELSE n - 1 + 1
    BY <1>1, FS_Interval
  <2> QED
    BY <1>1, <2>1
<1>5. ASSUME NEW r \in S, ~\E i \in 1..n : s[i] = r PROVE FALSE
  <2>1. IsFiniteSet(S \ {r}) /\ Cardinality(S \ {r}) = n - 1
    BY <1>1, FS_RemoveElement
  <2>2. s \in [1..n -> S \ {r}]
    BY <1>2, <1>5
  <2> DEFINE T == S \ {r}
  <2> HIDE DEF n, T
  <2>3. \E i, j \in 1..n : i # j /\ s[i] = s[j]
    <3>1. Cardinality(T) < Cardinality(1..n)
      BY <1>1, <1>4, <2>1 DEF T
    <3>2. s \in [1..n -> T] /\ IsFiniteSet(T)
      BY <2>1, <2>2 DEF T
    <3> QED
      BY <1>4, <3>1, <3>2, FS_PigeonHole
  <2> QED
    BY <1>3, <2>3
<1> QED
    BY <1>2, <1>3, <1>5 DEF s, Lists

(* The lists of two rounds, one after the other.                           *)
LEMMA Joined ==
    ASSUME NEW A, NEW B, NEW p \in Nat, NEW q \in Nat, NEW a, NEW b,
           Lists(a, p, A), Lists(b, q, B), A \cap B = {}
    PROVE  Lists(a \o b, p + q, A \cup B)
<1>1. a \in [1..p -> A] /\ b \in [1..q -> B]
    BY DEF Lists
<1>2. a \in Seq(A) /\ b \in Seq(B) /\ Len(a) = p /\ Len(b) = q
  <2>1. a \in Seq(A) /\ b \in Seq(B)
    BY <1>1 DEF Seq
  <2>2. DOMAIN a = 1..p /\ DOMAIN b = 1..q
    BY <1>1
  <2> QED
    BY <2>1, <2>2, LenProperties
<1> DEFINE e == a \o b
<1>3. /\ DOMAIN e = 1..(p + q) /\ e \in Seq(A \cup B)
      /\ \A i \in 1..(p + q) : e[i] = IF i <= p THEN a[i] ELSE b[i - p]
  <2>1. a \in Seq(A \cup B) /\ b \in Seq(A \cup B)
    BY <1>2
  <2>2. /\ a \o b \in Seq(A \cup B)
        /\ Len(a \o b) = p + q
        /\ \A i \in 1..(p + q) : (a \o b)[i] = IF i <= p THEN a[i] ELSE b[i - p]
    BY <1>2, <2>1, ConcatProperties, Zenon
  <2>3. DOMAIN (a \o b) = 1..(p + q)
    BY <2>2, LenProperties
  <2> QED
    BY <2>2, <2>3
<1> HIDE DEF e
<1>4. ASSUME NEW i \in 1..(p + q) PROVE
      \/ i \in 1..p /\ e[i] = a[i] /\ e[i] \in A
      \/ i \notin 1..p /\ i - p \in 1..q /\ e[i] = b[i - p] /\ e[i] \in B
    BY <1>1, <1>3
<1>5. e \in [1..(p + q) -> A \cup B]
  <2>1. e = [i \in 1..(p + q) |-> e[i]]
    BY <1>3
  <2> QED
    BY <1>4, <2>1
<1>6. ASSUME NEW i \in 1..(p + q), NEW j \in 1..(p + q), e[i] = e[j] PROVE i = j
  <2>1. CASE i \in 1..p /\ j \in 1..p
    BY <2>1, <1>4, <1>6 DEF Lists
  <2>2. CASE i \notin 1..p /\ j \notin 1..p
    <3>1. i - p \in 1..q /\ j - p \in 1..q /\ b[i - p] = b[j - p]
      BY <2>2, <1>4, <1>6
    <3>2. i - p = j - p
      BY <3>1 DEF Lists
    <3> QED
      BY <3>2
  <2>3. CASE ~(i \in 1..p <=> j \in 1..p)
    BY <2>3, <1>4, <1>6
  <2> QED
    BY <2>1, <2>2, <2>3
<1>7. ASSUME NEW r \in A \cup B PROVE \E i \in 1..(p + q) : e[i] = r
  <2>1. CASE r \in A
    <3>1. PICK i \in 1..p : a[i] = r
      BY <2>1 DEF Lists
    <3>2. i \in 1..(p + q) /\ e[i] = r
      BY <1>3, <3>1
    <3> QED
      BY <3>2
  <2>2. CASE r \in B
    <3>1. PICK i \in 1..q : b[i] = r
      BY <2>2 DEF Lists
    <3>2. i + p \in 1..(p + q) /\ ~(i + p <= p) /\ (i + p) - p = i
      OBVIOUS
    <3>3. e[i + p] = r
      BY <1>3, <3>1, <3>2
    <3> QED
      BY <3>2, <3>3
  <2> QED
    BY <2>1, <2>2
<1> QED
    BY <1>5, <1>6, <1>7 DEF e, Lists

(* The definition of rounds by recursion has a value: what CHOOSE takes    *)
(* for it satisfies the equation.                                          *)
Round == [ordered : Seq(Rules), remaining : SUBSET Rules]

LEMMA RoundType ==
    ASSUME NEW d \in Round
    PROVE  OneRound(d) \in Round
<1> DEFINE S == Ready(d.remaining)
<1>1. S \in SUBSET Rules /\ d.ordered \in Seq(Rules) /\ d.remaining \in SUBSET Rules
    BY DEF Round, Ready
<1> HIDE DEF S
<1>2. sorted(S) \in Seq(Rules)
  <2>1. sorted(S) \in [1..Cardinality(S) -> S] /\ Cardinality(S) \in Nat
    BY <1>1, SortedFacts, RulesFinite DEF Lists
  <2>2. sorted(S) \in Seq(S)
    BY <2>1 DEF Seq
  <2> QED
    BY <1>1, <2>2
<1>3. d.ordered \o sorted(S) \in Seq(Rules)
    BY <1>1, <1>2, ConcatProperties
<1> QED
    BY <1>1, <1>3 DEF OneRound, Round, S

LEMMA RoundsStep ==
    /\ rounds[0] = [ordered |-> <<>>, remaining |-> Rules]
    /\ \A n \in 1..RuleCount : rounds[n] = OneRound(rounds[n - 1])
<1> DEFINE base == [ordered |-> <<>>, remaining |-> Rules]
           next == [i \in 1..RuleCount |-> [d \in Round |-> OneRound(d)]]
<1>1. RuleCount \in Nat
    BY RulesFinite
<1>2. base \in Round
  <2>1. <<>> \in Seq(Rules)
    OBVIOUS
  <2> QED
    BY <2>1 DEF Round
<1>3. next \in [1..RuleCount -> [Round -> Round]]
  <2>1. [d \in Round |-> OneRound(d)] \in [Round -> Round]
    BY RoundType
  <2> QED
    BY <2>1
<1>4. PICK f \in [0..RuleCount -> Round] : Recurses(f, RuleCount, base, next)
  <2> HIDE DEF base, next
  <2> QED
    BY <1>1, <1>2, <1>3, Recursion
<1> HIDE DEF base
<1>5. ASSUME NEW i \in 1..RuleCount PROVE f[i] = OneRound(f[i - 1]) /\ i # 0 /\ i \in 0..RuleCount
  <2>1. i - 1 \in 0..RuleCount /\ f[i - 1] \in Round
    BY <1>1, <1>4
  <2>2. next[i] = [d \in Round |-> OneRound(d)]
    OBVIOUS
  <2> HIDE DEF next
  <2>3. next[i][f[i - 1]] = OneRound(f[i - 1])
    BY <2>1, <2>2
  <2> QED
    BY <1>1, <1>4, <2>3 DEF Recurses
<1>6. f = [n \in 0..RuleCount |-> IF n = 0 THEN base ELSE OneRound(f[n - 1])]
  <2>1. \A n \in 0..RuleCount : f[n] = IF n = 0 THEN base ELSE OneRound(f[n - 1])
    BY <1>1, <1>4, <1>5 DEF Recurses
  <2> QED
    BY <1>4, <2>1
<1>7. rounds = [n \in 0..RuleCount |-> IF n = 0 THEN base ELSE OneRound(rounds[n - 1])]
    BY <1>6, Zenon DEF rounds, base
<1> QED
    BY <1>1, <1>7 DEF base

(* After n rounds, what is ordered lists the rules that are not remaining, *)
(* and at least n of them are.                                             *)
Ordered(d, n) ==
    /\ d.remaining \in SUBSET Rules
    /\ Cardinality(d.remaining) <= RuleCount - n
    /\ Lists(d.ordered, RuleCount - Cardinality(d.remaining), Rules \ d.remaining)

(* Priorities without a cycle leave a rule for each round.                 *)
LEMMA OrderedStep ==
    ASSUME Acyclic(priorities), NEW n \in 1..RuleCount, NEW d, Ordered(d, n - 1)
    PROVE  Ordered(OneRound(d), n)
<1> DEFINE R == d.remaining
           S == Ready(R)
           c == Cardinality(R)
           k == Cardinality(S)
<1>1. R \in SUBSET Rules /\ S \in SUBSET R /\ S \in SUBSET Rules /\ R \ S \in SUBSET Rules
    BY DEF Ordered, Ready
<1>2. RuleCount \in Nat /\ c \in Nat /\ k \in Nat /\ k <= c /\ c <= RuleCount
    BY <1>1, RulesFinite, FS_Subset
<1>3. Cardinality(R \ S) = c - k
  <2>1. IsFiniteSet(R) /\ IsFiniteSet(S) /\ R \cap S = S
    BY <1>1, RulesFinite
  <2> QED
    BY <2>1, FS_Difference
<1>4. c = 0 \/ k >= 1
  <2>1. CASE R = {}
    BY <2>1, FS_EmptySet
  <2>2. CASE R # {}
    <3>1. S # {}
      BY <1>1, <2>2 DEF Acyclic, Ready
    <3>2. IsFiniteSet(S)
      BY <1>1, RulesFinite
    <3> QED
      BY <1>2, <3>1, <3>2, FS_EmptySet
  <2> QED
    BY <2>1, <2>2
<1>5. Lists(sorted(S), k, S) /\ Lists(d.ordered, RuleCount - c, Rules \ R)
    BY <1>1, SortedFacts DEF Ordered
<1>6. Cardinality(R) <= RuleCount - (n - 1)
    BY DEF Ordered
<1> HIDE DEF k, c, S, R
<1>7. Lists(d.ordered \o sorted(S), (RuleCount - c) + k, (Rules \ R) \cup S)
  <2>1. (Rules \ R) \cap S = {} /\ RuleCount - c \in Nat
    BY <1>1, <1>2
  <2> QED
    BY <1>2, <1>5, <2>1, Joined
<1>8. (Rules \ R) \cup S = Rules \ (R \ S) /\ (RuleCount - c) + k = RuleCount - (c - k)
    BY <1>1, <1>2
<1>9. c - k <= RuleCount - n
    BY <1>2, <1>4, <1>6 DEF c
<1>10. OneRound(d).ordered = d.ordered \o sorted(S) /\ OneRound(d).remaining = R \ S
    BY DEF OneRound, S, R
<1> QED
    BY <1>1, <1>3, <1>7, <1>8, <1>9, <1>10 DEF Ordered

(* The order lists every rule once, if the priorities have no cycle.       *)
LEMMA OrderFacts ==
    ASSUME Acyclic(priorities)
    PROVE  Lists(ordered_groups, RuleCount, Rules)
<1> DEFINE K == {n \in 0..RuleCount : Ordered(rounds[n], n)}
<1>1. RuleCount \in Nat /\ Cardinality(Rules) = RuleCount
    BY RulesFinite
<1>2. 0 \in K
  <2>1. rounds[0].ordered = <<>> /\ rounds[0].remaining = Rules
    BY RoundsStep
  <2>2. Lists(<<>>, 0, {})
    BY DEF Lists
  <2>3. RuleCount - RuleCount = 0 /\ RuleCount - 0 = RuleCount /\ Rules \ Rules = {}
        /\ RuleCount <= RuleCount
    BY <1>1
  <2>4. Ordered(rounds[0], 0)
    BY <1>1, <2>1, <2>2, <2>3 DEF Ordered
  <2> QED
    BY <1>1, <2>4
<1>3. ASSUME NEW n \in 1..RuleCount, n - 1 \in K PROVE n \in K
  <2>1. Ordered(rounds[n - 1], n - 1) /\ n \in 0..RuleCount
    BY <1>1, <1>3
  <2>2. rounds[n] = OneRound(rounds[n - 1])
    BY RoundsStep
  <2>3. Ordered(rounds[n], n)
    BY <2>1, <2>2, OrderedStep
  <2> QED
    BY <2>1, <2>3
<1>4. RuleCount \in K
  <2> HIDE DEF K
  <2>1. \A i \in 0..RuleCount : i \in K
    BY <1>1, <1>2, <1>3, UpTo
  <2> QED
    BY <1>1, <2>1
<1> DEFINE last == rounds[RuleCount]
<1>5. Ordered(last, RuleCount)
    BY <1>4
<1> HIDE DEF last, K
<1>6. last.remaining = {} /\ Cardinality(last.remaining) = 0
  <2>1. last.remaining \in SUBSET Rules /\ Cardinality(last.remaining) <= RuleCount - RuleCount
    BY <1>5 DEF Ordered
  <2>2. IsFiniteSet(last.remaining) /\ Cardinality(last.remaining) \in Nat
    BY <2>1, RulesFinite
  <2>3. Cardinality(last.remaining) = 0
    BY <1>1, <2>1, <2>2
  <2> QED
    BY <2>2, <2>3, FS_EmptySet
<1>7. RuleCount - 0 = RuleCount /\ Rules \ {} = Rules
    BY <1>1
<1> QED
    BY <1>5, <1>6, <1>7 DEF Ordered, ordered_groups, last

-----------------------------------------------------------------------------
(* The best of a set of selections: no other one is ahead of it.  Upto(k)  *)
(* are the first k rules of the order.                                     *)
Upto(k) == {ordered_groups[j] : j \in 1..k}

InOrder == Lists(ordered_groups, RuleCount, Rules)

Best(L, s) == s \in L /\ ~\E other \in L : Ahead(other, s)

LEMMA UptoFacts ==
    ASSUME InOrder
    PROVE  /\ Upto(0) = {} /\ Upto(RuleCount) = Rules
           /\ \A k \in 1..RuleCount : /\ Upto(k) = Upto(k - 1) \cup {ordered_groups[k]}
                                      /\ ordered_groups[k] \in Rules \ Upto(k - 1)
           /\ \A k \in 0..RuleCount : Upto(k) \subseteq Rules
<1> DEFINE O == ordered_groups
<1>1. /\ O \in [1..RuleCount -> Rules] /\ RuleCount \in Nat
      /\ \A i, j \in 1..RuleCount : O[i] = O[j] => i = j
      /\ \A r \in Rules : \E i \in 1..RuleCount : O[i] = r
    BY RulesFinite DEF InOrder, Lists
<1> HIDE DEF O
<1>2. \A k : Upto(k) = {O[j] : j \in 1..k}
    BY DEF Upto, O
<1>3. {O[j] : j \in 1..0} = {} /\ {O[j] : j \in 1..RuleCount} = Rules
    BY <1>1
<1>4. ASSUME NEW k \in 1..RuleCount
      PROVE  /\ {O[j] : j \in 1..k} = {O[j] : j \in 1..(k - 1)} \cup {O[k]}
             /\ O[k] \in Rules \ {O[j] : j \in 1..(k - 1)}
    BY <1>1
<1>5. ASSUME NEW k \in 0..RuleCount PROVE {O[j] : j \in 1..k} \subseteq Rules
    BY <1>1
<1> QED
    BY <1>2, <1>3, <1>4, <1>5 DEF O

(* To be ahead, by sets: the same of the rules before, and then one more.  *)
LEMMA AheadFacts ==
    ASSUME NEW one, NEW other
    PROVE  Ahead(one, other) <=>
               \E i \in Rules : /\ ordered_groups[i] \in one \ other
                                /\ one \cap Upto(i - 1) = other \cap Upto(i - 1)
<1>1. ASSUME NEW i \in Rules
      PROVE  (\A j \in 1..(i - 1) : ordered_groups[j] \in one <=> ordered_groups[j] \in other)
             <=> one \cap Upto(i - 1) = other \cap Upto(i - 1)
    BY DEF Upto
<1> QED
    BY <1>1 DEF Ahead

(* Of two selections that differ, one is ahead of the other: there is one  *)
(* best selection at most.                                                 *)
LEMMA OneBest ==
    ASSUME InOrder, NEW L \in SUBSET SUBSET Rules, NEW s, NEW t, Best(L, s), Best(L, t)
    PROVE  s = t
<1>1. SUFFICES ASSUME s # t PROVE FALSE
    OBVIOUS
<1> DEFINE O == ordered_groups
           T == {i \in 1..RuleCount : ~(O[i] \in s <=> O[i] \in t)}
<1>2. s \subseteq Rules /\ t \subseteq Rules
    BY DEF Best
<1>3. RuleCount \in Nat /\ \A r \in Rules : \E i \in 1..RuleCount : O[i] = r
    BY RulesFinite DEF InOrder, Lists
<1> HIDE DEF O
<1>4. T \subseteq Nat /\ T # {}
  <2>1. PICK r \in Rules : ~(r \in s <=> r \in t)
    BY <1>1, <1>2
  <2>2. PICK i \in 1..RuleCount : O[i] = r
    BY <1>3
  <2>3. i \in T
    BY <2>1, <2>2
  <2> QED
    BY <1>3, <2>3
<1>5. PICK x \in T : \A y \in T : x <= y
    BY <1>4, Least
<1>6. x \in 1..RuleCount /\ \A j \in 1..(x - 1) : O[j] \in s <=> O[j] \in t
  <2>1. x \in 1..RuleCount
    OBVIOUS
  <2>2. ASSUME NEW j \in 1..(x - 1) PROVE O[j] \in s <=> O[j] \in t
    BY <1>3, <1>5, <2>1
  <2> QED
    BY <2>1, <2>2
<1>7. Ahead(s, t) \/ Ahead(t, s)
    BY <1>6 DEF Ahead, Rules, O
<1> QED
    BY <1>7 DEF Best

(* Rules that are settled one after the other, each selected whenever a    *)
(* legal selection goes on from there, end in the best selection.          *)
GoesOn(L, before, k) == \E s \in L : s \cap Upto(k) = before \cup {ordered_groups[k]}

Chain(L, F) ==
    /\ F[0] = {}
    /\ \A k \in 1..RuleCount :
           F[k] = IF GoesOn(L, F[k - 1], k) THEN F[k - 1] \cup {ordered_groups[k]} ELSE F[k - 1]

LEMMA ChainBest ==
    ASSUME InOrder, NEW L \in SUBSET SUBSET Rules, {} \in L, NEW F, Chain(L, F)
    PROVE  Best(L, F[RuleCount])
<1> DEFINE O == ordered_groups
           n == RuleCount
           K == {k \in 0..n : F[k] \subseteq Upto(k) /\ \E s \in L : s \cap Upto(k) = F[k]}
<1>1. n \in Nat
    BY RulesFinite
<1>2. /\ Upto(0) = {} /\ Upto(n) = Rules
      /\ \A k \in 1..n : Upto(k) = Upto(k - 1) \cup {O[k]} /\ O[k] \in Rules \ Upto(k - 1)
    BY UptoFacts
<1>3. 0 \in K
  <2>1. F[0] = {}
    BY DEF Chain
  <2>2. {} \cap Upto(0) = F[0] /\ F[0] \subseteq Upto(0)
    BY <2>1, <1>2
  <2> QED
    BY <1>1, <2>2
<1>4. ASSUME NEW k \in 1..n, k - 1 \in K PROVE k \in K
  <2>1. PICK s \in L : s \cap Upto(k - 1) = F[k - 1]
    BY <1>4
  <2>2. F[k - 1] \subseteq Upto(k - 1) /\ k \in 0..n
    BY <1>1, <1>4
  <2>3. CASE GoesOn(L, F[k - 1], k)
    <3>1. F[k] = F[k - 1] \cup {O[k]}
      BY <2>3 DEF Chain
    <3>2. F[k] \subseteq Upto(k)
      BY <1>2, <2>2, <3>1
    <3> QED
      BY <2>2, <2>3, <3>1, <3>2 DEF GoesOn
  <2>4. CASE ~GoesOn(L, F[k - 1], k)
    <3>1. F[k] = F[k - 1]
      BY <2>4 DEF Chain
    <3>2. F[k] \subseteq Upto(k) /\ Upto(k) = Upto(k - 1) \cup {O[k]}
      BY <1>2, <2>2, <3>1
    <3>3. O[k] \notin s
      BY <2>1, <2>4, <3>2 DEF GoesOn
    <3>4. s \cap Upto(k) = F[k]
      BY <2>1, <3>1, <3>2, <3>3
    <3> QED
      BY <2>2, <3>2, <3>4
  <2> QED
    BY <2>3, <2>4
<1>5. \A k \in 0..n : k \in K
  <2> HIDE DEF K, n
  <2> QED
    BY <1>1, <1>3, <1>4, UpTo
<1>6. F[n] \in L
  <2>1. PICK s \in L : s \cap Upto(n) = F[n]
    BY <1>1, <1>5
  <2> QED
    BY <1>2, <2>1
<1>7. ASSUME NEW other \in L, Ahead(other, F[n]) PROVE FALSE
  <2>1. PICK i \in 1..n : O[i] \in other \ F[n] /\ other \cap Upto(i - 1) = F[n] \cap Upto(i - 1)
    BY <1>7, AheadFacts DEF Rules
  <2>2. ASSUME NEW m \in 0..n PROVE F[n] \cap Upto(m) = F[m]
    <3> DEFINE Q == {k \in 0..n : k >= m => F[k] \cap Upto(m) = F[m]}
    <3>1. \A k \in 0..n : F[k] \subseteq Upto(k)
      BY <1>5
    <3>2. 0 \in Q
      BY <1>1, <3>1
    <3>3. ASSUME NEW k \in 1..n, k - 1 \in Q PROVE k \in Q
      <4>1. CASE k < m
        BY <1>1, <4>1
      <4>2. CASE k = m
        BY <1>1, <3>1, <4>2
      <4>3. CASE k > m
        <5>1. F[k - 1] \cap Upto(m) = F[m]
          BY <1>1, <3>3, <4>3
        <5>2. O[k] \notin Upto(m)
          <6>1. \A a, b \in 1..n : O[a] = O[b] => a = b
            BY DEF InOrder, Lists
          <6>2. m \in Nat /\ \A j \in 1..m : j \in 1..n /\ j # k
            BY <1>1, <4>3
          <6> QED
            BY <6>1, <6>2 DEF Upto
        <5>3. F[k] = F[k - 1] \/ F[k] = F[k - 1] \cup {O[k]}
          BY DEF Chain
        <5> QED
          BY <1>1, <5>1, <5>2, <5>3
      <4> QED
        BY <1>1, <4>1, <4>2, <4>3
    <3>4. n \in Q
      <4> HIDE DEF Q, n
      <4>1. \A k \in 0..n : k \in Q
        BY <1>1, <3>2, <3>3, UpTo
      <4> QED
        BY <1>1, <4>1
    <3> QED
      BY <1>1, <3>4
  <2>3. i - 1 \in 0..n /\ i \in 0..n
    BY <1>1
  <2>4. other \cap Upto(i - 1) = F[i - 1]
    BY <2>1, <2>2, <2>3
  <2>5. other \cap Upto(i) = F[i - 1] \cup {O[i]}
    BY <1>2, <2>1, <2>4
  <2>6. O[i] \in F[i]
    BY <2>5 DEF GoesOn, Chain
  <2> QED
    BY <2>1, <2>2, <2>3, <2>6
<1> QED
    BY <1>6, <1>7 DEF Best

-----------------------------------------------------------------------------
(* The four recursions over the order.  Each defines a function: its       *)
(* values satisfy the equation it is defined by.                           *)
LEMMA GreedyStep ==
    ASSUME InOrder, NEW input
    PROVE  /\ greedy(input)[0] = {}
           /\ \A k \in 1..RuleCount :
                  greedy(input)[k] = take_compatible(input, greedy(input)[k - 1], ordered_groups[k])
<1> DEFINE O == ordered_groups
           Choices == SUBSET Rules
           Take(k, d) == take_compatible(input, d, O[k])
           base == {}
           step == [k \in 1..RuleCount |-> [d \in Choices |-> Take(k, d)]]
           g == greedy(input)
<1>1. RuleCount \in Nat /\ O \in [1..RuleCount -> Rules]
    BY RulesFinite DEF InOrder, Lists
<1>2. ASSUME NEW k \in 1..RuleCount, NEW d \in Choices PROVE Take(k, d) \in Choices
    BY <1>1 DEF take_compatible
<1>3. base \in Choices
    OBVIOUS
<1> HIDE DEF Take, Choices, base
<1>4. step \in [1..RuleCount -> [Choices -> Choices]]
    BY <1>2
<1>5. PICK f \in [0..RuleCount -> Choices] : Recurses(f, RuleCount, base, step)
  <2> HIDE DEF step
  <2>1. RuleCount \in Nat
    BY <1>1
  <2> QED
    BY <2>1, <1>3, <1>4, Recursion
<1>6. ASSUME NEW k \in 1..RuleCount
      PROVE  f[k] = Take(k, f[k - 1]) /\ k # 0 /\ k \in 0..RuleCount
  <2>1. f[k - 1] \in Choices
    BY <1>1
  <2>2. step[k] = [d \in Choices |-> Take(k, d)]
    OBVIOUS
  <2> HIDE DEF step
  <2>3. step[k][f[k - 1]] = Take(k, f[k - 1])
    BY <2>1, <2>2
  <2> QED
    BY <1>1, <1>5, <2>3 DEF Recurses
<1>7. f = [k \in 0..RuleCount |-> IF k = 0 THEN base ELSE Take(k, f[k - 1])]
  <2> HIDE DEF step
  <2>1. ASSUME NEW k \in 0..RuleCount PROVE f[k] = IF k = 0 THEN base ELSE Take(k, f[k - 1])
    <3>1. CASE k = 0
      BY <1>5, <3>1 DEF Recurses
    <3>2. CASE k # 0
      BY <1>1, <1>6, <3>2
    <3> QED
      BY <3>1, <3>2
  <2> QED
    BY <2>1
<1>8. g = [k \in 0..RuleCount |-> IF k = 0 THEN base ELSE Take(k, g[k - 1])]
    BY <1>7, Zenon DEF greedy, Take, O, base
<1> HIDE DEF g
<1>9. g[0] = base /\ \A k \in 1..RuleCount : g[k] = Take(k, g[k - 1])
  <2>1. 0 \in 0..RuleCount /\ \A k \in 1..RuleCount : k # 0 /\ k \in 0..RuleCount
    BY <1>1
  <2>2. \A k \in 0..RuleCount : g[k] = IF k = 0 THEN base ELSE Take(k, g[k - 1])
    BY ONLY <1>8, Zenon
  <2> QED
    BY ONLY <2>1, <2>2
<1> QED
    BY <1>9, Zenon DEF Take, O, g, base

LEMMA GuardOnlyStep ==
    ASSUME InOrder, NEW input
    PROVE  /\ guard_only_fires(input)[0] = {}
           /\ \A k \in 1..RuleCount :
                  guard_only_fires(input)[k] =
                      fire_compatible(input, guard_only_fires(input)[k - 1], ordered_groups[k])
<1> DEFINE O == ordered_groups
           Choices == SUBSET Rules
           Take(k, d) == fire_compatible(input, d, O[k])
           base == {}
           step == [k \in 1..RuleCount |-> [d \in Choices |-> Take(k, d)]]
           g == guard_only_fires(input)
<1>1. RuleCount \in Nat /\ O \in [1..RuleCount -> Rules]
    BY RulesFinite DEF InOrder, Lists
<1>2. ASSUME NEW k \in 1..RuleCount, NEW d \in Choices PROVE Take(k, d) \in Choices
    BY <1>1 DEF fire_compatible
<1>3. base \in Choices
    OBVIOUS
<1> HIDE DEF Take, Choices, base
<1>4. step \in [1..RuleCount -> [Choices -> Choices]]
    BY <1>2
<1>5. PICK f \in [0..RuleCount -> Choices] : Recurses(f, RuleCount, base, step)
  <2> HIDE DEF step
  <2>1. RuleCount \in Nat
    BY <1>1
  <2> QED
    BY <2>1, <1>3, <1>4, Recursion
<1>6. ASSUME NEW k \in 1..RuleCount
      PROVE  f[k] = Take(k, f[k - 1]) /\ k # 0 /\ k \in 0..RuleCount
  <2>1. f[k - 1] \in Choices
    BY <1>1
  <2>2. step[k] = [d \in Choices |-> Take(k, d)]
    OBVIOUS
  <2> HIDE DEF step
  <2>3. step[k][f[k - 1]] = Take(k, f[k - 1])
    BY <2>1, <2>2
  <2> QED
    BY <1>1, <1>5, <2>3 DEF Recurses
<1>7. f = [k \in 0..RuleCount |-> IF k = 0 THEN base ELSE Take(k, f[k - 1])]
  <2> HIDE DEF step
  <2>1. ASSUME NEW k \in 0..RuleCount PROVE f[k] = IF k = 0 THEN base ELSE Take(k, f[k - 1])
    <3>1. CASE k = 0
      BY <1>5, <3>1 DEF Recurses
    <3>2. CASE k # 0
      BY <1>1, <1>6, <3>2
    <3> QED
      BY <3>1, <3>2
  <2> QED
    BY <2>1
<1>8. g = [k \in 0..RuleCount |-> IF k = 0 THEN base ELSE Take(k, g[k - 1])]
    BY <1>7, Zenon DEF guard_only_fires, Take, O, base
<1> HIDE DEF g
<1>9. g[0] = base /\ \A k \in 1..RuleCount : g[k] = Take(k, g[k - 1])
  <2>1. 0 \in 0..RuleCount /\ \A k \in 1..RuleCount : k # 0 /\ k \in 0..RuleCount
    BY <1>1
  <2>2. \A k \in 0..RuleCount : g[k] = IF k = 0 THEN base ELSE Take(k, g[k - 1])
    BY ONLY <1>8, Zenon
  <2> QED
    BY ONLY <2>1, <2>2
<1> QED
    BY <1>9, Zenon DEF Take, O, g, base

Later(k) == {ordered_groups[i] : i \in (k + 1)..RuleCount}

LEMMA FormulaStep ==
    ASSUME InOrder, NEW input
    PROVE  /\ formula_fires(input)[0] = {}
           /\ \A k \in 1..RuleCount :
                  formula_fires(input)[k] =
                      settle(input, formula_fires(input)[k - 1], ordered_groups[k], Later(k))
<1> DEFINE O == ordered_groups
           Choices == SUBSET Rules
           Take(k, d) == settle(input, d, O[k], {O[i] : i \in (k + 1)..RuleCount})
           base == {}
           step == [k \in 1..RuleCount |-> [d \in Choices |-> Take(k, d)]]
           g == formula_fires(input)
<1>1. RuleCount \in Nat /\ O \in [1..RuleCount -> Rules]
    BY RulesFinite DEF InOrder, Lists
<1>2. ASSUME NEW k \in 1..RuleCount, NEW d \in Choices PROVE Take(k, d) \in Choices
    BY <1>1 DEF settle
<1>3. base \in Choices
    OBVIOUS
<1> HIDE DEF Take, Choices, base
<1>4. step \in [1..RuleCount -> [Choices -> Choices]]
    BY <1>2
<1>5. PICK f \in [0..RuleCount -> Choices] : Recurses(f, RuleCount, base, step)
  <2> HIDE DEF step
  <2>1. RuleCount \in Nat
    BY <1>1
  <2> QED
    BY <2>1, <1>3, <1>4, Recursion
<1>6. ASSUME NEW k \in 1..RuleCount
      PROVE  f[k] = Take(k, f[k - 1]) /\ k # 0 /\ k \in 0..RuleCount
  <2>1. f[k - 1] \in Choices
    BY <1>1
  <2>2. step[k] = [d \in Choices |-> Take(k, d)]
    OBVIOUS
  <2> HIDE DEF step
  <2>3. step[k][f[k - 1]] = Take(k, f[k - 1])
    BY <2>1, <2>2
  <2> QED
    BY <1>1, <1>5, <2>3 DEF Recurses
<1>7. f = [k \in 0..RuleCount |-> IF k = 0 THEN base ELSE Take(k, f[k - 1])]
  <2> HIDE DEF step
  <2>1. ASSUME NEW k \in 0..RuleCount PROVE f[k] = IF k = 0 THEN base ELSE Take(k, f[k - 1])
    <3>1. CASE k = 0
      BY <1>5, <3>1 DEF Recurses
    <3>2. CASE k # 0
      BY <1>1, <1>6, <3>2
    <3> QED
      BY <3>1, <3>2
  <2> QED
    BY <2>1
<1>8. g = [k \in 0..RuleCount |-> IF k = 0 THEN base ELSE Take(k, g[k - 1])]
    BY <1>7, Zenon DEF formula_fires, Take, O, base
<1> HIDE DEF g
<1>9. g[0] = base /\ \A k \in 1..RuleCount : g[k] = Take(k, g[k - 1])
  <2>1. 0 \in 0..RuleCount /\ \A k \in 1..RuleCount : k # 0 /\ k \in 0..RuleCount
    BY <1>1
  <2>2. \A k \in 0..RuleCount : g[k] = IF k = 0 THEN base ELSE Take(k, g[k - 1])
    BY ONLY <1>8, Zenon
  <2> QED
    BY ONLY <2>1, <2>2
<1> QED
    BY <1>9, Zenon DEF Take, O, g, base, Later

LEMMA SuffixStep ==
    ASSUME InOrder, NEW input
    PROVE  /\ suffix(input)[0] = complete(input)
           /\ \A k \in 1..RuleCount :
                  suffix(input)[k] =
                      extend(input, ordered_groups[RuleCount + 1 - k], suffix(input)[k - 1])
<1> DEFINE O == ordered_groups
           Choices == [SUBSET Rules -> SUBSET SUBSET Rules]
           Take(k, d) == extend(input, O[RuleCount + 1 - k], d)
           base == complete(input)
           step == [k \in 1..RuleCount |-> [d \in Choices |-> Take(k, d)]]
           g == suffix(input)
<1>1. RuleCount \in Nat /\ O \in [1..RuleCount -> Rules]
    BY RulesFinite DEF InOrder, Lists
<1>2. ASSUME NEW k \in 1..RuleCount, NEW d \in Choices PROVE Take(k, d) \in Choices
  <2>1. \A t \in SUBSET Rules : t \cup {O[RuleCount + 1 - k]} \in SUBSET Rules
    <3>1. RuleCount + 1 - k \in 1..RuleCount
      BY <1>1
    <3> QED
      BY <1>1, <3>1
  <2>2. \A t \in SUBSET Rules : d[t] \in SUBSET SUBSET Rules
    OBVIOUS
  <2> HIDE DEF O
  <2> QED
    BY <2>1, <2>2 DEF extend
<1>3. base \in Choices
    BY DEF complete
<1> HIDE DEF Take, Choices, base
<1>4. step \in [1..RuleCount -> [Choices -> Choices]]
    BY <1>2
<1>5. PICK f \in [0..RuleCount -> Choices] : Recurses(f, RuleCount, base, step)
  <2> HIDE DEF step
  <2>1. RuleCount \in Nat
    BY <1>1
  <2> QED
    BY <2>1, <1>3, <1>4, Recursion
<1>6. ASSUME NEW k \in 1..RuleCount
      PROVE  f[k] = Take(k, f[k - 1]) /\ k # 0 /\ k \in 0..RuleCount
  <2>1. f[k - 1] \in Choices
    BY <1>1
  <2>2. step[k] = [d \in Choices |-> Take(k, d)]
    OBVIOUS
  <2> HIDE DEF step
  <2>3. step[k][f[k - 1]] = Take(k, f[k - 1])
    BY <2>1, <2>2
  <2> QED
    BY <1>1, <1>5, <2>3 DEF Recurses
<1>7. f = [k \in 0..RuleCount |-> IF k = 0 THEN base ELSE Take(k, f[k - 1])]
  <2> HIDE DEF step
  <2>1. ASSUME NEW k \in 0..RuleCount PROVE f[k] = IF k = 0 THEN base ELSE Take(k, f[k - 1])
    <3>1. CASE k = 0
      BY <1>5, <3>1 DEF Recurses
    <3>2. CASE k # 0
      BY <1>1, <1>6, <3>2
    <3> QED
      BY <3>1, <3>2
  <2> QED
    BY <2>1
<1>8. g = [k \in 0..RuleCount |-> IF k = 0 THEN base ELSE Take(k, g[k - 1])]
    BY <1>7, Zenon DEF suffix, Take, O, base
<1> HIDE DEF g
<1>9. g[0] = base /\ \A k \in 1..RuleCount : g[k] = Take(k, g[k - 1])
  <2>1. 0 \in 0..RuleCount /\ \A k \in 1..RuleCount : k # 0 /\ k \in 0..RuleCount
    BY <1>1
  <2>2. \A k \in 0..RuleCount : g[k] = IF k = 0 THEN base ELSE Take(k, g[k - 1])
    BY ONLY <1>8, Zenon
  <2> QED
    BY ONLY <2>1, <2>2
<1> QED
    BY <1>9, Zenon DEF Take, O, g, base

-----------------------------------------------------------------------------
(* The legal selections of an input.                                       *)
Legal(input) == {s \in SUBSET Rules : selection_formula(input, s)}

LEMMA EmptyLegal ==
    ASSUME NEW input
    PROVE  {} \in Legal(input) /\ Legal(input) \in SUBSET SUBSET Rules
<1>1. Pushed(input, {}) = {} /\ Popped(input, {}) = {}
    BY DEF Pushed, Popped
<1>2. selection_formula(input, {})
    BY <1>1 DEF selection_formula
<1> QED
    BY <1>2 DEF Legal

(* An input has only actions of the program; without activation conditions *)
(* it has all of a rule or none.                                           *)
LEMMA InputFacts ==
    ASSUME NEW input \in Inputs
    PROVE  \A r \in Rules : /\ input[r] \subseteq program[r]
                            /\ ~conditional => input[r] = {} \/ input[r] = program[r]
<1>1. CASE conditional
    BY <1>1 DEF Inputs
<1>2. CASE ~conditional
    BY <1>2 DEF Inputs
<1> QED
    BY <1>1, <1>2

(* The fire functions of the formula select the best.                      *)
LEMMA FormulaBest ==
    ASSUME InOrder, NEW input
    PROVE  Best(Legal(input), formula_fires(input)[RuleCount])
<1> DEFINE F == formula_fires(input)
           O == ordered_groups
           L == Legal(input)
           K == {k \in 0..RuleCount : F[k] \subseteq Upto(k)}
<1>1. RuleCount \in Nat
    BY RulesFinite
<1>2. F[0] = {} /\ \A k \in 1..RuleCount : F[k] = settle(input, F[k - 1], O[k], Later(k))
    BY FormulaStep
<1>3. /\ Upto(0) = {} /\ Upto(RuleCount) = Rules
      /\ \A k \in 1..RuleCount : Upto(k) = Upto(k - 1) \cup {O[k]} /\ O[k] \in Rules \ Upto(k - 1)
      /\ \A k \in 0..RuleCount : Upto(k) \subseteq Rules
    BY UptoFacts
<1>4. ASSUME NEW k \in 0..RuleCount PROVE Later(k) = Rules \ Upto(k)
  <2>1. /\ O \in [1..RuleCount -> Rules]
        /\ \A i, j \in 1..RuleCount : O[i] = O[j] => i = j
        /\ \A r \in Rules : \E i \in 1..RuleCount : O[i] = r
    BY DEF InOrder, Lists
  <2>2. Later(k) = {O[i] : i \in (k + 1)..RuleCount} /\ Upto(k) = {O[i] : i \in 1..k}
    BY DEF Later, Upto
  <2> HIDE DEF O
  <2>3. ASSUME NEW r \in {O[i] : i \in (k + 1)..RuleCount}
        PROVE  r \in Rules \ {O[i] : i \in 1..k}
    BY <1>1, <2>1
  <2>4. ASSUME NEW r \in Rules, r \notin {O[i] : i \in 1..k}
        PROVE  r \in {O[i] : i \in (k + 1)..RuleCount}
    <3>1. PICK i \in 1..RuleCount : O[i] = r
      BY <2>1
    <3>2. i \in (k + 1)..RuleCount
      BY <1>1, <2>4, <3>1
    <3> QED
      BY <3>1, <3>2
  <2> QED
    BY <2>2, <2>3, <2>4
<1> HIDE DEF F, O
<1>5. \A k \in 0..RuleCount : k \in K
  <2>1. 0 \in K
    BY <1>1, <1>2
  <2>2. ASSUME NEW k \in 1..RuleCount, k - 1 \in K PROVE k \in K
    <3>1. F[k] = F[k - 1] \/ F[k] = F[k - 1] \cup {O[k]}
      BY <1>2 DEF settle
    <3>2. F[k - 1] \subseteq Upto(k - 1) /\ k \in 0..RuleCount
      BY <1>1, <2>2
    <3> QED
      BY <1>3, <3>1, <3>2
  <2> HIDE DEF K
  <2> QED
    BY <1>1, <2>1, <2>2, UpTo
<1>6. ASSUME NEW k \in 1..RuleCount
      PROVE  can_choose(input, F[k - 1], O[k], Later(k)) <=> GoesOn(L, F[k - 1], k)
  <2>1. k - 1 \in 0..RuleCount /\ k \in 0..RuleCount
    BY <1>1
  <2>2. /\ F[k - 1] \subseteq Upto(k - 1) /\ Later(k) = Rules \ Upto(k) /\ Upto(k) \subseteq Rules
        /\ Upto(k) = Upto(k - 1) \cup {O[k]}
    BY <1>3, <1>4, <1>5, <2>1
  <2> DEFINE B == F[k - 1] \cup {O[k]}
  <2>3. B \subseteq Upto(k)
    BY <2>2
  <2>4. can_choose(input, F[k - 1], O[k], Later(k))
            <=> \E others \in SUBSET (Rules \ Upto(k)) : selection_formula(input, B \cup others)
    BY <2>2 DEF can_choose
  <2>5. GoesOn(L, F[k - 1], k)
            <=> \E s \in SUBSET Rules : selection_formula(input, s) /\ s \cap Upto(k) = B
    BY DEF GoesOn, Legal, O
  <2> HIDE DEF B
  <2>6. ASSUME NEW others \in SUBSET (Rules \ Upto(k)), selection_formula(input, B \cup others)
        PROVE  \E s \in SUBSET Rules : selection_formula(input, s) /\ s \cap Upto(k) = B
    <3>1. B \cup others \in SUBSET Rules /\ (B \cup others) \cap Upto(k) = B
      BY <2>2, <2>3
    <3> QED
      BY <2>6, <3>1
  <2>7. ASSUME NEW s \in SUBSET Rules, selection_formula(input, s), s \cap Upto(k) = B
        PROVE  \E others \in SUBSET (Rules \ Upto(k)) : selection_formula(input, B \cup others)
    <3>1. s \ Upto(k) \in SUBSET (Rules \ Upto(k)) /\ B \cup (s \ Upto(k)) = s
      BY <2>7
    <3> QED
      BY <2>7, <3>1
  <2> QED
    BY <2>4, <2>5, <2>6, <2>7
<1>7. Chain(L, F)
    BY <1>2, <1>6 DEF Chain, settle, O
<1>8. {} \in L /\ L \in SUBSET SUBSET Rules
    BY EmptyLegal
<1> HIDE DEF L
<1>9. Best(L, F[RuleCount])
    BY <1>7, <1>8, ChainBest
<1> QED
    BY <1>9 DEF F, L

(* Without FIFOs the greedy choice is the best.                            *)
LEMMA GreedyBest ==
    ASSUME InOrder, ~HasFifo, NEW input \in Inputs
    PROVE  /\ Best(Legal(input), greedy(input)[RuleCount])
           /\ \A k \in 0..RuleCount : greedy(input)[k] \in Legal(input)
<1> DEFINE F == greedy(input)
           O == ordered_groups
           L == Legal(input)
           K == {k \in 0..RuleCount : F[k] \subseteq Upto(k) /\ F[k] \in L}
<1>1. RuleCount \in Nat
    BY RulesFinite
<1>2. F[0] = {} /\ \A k \in 1..RuleCount : F[k] = take_compatible(input, F[k - 1], O[k])
    BY GreedyStep
<1>3. /\ Upto(0) = {} /\ Upto(RuleCount) = Rules
      /\ \A k \in 1..RuleCount : Upto(k) = Upto(k - 1) \cup {O[k]} /\ O[k] \in Rules \ Upto(k - 1)
    BY UptoFacts
<1>4. ASSUME NEW s \in SUBSET Rules
      PROVE  s \in L <=> /\ \A r \in s : candidate(input, r)
                         /\ \A p, r \in s : p # r => ~active_groups_conflict(input[p], input[r])
  <2>1. Pushed(input, s) = {} /\ Popped(input, s) = {}
    <3>1. ASSUME NEW f \in Fifos, NEW r \in s, NEW what \in {"push", "pop"},
                 <<f, what>> \in input[r]
          PROVE  FALSE
      <4>1. <<f, what>> \in program[r] /\ <<f, what>>[1] \in Fifos /\ r \in Rules
        BY <3>1, InputFacts
      <4> QED
        BY <4>1 DEF HasFifo
    <3> QED
      BY <3>1 DEF Pushed, Popped
  <2> QED
    BY <2>1 DEF Legal, selection_formula, candidate
<1>5. {} \in L /\ L \in SUBSET SUBSET Rules
    BY EmptyLegal
<1> HIDE DEF F, O, L
<1>6. ASSUME NEW k \in 1..RuleCount, F[k - 1] \subseteq Upto(k - 1), F[k - 1] \in L
      PROVE  /\ F[k] \subseteq Upto(k) /\ F[k] \in L
             /\ F[k] = IF GoesOn(L, F[k - 1], k) THEN F[k - 1] \cup {O[k]} ELSE F[k - 1]
  <2> DEFINE B == F[k - 1] \cup {O[k]}
             free == /\ candidate(input, O[k])
                     /\ ~\E p \in F[k - 1] : active_groups_conflict(input[O[k]], input[p])
  <2>1. F[k] = IF free THEN B ELSE F[k - 1]
    BY <1>2 DEF take_compatible
  <2>2. /\ Upto(k) = Upto(k - 1) \cup {O[k]} /\ O[k] \in Rules \ Upto(k - 1)
        /\ B \subseteq Upto(k) /\ B \in SUBSET Rules /\ F[k - 1] \in SUBSET Rules
    BY <1>3, <1>5, <1>6
  <2>3. free => B \in L
    <3>1. SUFFICES ASSUME free PROVE B \in L
      OBVIOUS
    <3>2. \A r \in B : candidate(input, r)
      BY <1>4, <1>6, <2>2, <3>1
    <3>3. ASSUME NEW p \in B, NEW r \in B, p # r
          PROVE  ~active_groups_conflict(input[p], input[r])
      <4>1. CASE p \in F[k - 1] /\ r \in F[k - 1]
        BY <1>4, <1>6, <2>2, <3>3, <4>1
      <4>2. CASE p = O[k] /\ r \in F[k - 1]
        BY <3>1, <4>2
      <4>3. CASE p \in F[k - 1] /\ r = O[k]
        BY <3>1, <4>3 DEF active_groups_conflict
      <4> QED
        BY <3>3, <4>1, <4>2, <4>3
    <3> QED
      BY <1>4, <2>2, <3>2, <3>3
  <2>4. ASSUME NEW s \in L, s \cap Upto(k) = B PROVE free
    <3>1. s \in SUBSET Rules /\ B \subseteq s
      BY <1>5, <2>4
    <3>2. O[k] \in s /\ F[k - 1] \subseteq s /\ O[k] \notin F[k - 1]
      BY <1>6, <2>2, <3>1
    <3> QED
      BY <1>4, <3>1, <3>2
  <2>5. GoesOn(L, F[k - 1], k) <=> \E s \in L : s \cap Upto(k) = B
    BY DEF GoesOn, O
  <2> HIDE DEF B, free
  <2>6. B \in L => B \cap Upto(k) = B
    BY <2>2
  <2>7. GoesOn(L, F[k - 1], k) <=> free
    BY <2>3, <2>4, <2>5, <2>6
  <2>8. F[k] \subseteq Upto(k) /\ F[k] \in L
    <3>1. F[k - 1] \subseteq Upto(k)
      BY <1>6, <2>2
    <3> QED
      BY <1>6, <2>1, <2>2, <2>3, <3>1
  <2> QED
    BY <2>1, <2>7, <2>8 DEF B
<1>7. \A k \in 0..RuleCount : k \in K
  <2>1. 0 \in K
    <3>1. F[0] \subseteq Upto(0) /\ F[0] \in L
      BY <1>2, <1>5, Zenon
    <3> QED
      BY <1>1, <3>1
  <2>2. ASSUME NEW k \in 1..RuleCount, k - 1 \in K PROVE k \in K
    <3>1. F[k - 1] \subseteq Upto(k - 1) /\ F[k - 1] \in L /\ k \in 0..RuleCount
      BY <1>1, <2>2
    <3> QED
      BY <1>6, <3>1
  <2> HIDE DEF K
  <2> QED
    BY <1>1, <2>1, <2>2, UpTo
<1>8. Chain(L, F)
  <2>1. ASSUME NEW k \in 1..RuleCount
        PROVE  F[k] = IF GoesOn(L, F[k - 1], k) THEN F[k - 1] \cup {O[k]} ELSE F[k - 1]
    <3>1. k - 1 \in 0..RuleCount
      BY <1>1
    <3> QED
      BY <1>6, <1>7, <3>1
  <2> QED
    BY <1>2, <2>1 DEF Chain, O
<1>9. Best(L, F[RuleCount])
    BY <1>5, <1>8, ChainBest
<1> QED
    BY <1>7, <1>9 DEF F, L

(* Without activation conditions the fire functions of the guards agree    *)
(* with it, although they compare whole groups.                            *)
LEMMA GuardOnlyIsGreedy ==
    ASSUME InOrder, ~HasFifo, ~conditional, NEW input \in Inputs
    PROVE  guard_only_fires(input)[RuleCount] = greedy(input)[RuleCount]
<1> DEFINE G == guard_only_fires(input)
           F == greedy(input)
           O == ordered_groups
           K == {k \in 0..RuleCount : G[k] = F[k]}
<1>1. RuleCount \in Nat
    BY RulesFinite
<1>2. /\ G[0] = {} /\ \A k \in 1..RuleCount : G[k] = fire_compatible(input, G[k - 1], O[k])
      /\ F[0] = {} /\ \A k \in 1..RuleCount : F[k] = take_compatible(input, F[k - 1], O[k])
    BY GreedyStep, GuardOnlyStep
<1>3. ASSUME NEW k \in 1..RuleCount, G[k - 1] = F[k - 1] PROVE G[k] = F[k]
  <2>1. k - 1 \in 0..RuleCount /\ O[k] \in Rules
    BY <1>1 DEF InOrder, Lists
  <2>2. F[k - 1] \in Legal(input)
    BY <2>1, GreedyBest
  <2>3. ASSUME NEW p \in F[k - 1] PROVE input[p] = program[p]
    <3>1. p \in Rules /\ input[p] # {}
      BY <2>2 DEF Legal, selection_formula
    <3> QED
      BY <3>1, InputFacts
  <2>4. candidate(input, O[k]) => input[O[k]] = program[O[k]]
    BY <2>1, InputFacts DEF candidate
  <2> HIDE DEF F, G, O
  <2>5. fire_compatible(input, F[k - 1], O[k]) = take_compatible(input, F[k - 1], O[k])
    BY <2>3, <2>4 DEF fire_compatible, take_compatible
  <2> QED
    BY <1>2, <1>3, <2>5
<1> HIDE DEF F, G
<1>4. 0 \in K /\ \A k \in 1..RuleCount : k - 1 \in K => k \in K
  <2>1. 0 \in 0..RuleCount /\ \A k \in 1..RuleCount : k \in 0..RuleCount
    BY <1>1
  <2>2. G[0] = F[0]
    BY <1>2, Zenon
  <2> QED
    BY <1>3, <2>1, <2>2, Zenon
<1>5. \A k \in 0..RuleCount : k \in K
  <2> HIDE DEF K
  <2> QED
    BY <1>1, <1>4, UpTo
<1> QED
    BY <1>1, <1>5 DEF F, G

-----------------------------------------------------------------------------
(* The search with FIFOs.  Extending are the selections that go on from    *)
(* what is taken of the first k rules.                                     *)
Extending(L, taken, k) == {s \in L : s \cap Upto(k) = taken}

Bests(L) == {s \in L : ~\E other \in L : Ahead(other, s)}

LEMMA BestsOfUnion ==
    ASSUME NEW A, NEW B, \A a \in A, b \in B : Ahead(a, b) /\ ~Ahead(b, a)
    PROVE  Bests(A \cup B) = IF A # {} THEN Bests(A) ELSE Bests(B)
<1>1. CASE A = {}
  <2>1. A \cup B = B
    BY <1>1
  <2> QED
    BY <1>1, <2>1
<1>2. CASE A # {}
    BY <1>2 DEF Bests
<1> QED
    BY <1>1, <1>2

(* A selection goes on with rule k or without it, and every one with it is *)
(* ahead of every one without it.                                          *)
LEMMA Branches ==
    ASSUME InOrder, NEW L \in SUBSET SUBSET Rules, NEW k \in 1..RuleCount,
           NEW taken \in SUBSET Upto(k - 1)
    PROVE  LET A == Extending(L, taken \cup {ordered_groups[k]}, k)
               B == Extending(L, taken, k)
           IN /\ Extending(L, taken, k - 1) = A \cup B
              /\ \A a \in A, b \in B : Ahead(a, b) /\ ~Ahead(b, a)
<1> DEFINE O == ordered_groups
           U == Upto(k - 1)
           A == Extending(L, taken \cup {O[k]}, k)
           B == Extending(L, taken, k)
<1>1. Upto(k) = U \cup {O[k]} /\ O[k] \in Rules \ U /\ RuleCount \in Nat
    BY UptoFacts, RulesFinite
<1>2. \A s \in SUBSET Rules :
          /\ s \cap Upto(k) = taken \cup {O[k]} <=> s \cap U = taken /\ O[k] \in s
          /\ s \cap Upto(k) = taken <=> s \cap U = taken /\ O[k] \notin s
  <2> HIDE DEF U, O
  <2>1. taken \subseteq U
    BY DEF U
  <2> QED
    BY <1>1, <2>1
<1>3. /\ A = {s \in L : s \cap U = taken /\ O[k] \in s}
      /\ B = {s \in L : s \cap U = taken /\ O[k] \notin s}
      /\ Extending(L, taken, k - 1) = {s \in L : s \cap U = taken}
    BY <1>2 DEF Extending
<1> HIDE DEF A, B
<1>4. Extending(L, taken, k - 1) = A \cup B
    BY <1>3
<1>5. ASSUME NEW a \in A, NEW b \in B PROVE Ahead(a, b) /\ ~Ahead(b, a)
  <2>1. a \cap U = taken /\ O[k] \in a /\ b \cap U = taken /\ O[k] \notin b
    BY <1>3
  <2>2. k \in Rules
    BY DEF Rules
  <2>3. Ahead(a, b)
    BY <2>1, <2>2, AheadFacts
  <2>4. ASSUME NEW i \in Rules, O[i] \in b \ a, b \cap Upto(i - 1) = a \cap Upto(i - 1)
        PROVE  FALSE
    <3>1. i \in 1..RuleCount
      BY DEF Rules
    <3>2. CASE i < k
      <4>1. i \in 1..(k - 1)
        BY <1>1, <3>1, <3>2
      <4>2. O[i] \in U
        BY <4>1 DEF Upto
      <4> QED
        BY <2>1, <2>4, <4>2
    <3>3. CASE i = k
      BY <2>1, <2>4, <3>3
    <3>4. CASE i > k
      <4>1. k \in 1..(i - 1)
        BY <1>1, <3>1, <3>4
      <4>2. O[k] \in Upto(i - 1)
        BY <4>1 DEF Upto
      <4> QED
        BY <2>1, <2>4, <4>2
    <3> QED
      BY <1>1, <3>1, <3>2, <3>3, <3>4
  <2>5. ~Ahead(b, a)
    BY <2>4, AheadFacts
  <2> QED
    BY <2>3, <2>5
<1> QED
    BY <1>4, <1>5 DEF A, B

(* What the search keeps true of the rules it has taken so far.            *)
Takeable(input, taken) ==
    /\ \A r \in taken : candidate(input, r)
    /\ \A p, r \in taken : p # r => ~active_groups_conflict(input[p], input[r])
    /\ Popped(input, taken) \cap Empty = {}

LEMMA TakeOne ==
    ASSUME NEW input, NEW taken, NEW r, r \notin taken
    PROVE  Takeable(input, taken \cup {r}) <=> Takeable(input, taken) /\ allowed(input, taken, r)
<1>1. Popped(input, taken \cup {r}) = Popped(input, taken) \cup Popped(input, {r})
    BY DEF Popped
<1>2. Popped(input, taken \cup {r}) \cap Empty = {}
          <=> Popped(input, taken) \cap Empty = {} /\ Popped(input, {r}) \cap Empty = {}
    BY <1>1
<1>3. (\A p, q \in taken \cup {r} : p # q => ~active_groups_conflict(input[p], input[q]))
          <=> /\ \A p, q \in taken : p # q => ~active_groups_conflict(input[p], input[q])
              /\ ~\E p \in taken : active_groups_conflict(input[r], input[p])
    BY DEF active_groups_conflict
<1>4. (\A q \in taken \cup {r} : candidate(input, q))
          <=> (\A q \in taken : candidate(input, q)) /\ candidate(input, r)
    OBVIOUS
<1> QED
    BY <1>2, <1>3, <1>4 DEF Takeable, allowed

LEMMA TakeFewer ==
    ASSUME NEW input, NEW s, NEW taken \in SUBSET s, Takeable(input, s)
    PROVE  Takeable(input, taken)
<1>1. Popped(input, taken) \subseteq Popped(input, s)
    BY DEF Popped
<1> QED
    BY <1>1 DEF Takeable

(* What is left for the end is that a push into a full FIFO has its pop.   *)
LEMMA LegalFacts ==
    ASSUME NEW input, NEW s \in SUBSET Rules
    PROVE  s \in Legal(input) <=>
               /\ Takeable(input, s)
               /\ Pushed(input, s) \cap Full \subseteq Popped(input, s)
BY DEF Legal, selection_formula, Takeable, candidate

(* The search returns the best of the selections that go on from what it   *)
(* has taken, and nothing if there is none.                                *)
SuffixOf(input, left, taken) ==
    LET W == Extending(Legal(input), taken, RuleCount - left)
    IN suffix(input)[left][taken] = Bests(W) /\ (W # {} => Bests(W) # {})

(* The search at the end of the order.                                     *)
LEMMA SuffixEnd ==
    ASSUME InOrder, NEW input, NEW taken \in SUBSET Rules, Takeable(input, taken)
    PROVE  SuffixOf(input, 0, taken)
<1> DEFINE L == Legal(input)
           W == Extending(L, taken, RuleCount)
<1>1. RuleCount \in Nat /\ RuleCount - 0 = RuleCount
    BY RulesFinite
<1>2. L \in SUBSET SUBSET Rules /\ Upto(RuleCount) = Rules
    BY EmptyLegal, UptoFacts
<1>3. W = IF taken \in L THEN {taken} ELSE {}
  <2>1. \A s \in L : s \cap Upto(RuleCount) = s
    BY <1>2
  <2> QED
    BY <2>1 DEF Extending
<1>4. Bests(W) = W
    BY <1>3 DEF Bests, Ahead
<1>5. suffix(input)[0][taken] = IF taken \in L THEN {taken} ELSE {}
  <2>1. suffix(input)[0] = complete(input)
    BY SuffixStep
  <2>2. taken \in L <=> Pushed(input, taken) \cap Full \subseteq Popped(input, taken)
    BY LegalFacts
  <2> HIDE DEF L
  <2> QED
    BY <2>1, <2>2 DEF complete
<1> HIDE DEF L, W
<1>6. SuffixOf(input, 0, taken) <=> suffix(input)[0][taken] = Bests(W) /\ (W # {} => Bests(W) # {})
    BY <1>1 DEF SuffixOf, W, L
<1> QED
    BY <1>3, <1>4, <1>5, <1>6

(* One rule more: with it if a selection goes on, else without it.         *)
LEMMA SuffixMore ==
    ASSUME InOrder, NEW input, NEW left \in 1..RuleCount,
           \A taken \in SUBSET Upto(RuleCount - (left - 1)) :
               Takeable(input, taken) => SuffixOf(input, left - 1, taken),
           NEW taken \in SUBSET Upto(RuleCount - left), Takeable(input, taken)
    PROVE  SuffixOf(input, left, taken)
<1> DEFINE k == RuleCount - (left - 1)
           r == ordered_groups[k]
           L == Legal(input)
           W == Extending(L, taken, k - 1)
           A == Extending(L, taken \cup {r}, k)
           B == Extending(L, taken, k)
           shorter == suffix(input)[left - 1]
           longer == suffix(input)[left]
<1>1. RuleCount \in Nat
    BY RulesFinite
<1>2. k \in 1..RuleCount /\ k - 1 = RuleCount - left /\ RuleCount + 1 - left = k
    BY <1>1
<1>3. longer = extend(input, r, shorter)
    BY <1>2, SuffixStep
<1>4. /\ taken \in SUBSET Upto(k - 1) /\ taken \in SUBSET Upto(k)
      /\ taken \cup {r} \in SUBSET Upto(k) /\ r \notin taken
      /\ taken \in SUBSET Rules /\ taken \cup {r} \in SUBSET Rules
  <2>1. /\ Upto(k) = Upto(k - 1) \cup {r} /\ r \in Rules \ Upto(k - 1)
    BY <1>2, UptoFacts
  <2>2. Upto(k) \subseteq Rules
    <3>1. k \in 0..RuleCount
      BY <1>1, <1>2
    <3> QED
      BY <3>1, UptoFacts
  <2>3. taken \in SUBSET Upto(k - 1)
    BY <1>2
  <2> HIDE DEF k, r
  <2> QED
    BY <2>1, <2>2, <2>3
<1>5. L \in SUBSET SUBSET Rules
    BY EmptyLegal
<1>6. ASSUME NEW t \in SUBSET Upto(k), Takeable(input, t)
      PROVE  LET V == Extending(L, t, k) IN shorter[t] = Bests(V) /\ (V # {} => Bests(V) # {})
  <2>1. SuffixOf(input, left - 1, t)
    BY <1>6
  <2> QED
    BY <2>1 DEF SuffixOf
<1>7. W = A \cup B /\ \A a \in A, b \in B : Ahead(a, b) /\ ~Ahead(b, a)
  <2> HIDE DEF k, L
  <2>1. k \in 1..RuleCount /\ taken \in SUBSET Upto(k - 1)
    BY <1>2, <1>4
  <2> QED
    BY ONLY InOrder, <2>1, <1>5, Branches DEF A, B, W, r
<1>8. shorter[taken] = Bests(B) /\ (B # {} => Bests(B) # {})
    BY <1>4, <1>6
<1>9. longer[taken] =
          IF allowed(input, taken, r) /\ shorter[taken \cup {r}] # {}
          THEN shorter[taken \cup {r}] ELSE shorter[taken]
  <2> HIDE DEF longer, shorter, r
  <2> QED
    BY <1>3, <1>4 DEF extend
<1>10. SuffixOf(input, left, taken) <=> longer[taken] = Bests(W) /\ (W # {} => Bests(W) # {})
    BY <1>2 DEF SuffixOf
<1>11. \A C : Bests(C) \subseteq C
    BY DEF Bests
<1>12. allowed(input, taken, r) =>
           shorter[taken \cup {r}] = Bests(A) /\ (A # {} => Bests(A) # {})
  <2>1. SUFFICES ASSUME allowed(input, taken, r)
                 PROVE  shorter[taken \cup {r}] = Bests(A) /\ (A # {} => Bests(A) # {})
    OBVIOUS
  <2> HIDE DEF r, k
  <2>2. Takeable(input, taken \cup {r})
    BY <1>4, <2>1, TakeOne
  <2> QED
    BY <1>4, <1>6, <2>2
<1>13. ~allowed(input, taken, r) => A = {}
  <2>1. SUFFICES ASSUME ~allowed(input, taken, r), NEW s \in A PROVE FALSE
    OBVIOUS
  <2> HIDE DEF r, k, L
  <2>2. s \in L /\ s \cap Upto(k) = taken \cup {r}
    BY DEF Extending
  <2>3. s \in SUBSET Rules /\ taken \cup {r} \in SUBSET s
    BY <1>5, <2>2
  <2>4. Takeable(input, s)
    BY <2>2, <2>3, LegalFacts DEF L
  <2>5. Takeable(input, taken \cup {r})
    BY <2>3, <2>4, TakeFewer
  <2> QED
    BY <1>4, <2>1, <2>5, TakeOne
<1> HIDE DEF A, B, W, longer, shorter, r, k, L
<1>14. Bests(W) = IF A # {} THEN Bests(A) ELSE Bests(B)
    BY <1>7, BestsOfUnion
<1>15. A # {} <=> allowed(input, taken, r) /\ shorter[taken \cup {r}] # {}
    BY <1>11, <1>12, <1>13
<1>16. longer[taken] = Bests(W)
    BY <1>8, <1>9, <1>12, <1>13, <1>14, <1>15
<1>17. W # {} => Bests(W) # {}
    BY <1>7, <1>8, <1>12, <1>13, <1>14, <1>15
<1> QED
    BY <1>10, <1>16, <1>17

(* From the start, with nothing taken, the search finds the best.          *)
LEMMA SearchBest ==
    ASSUME InOrder, NEW input
    PROVE  Best(Legal(input), UNION suffix(input)[RuleCount][{}])
<1> DEFINE L == Legal(input)
           K == {left \in 0..RuleCount : \A taken \in SUBSET Upto(RuleCount - left) :
                                             Takeable(input, taken) => SuffixOf(input, left, taken)}
<1>1. RuleCount \in Nat /\ RuleCount - 0 = RuleCount /\ RuleCount - RuleCount = 0
    BY RulesFinite
<1>2. Upto(0) = {} /\ Upto(RuleCount) = Rules
    BY UptoFacts
<1>3. 0 \in K
    BY <1>1, <1>2, SuffixEnd
<1>4. ASSUME NEW left \in 1..RuleCount, left - 1 \in K PROVE left \in K
  <2>1. \A taken \in SUBSET Upto(RuleCount - (left - 1)) :
            Takeable(input, taken) => SuffixOf(input, left - 1, taken)
    BY <1>4
  <2>2. ASSUME NEW taken \in SUBSET Upto(RuleCount - left), Takeable(input, taken)
        PROVE  SuffixOf(input, left, taken)
    BY <2>1, <2>2, SuffixMore
  <2>3. left \in 0..RuleCount
    BY <1>1
  <2> QED
    BY <2>2, <2>3
<1>5. RuleCount \in K
  <2> HIDE DEF K
  <2>1. \A left \in 0..RuleCount : left \in K
    BY <1>1, <1>3, <1>4, UpTo
  <2> QED
    BY <1>1, <2>1
<1>6. Takeable(input, {})
    BY DEF Takeable, Popped
<1>7. SuffixOf(input, RuleCount, {})
    BY <1>5, <1>6
<1>8. {} \in L /\ L \in SUBSET SUBSET Rules
    BY EmptyLegal
<1>9. Extending(L, {}, RuleCount - RuleCount) = L
    BY <1>1, <1>2 DEF Extending
<1>10. suffix(input)[RuleCount][{}] = Bests(L) /\ Bests(L) # {}
    BY <1>7, <1>8, <1>9 DEF SuffixOf
<1> HIDE DEF L
<1>11. PICK s : s \in Bests(L)
    BY <1>10
<1>12. \A t : t \in Bests(L) <=> Best(L, t)
    BY DEF Bests, Best
<1>13. Bests(L) = {s}
    BY <1>8, <1>11, <1>12, OneBest
<1>14. UNION suffix(input)[RuleCount][{}] = s
    BY <1>10, <1>13
<1> QED
    BY <1>11, <1>12, <1>14 DEF L

-----------------------------------------------------------------------------
(* Both answers are the best legal selection.                              *)
LEMMA BothBest ==
    ASSUME Acyclic(priorities), conditional \in BOOLEAN, NEW input \in Inputs
    PROVE  /\ Best(Legal(input), select_action_groups(input))
           /\ Best(Legal(input), fire_functions(input))
<1>1. InOrder
    BY OrderFacts DEF InOrder
<1>2. Best(Legal(input), select_action_groups(input))
  <2>1. CASE HasFifo
    BY <1>1, <2>1, SearchBest DEF select_action_groups
  <2>2. CASE ~HasFifo
    BY <1>1, <2>2, GreedyBest DEF select_action_groups
  <2> QED
    BY <2>1, <2>2
<1>3. Best(Legal(input), fire_functions(input))
  <2>1. CASE HasFifo \/ conditional
    BY <1>1, <2>1, FormulaBest DEF fire_functions
  <2>2. CASE ~HasFifo /\ ~conditional
    <3>1. fire_functions(input) = greedy(input)[RuleCount]
      BY <1>1, <2>2, GuardOnlyIsGreedy DEF fire_functions
    <3> QED
      BY <1>1, <2>2, <3>1, GreedyBest
  <2> QED
    BY <2>1, <2>2
<1> QED
    BY <1>2, <1>3

(* There is one best selection only, so the two answers agree.             *)
LEMMA Exact ==
    ASSUME Acyclic(priorities), conditional \in BOOLEAN
    PROVE  SelectionExact
<1> SUFFICES ASSUME NEW input \in Inputs
             PROVE  /\ fire_functions(input) = select_action_groups(input)
                    /\ select_action_groups(input) \in Legal(input)
                    /\ ~\E other \in Legal(input) : Ahead(other, select_action_groups(input))
    BY DEF SelectionExact, Legal
<1>1. InOrder
    BY OrderFacts DEF InOrder
<1>2. /\ Best(Legal(input), select_action_groups(input))
      /\ Best(Legal(input), fire_functions(input))
    BY BothBest
<1>3. fire_functions(input) = select_action_groups(input)
    BY <1>1, <1>2, EmptyLegal, OneBest
<1> QED
    BY <1>2, <1>3 DEF Best

-----------------------------------------------------------------------------
(* The register of an occupancy is wide enough for it.                     *)
LEMMA PowerFacts ==
    /\ Power \in [0..Depth -> Nat] /\ Depth \in Nat \ {0}
    /\ Power[0] = 1 /\ \A w \in 1..Depth : Power[w] = 2 * Power[w - 1]
<1> DEFINE next == [w \in 1..Depth |-> [d \in Nat |-> 2 * d]]
<1>1. Depth \in Nat \ {0}
    BY SchedulerAssumption
<1>2. next \in [1..Depth -> [Nat -> Nat]]
    OBVIOUS
<1>3. PICK f \in [0..Depth -> Nat] : Recurses(f, Depth, 1, next)
  <2> HIDE DEF next
  <2>1. 1 \in Nat /\ Depth \in Nat
    BY <1>1
  <2> QED
    BY <1>2, <2>1, Recursion
<1>4. f[0] = 1 /\ \A w \in 1..Depth : f[w] = next[w][f[w - 1]]
    BY <1>3 DEF Recurses
<1>5. ASSUME NEW w \in 1..Depth PROVE f[w] = 2 * f[w - 1]
  <2>1. f[w - 1] \in Nat
    BY <1>1
  <2> QED
    BY <1>4, <2>1
<1> HIDE DEF next
<1>6. f = [w \in 0..Depth |-> IF w = 0 THEN 1 ELSE 2 * f[w - 1]]
  <2>1. ASSUME NEW w \in 0..Depth PROVE f[w] = IF w = 0 THEN 1 ELSE 2 * f[w - 1]
    <3>1. CASE w = 0
      BY <1>4, <3>1
    <3>2. CASE w # 0
      <4>1. w \in 1..Depth
        BY <1>1, <3>2
      <4> QED
        BY <1>5, <3>2, <4>1, Zenon
    <3> QED
      BY <3>1, <3>2
  <2> QED
    BY <2>1
<1>7. Power = [w \in 0..Depth |-> IF w = 0 THEN 1 ELSE 2 * Power[w - 1]]
    BY <1>6, Zenon DEF Power
<1>8. Power[0] = 1 /\ \A w \in 1..Depth : Power[w] = 2 * Power[w - 1]
    BY <1>1, <1>7
<1>9. \A w \in 0..Depth : w \in {v \in 0..Depth : Power[v] \in Nat}
  <2> DEFINE K == {v \in 0..Depth : Power[v] \in Nat}
  <2>1. 0 \in K
    BY <1>1, <1>8
  <2>2. ASSUME NEW w \in 1..Depth, w - 1 \in K PROVE w \in K
    BY <1>1, <1>8, <2>2
  <2> HIDE DEF K
  <2>3. \A w \in 0..Depth : w \in K
    BY <1>1, <2>1, <2>2, UpTo
  <2> QED
    BY <2>3 DEF K
<1> QED
  <2>1. Power = [w \in 0..Depth |-> Power[w]]
    BY <1>7
  <2>2. Power \in [0..Depth -> Nat]
    BY <1>9, <2>1
  <2> QED
    BY <1>1, <1>8, <2>2

LEMMA ModulusFacts == CountModulus \in Nat /\ CountModulus > Depth
<1> DEFINE K == {w \in 0..Depth : Power[w] > w}
           T == {w \in 1..Depth : Power[w] > Depth}
           Fits(m) == m > Depth /\ (m = 2 \/ m \div 2 <= Depth)
<1>1. /\ Power \in [0..Depth -> Nat] /\ Depth \in Nat /\ Depth \in 1..Depth
      /\ Power[0] = 1 /\ \A w \in 1..Depth : Power[w] = 2 * Power[w - 1]
    BY PowerFacts
<1>2. Power[Depth] > Depth
  <2>1. 0 \in K
    BY <1>1
  <2>2. ASSUME NEW w \in 1..Depth, w - 1 \in K PROVE w \in K
    <3>1. Power[w - 1] \in Nat /\ Power[w - 1] > w - 1 /\ Power[w] = 2 * Power[w - 1]
      BY <1>1, <2>2
    <3>2. 2 * Power[w - 1] > w
      BY <3>1
    <3> QED
      BY <1>1, <3>1, <3>2
  <2> HIDE DEF K
  <2>3. \A w \in 0..Depth : w \in K
    BY <1>1, <2>1, <2>2, UpTo
  <2> QED
    BY <1>1, <2>3 DEF K
<1>3. PICK v \in T : \A y \in T : v <= y
  <2>1. T \subseteq Nat /\ T # {}
    <3>1. Depth \in T
      BY <1>1, <1>2
    <3>2. T \subseteq Nat
      OBVIOUS
    <3> HIDE DEF T
    <3> QED
      BY <3>1, <3>2
  <2> HIDE DEF T
  <2> QED
    BY <2>1, Least
<1>4. v \in 1..Depth /\ Power[v] > Depth /\ Power[v] \in Nat
    BY <1>1, <1>3
<1>5. Power[v] = 2 \/ Power[v] \div 2 <= Depth
  <2>1. CASE v = 1
    BY <1>1, <1>4, <2>1
  <2>2. CASE v # 1
    <3>1. v - 1 \in 1..Depth /\ v - 1 \notin T /\ Power[v - 1] \in Nat
      BY <1>1, <1>3, <1>4, <2>2
    <3>2. Power[v - 1] <= Depth
      BY <1>1, <3>1
    <3>3. Power[v] = 2 * Power[v - 1]
      BY <1>1, <1>4
    <3>4. Power[v] \div 2 = Power[v - 1]
      BY <3>1, <3>3
    <3> QED
      BY <3>2, <3>4
  <2> QED
    BY <2>1, <2>2
<1>6. \E m \in {Power[w] : w \in 1..Depth} : Fits(m)
    BY <1>4, <1>5
<1>7. CountModulus = CHOOSE m \in {Power[w] : w \in 1..Depth} : Fits(m)
    BY DEF CountModulus
<1> HIDE DEF Fits
<1>8. CountModulus \in {Power[w] : w \in 1..Depth} /\ Fits(CountModulus)
    BY <1>6, <1>7
<1> QED
    BY <1>1, <1>8 DEF Fits

-----------------------------------------------------------------------------
(* The inductive invariant: with priorities that have no cycle, the types. *)
SchedulerInv == SchedulerTypeOK /\ Acyclic(priorities)

LEMMA SchedulerInitInv == SchedulerInit => SchedulerInv
<1> SUFFICES ASSUME SchedulerInit PROVE SchedulerInv
    OBVIOUS
<1>1. /\ program \in Programs /\ conditional \in BOOLEAN
      /\ priorities \subseteq Rules \X Rules /\ Acyclic(priorities)
    BY DEF SchedulerInit
<1>2. count \in [Fifos -> 0..Depth]
    BY SchedulerAssumption DEF SchedulerInit
<1>3. \A x \in Registers : written[x] \subseteq Rules /\ Cardinality(written[x]) <= 1
  <2>1. Cardinality({}) = 0
    BY FS_EmptySet
  <2> QED
    BY <2>1 DEF SchedulerInit
<1> QED
    BY <1>1, <1>2, <1>3 DEF SchedulerInv, SchedulerTypeOK

LEMMA SchedulerEdgeInv ==
    ASSUME SchedulerInv, NEW input \in Inputs, SchedulerEdge(input)
    PROVE  SchedulerInv'
<1> DEFINE fire == fire_functions(input)
           push == Pushed(input, fire)
           pop == Popped(input, fire)
<1>1. /\ Acyclic(priorities) /\ conditional \in BOOLEAN
      /\ count \in [Fifos -> 0..Depth] /\ Depth \in Nat
    BY SchedulerAssumption DEF SchedulerInv, SchedulerTypeOK
<1>2. fire \in SUBSET Rules /\ selection_formula(input, fire)
  <2>1. Best(Legal(input), fire)
    BY <1>1, BothBest
  <2> QED
    BY <2>1 DEF Best, Legal
<1>3. /\ count' = [f \in Fifos |->
              CASE f \in push \ pop -> (count[f] + 1) % CountModulus
                [] f \in pop \ push -> (count[f] - 1) % CountModulus
                [] OTHER -> count[f]]
      /\ written' = [x \in Registers |-> {r \in fire : <<x, "write">> \in input[r]}]
      /\ program' = program /\ conditional' = conditional /\ priorities' = priorities
    BY DEF SchedulerEdge
<1> HIDE DEF fire
<1>4. pop \cap Empty = {} /\ push \cap Full \subseteq pop
    BY <1>2 DEF selection_formula
<1> HIDE DEF push, pop
<1>5. ASSUME NEW f \in Fifos PROVE count'[f] \in 0..Depth
  <2>1. count[f] \in 0..Depth /\ CountModulus \in Nat /\ CountModulus > Depth
    BY <1>1, ModulusFacts
  <2>2. CASE f \in push \ pop
    <3>1. count'[f] = (count[f] + 1) % CountModulus
      BY <1>3, <2>2
    <3>2. ~(count[f] >= Depth)
      BY <1>4, <2>2 DEF Full
    <3>3. count[f] + 1 \in 0..Depth
      BY <1>1, <2>1, <3>2
    <3>4. (count[f] + 1) % CountModulus = count[f] + 1
      BY <1>1, <2>1, <3>3
    <3> QED
      BY <3>1, <3>3, <3>4
  <2>3. CASE f \in pop \ push
    <3>1. count'[f] = (count[f] - 1) % CountModulus
      BY <1>3, <2>3
    <3>2. count[f] # 0
      BY <1>4, <2>3 DEF Empty
    <3>3. count[f] - 1 \in 0..Depth
      BY <1>1, <2>1, <3>2
    <3>4. (count[f] - 1) % CountModulus = count[f] - 1
      BY <1>1, <2>1, <3>3
    <3> QED
      BY <3>1, <3>3, <3>4
  <2>4. CASE f \notin push \ pop /\ f \notin pop \ push
    BY <1>3, <2>1, <2>4
  <2> QED
    BY <2>2, <2>3, <2>4
<1>6. count' \in [Fifos -> 0..Depth]
  <2>1. count' = [f \in Fifos |-> count'[f]]
    BY <1>3
  <2> QED
    BY <1>5, <2>1
<1>7. ASSUME NEW x \in Registers PROVE written'[x] \subseteq Rules /\ Cardinality(written'[x]) <= 1
  <2> DEFINE W == {r \in fire : <<x, "write">> \in input[r]}
  <2>1. written'[x] = W
    BY <1>3
  <2>2. ASSUME NEW p \in W, NEW r \in W PROVE p = r
    BY <1>2 DEF selection_formula, active_groups_conflict
  <2>3. W \subseteq Rules
    BY <1>2
  <2> HIDE DEF W
  <2>4. Cardinality(W) <= 1
    <3>1. CASE W = {}
      BY <3>1, FS_EmptySet
    <3>2. CASE W # {}
      <4>1. PICK p : p \in W
        BY <3>2
      <4>2. W = {p}
        BY <2>2, <4>1
      <4>3. Cardinality({p}) = 1
        BY FS_Singleton
      <4> QED
        BY <4>2, <4>3
    <3> QED
      BY <3>1, <3>2
  <2> QED
    BY <2>1, <2>3, <2>4
<1>8. /\ (program \in Programs)' /\ (conditional \in BOOLEAN)'
      /\ (priorities \subseteq Rules \X Rules)' /\ Acyclic(priorities)'
    BY <1>3 DEF SchedulerInv, SchedulerTypeOK, Acyclic
<1> QED
    BY <1>6, <1>7, <1>8 DEF SchedulerInv, SchedulerTypeOK

LEMMA SchedulerNextInv == SchedulerInv /\ [SchedulerNext]_schedulerVars => SchedulerInv'
<1> SUFFICES ASSUME SchedulerInv, [SchedulerNext]_schedulerVars PROVE SchedulerInv'
    OBVIOUS
<1>1. ASSUME NEW input \in Inputs, SchedulerEdge(input) PROVE SchedulerInv'
    BY <1>1, SchedulerEdgeInv
<1>2. CASE SchedulerReset
  <2>1. /\ count' = [f \in Fifos |-> 0] /\ written' = [x \in Registers |-> {}]
        /\ program' = program /\ conditional' = conditional /\ priorities' = priorities
    BY <1>2 DEF SchedulerReset
  <2>2. count' \in [Fifos -> 0..Depth]
    BY <2>1, SchedulerAssumption
  <2>3. \A x \in Registers : written'[x] \subseteq Rules /\ Cardinality(written'[x]) <= 1
    <3>1. Cardinality({}) = 0
      BY FS_EmptySet
    <3> QED
      BY <2>1, <3>1
  <2> QED
    BY <2>1, <2>2, <2>3 DEF SchedulerInv, SchedulerTypeOK, Acyclic
<1>3. CASE UNCHANGED schedulerVars
    BY <1>3 DEF schedulerVars, SchedulerInv, SchedulerTypeOK, Acyclic
<1> QED
    BY <1>1, <1>2, <1>3 DEF SchedulerNext

LEMMA SchedulerInvHolds == SchedulerSpec => []SchedulerInv
BY SchedulerInitInv, SchedulerNextInv, PTL DEF SchedulerSpec

(* A scheduled FIFO is never pushed beyond its depth or popped below zero, *)
(* and a register is written by one rule at an edge at most, for any       *)
(* number of rules and any depth: the FIFOs check nothing themselves.      *)
THEOREM SchedulerTypeCorrect == SchedulerSpec => []SchedulerTypeOK
<1>1. SchedulerInv => SchedulerTypeOK
    BY DEF SchedulerInv
<1> QED
    BY <1>1, SchedulerInvHolds, PTL

(* The search of select_action_groups and the fire functions of            *)
(* selection_regions_for_transition select the same rules, the best legal  *)
(* selection, for any number of rules, any program and any priorities      *)
(* without a cycle.                                                        *)
THEOREM SelectionAlwaysExact == SchedulerSpec => []SelectionExact
<1>1. SchedulerInv => SelectionExact
    BY Exact DEF SchedulerInv, SchedulerTypeOK
<1> QED
    BY <1>1, SchedulerInvHolds, PTL

-----------------------------------------------------------------------------
(* The artifact provider, for every number of sessions, threads and        *)
(* recipes.  That nobody waits for a flight that has ended needs to be     *)
(* proved together with what the table says: a thread that joins finds its *)
(* leader in the table, so the table may name only threads that work.      *)
(*                                                                         *)
(* What the memory and the files hold is proved on top of it.  That nobody *)
(* works for what the memory has needs the table again: the one who adds   *)
(* an entry is the only one at its recipe.                                 *)

FlightInv == FlightTypeOK /\ OneFlight /\ NoOrphan

flightVars == <<pending, pc, recipe, leader>>

LEMMA NobodyIsNone == None \notin Threads
  BY ProviderAssumption

LEMMA HomeType == \A t \in Threads : Home[t] \in Sessions
  BY ProviderAssumption

(* A step of a leader that stays at work, or that leaves the table alone.  *)
LEMMA StillLeading ==
  ASSUME FlightInv, NEW t \in Threads, pc[t] \in Leading, NEW place \in Leading,
         Goto(t, place), UNCHANGED <<pending, recipe, leader>>
  PROVE  FlightInv'
  <1>1. FlightTypeOK'
    BY DEF FlightInv, FlightTypeOK, Goto, Leading
  <1>2. OneFlight'
    BY DEF FlightInv, FlightTypeOK, OneFlight, Goto
  <1>3. NoOrphan'
    BY DEF FlightInv, FlightTypeOK, NoOrphan, Goto, Leading
  <1> QED BY <1>1, <1>2, <1>3 DEF FlightInv

LEMMA FlightUnchanged ==
  ASSUME FlightInv, UNCHANGED flightVars
  PROVE  FlightInv'
  BY DEF FlightInv, flightVars, FlightTypeOK, OneFlight, NoOrphan

LEMMA HitStep ==
  ASSUME FlightInv, NEW t \in Threads, NEW r \in Recipes, Hit(t, r)
  PROVE  FlightInv'
  BY FlightUnchanged DEF Hit, threadVars, flightVars

LEMMA LeadStep ==
  ASSUME FlightInv, NEW t \in Threads, NEW r \in Recipes, Lead(t, r)
  PROVE  FlightInv'
  <1>1. /\ pc[t] = "idle" /\ pending[Home[t]][r] = None
        /\ pending' = [pending EXCEPT ![Home[t]][r] = t]
        /\ recipe' = [recipe EXCEPT ![t] = r]
        /\ pc' = [pc EXCEPT ![t] = "load"]
        /\ UNCHANGED leader
    BY DEF Lead, Goto
  <1>2. FlightTypeOK'
    BY <1>1, HomeType DEF FlightInv, FlightTypeOK, Leading
  <1>3. ASSUME NEW u \in Threads, pc'[u] \in Leading
        PROVE  pending'[Home[u]][recipe'[u]] = u
    <2>1. CASE u = t
      BY <1>1, <2>1, HomeType DEF FlightInv, FlightTypeOK
    <2>2. CASE u # t
      <3>1. pc[u] \in Leading /\ pending[Home[u]][recipe[u]] = u /\ recipe'[u] = recipe[u]
        BY <1>1, <1>3, <2>2 DEF FlightInv, FlightTypeOK, OneFlight
      <3>2. ~(Home[u] = Home[t] /\ recipe[u] = r)
        BY <1>1, <3>1, NobodyIsNone
      <3> QED BY <1>1, <3>1, <3>2, HomeType DEF FlightInv, FlightTypeOK
    <2> QED BY <2>1, <2>2
  <1>4. ASSUME NEW s \in Sessions, NEW q \in Recipes, pending'[s][q] # None
        PROVE  /\ pc'[pending'[s][q]] \in Leading
               /\ Home[pending'[s][q]] = s /\ recipe'[pending'[s][q]] = q
    <2>1. CASE s = Home[t] /\ q = r
      <3>1. pending'[s][q] = t
        BY <1>1, <2>1, HomeType DEF FlightInv, FlightTypeOK
      <3> QED BY <1>1, <2>1, <3>1 DEF FlightInv, FlightTypeOK, Leading
    <2>2. CASE ~(s = Home[t] /\ q = r)
      <3>1. pending'[s][q] = pending[s][q]
        BY <1>1, <2>2 DEF FlightInv, FlightTypeOK
      <3>2. pending[s][q] # t
        BY <1>1, <1>4, <3>1 DEF FlightInv, OneFlight, Leading
      <3>3. pending[s][q] \in Threads
        BY <1>4, <3>1 DEF FlightInv, FlightTypeOK
      <3> QED BY <1>1, <1>4, <3>1, <3>2, <3>3 DEF FlightInv, FlightTypeOK, OneFlight
    <2> QED BY <2>1, <2>2
  <1>5. OneFlight'
    BY <1>3, <1>4 DEF OneFlight
  <1>6. NoOrphan'
    BY <1>1 DEF FlightInv, FlightTypeOK, NoOrphan, Leading
  <1> QED BY <1>2, <1>5, <1>6 DEF FlightInv

LEMMA JoinStep ==
  ASSUME FlightInv, NEW t \in Threads, NEW r \in Recipes, Join(t, r)
  PROVE  FlightInv'
  <1>1. /\ pc[t] = "idle" /\ pending[Home[t]][r] # None
        /\ leader' = [leader EXCEPT ![t] = pending[Home[t]][r]]
        /\ recipe' = [recipe EXCEPT ![t] = r]
        /\ pc' = [pc EXCEPT ![t] = "wait"]
        /\ UNCHANGED pending
    BY DEF Join, Goto
  <1>2. FlightTypeOK'
    BY <1>1, HomeType DEF FlightInv, FlightTypeOK
  <1>3. OneFlight'
    BY <1>1 DEF FlightInv, FlightTypeOK, OneFlight, Leading
  <1>4. ASSUME NEW u \in Threads, pc'[u] = "wait"
        PROVE  /\ leader'[u] \in Threads /\ pc'[leader'[u]] \in Leading
               /\ Home[leader'[u]] = Home[u] /\ recipe'[leader'[u]] = recipe'[u]
    <2>1. CASE u = t
      <3> DEFINE l == pending[Home[t]][r]
      <3>1. l \in Threads /\ pc[l] \in Leading /\ Home[l] = Home[t] /\ recipe[l] = r
        BY <1>1, HomeType DEF FlightInv, FlightTypeOK, OneFlight
      <3>2. l # t
        BY <1>1, <3>1 DEF Leading
      <3>3. leader'[u] = l
        BY <1>1, <2>1 DEF FlightInv, FlightTypeOK
      <3> HIDE DEF l
      <3> QED BY <1>1, <2>1, <3>1, <3>2, <3>3 DEF FlightInv, FlightTypeOK
    <2>2. CASE u # t
      <3>1. pc[u] = "wait" /\ leader'[u] = leader[u] /\ recipe'[u] = recipe[u]
        BY <1>1, <1>4, <2>2 DEF FlightInv, FlightTypeOK
      <3>2. /\ leader[u] \in Threads /\ pc[leader[u]] \in Leading
            /\ Home[leader[u]] = Home[u] /\ recipe[leader[u]] = recipe[u]
        BY <3>1 DEF FlightInv, NoOrphan
      <3>3. leader[u] # t
        BY <1>1, <3>2 DEF Leading
      <3> QED BY <1>1, <3>1, <3>2, <3>3 DEF FlightInv, FlightTypeOK
    <2> QED BY <2>1, <2>2
  <1>5. NoOrphan'
    BY <1>4 DEF NoOrphan
  <1> QED BY <1>2, <1>3, <1>5 DEF FlightInv

(* The end of a flight leaves nobody behind: all who wait for it are woken *)
(* in the same critical section.                                           *)
LEMMA FinishStep ==
  ASSUME FlightInv, NEW t \in Threads, Finish(t)
  PROVE  FlightInv'
  <1>1. /\ pc[t] = "finish" /\ pc[t] \in Leading
        /\ pending' = [pending EXCEPT ![Home[t]][recipe[t]] = None]
        /\ pc' = [u \in Threads |-> IF u \in Followers(t) THEN "woken"
                                    ELSE IF u = t THEN "idle" ELSE pc[u]]
        /\ recipe' = [recipe EXCEPT ![t] = None] /\ UNCHANGED leader
    BY DEF Finish, Leading
  <1>2. FlightTypeOK'
    BY <1>1, HomeType DEF FlightInv, FlightTypeOK
  <1>3. \A u \in Threads : pc'[u] \in Leading => pc[u] \in Leading /\ u # t /\ pc'[u] = pc[u]
    BY <1>1 DEF Leading
  <1>4. \A u \in Threads : pc[u] \in Leading /\ u # t => pc'[u] = pc[u]
    BY <1>1 DEF Leading, Followers
  <1>5. ASSUME NEW u \in Threads, pc'[u] \in Leading
        PROVE  pending'[Home[u]][recipe'[u]] = u
    <2>1. /\ pc[u] \in Leading /\ u # t
          /\ pending[Home[u]][recipe[u]] = u /\ pending[Home[t]][recipe[t]] = t
      BY <1>1, <1>3, <1>5 DEF FlightInv, OneFlight
    <2>2. ~(Home[u] = Home[t] /\ recipe[u] = recipe[t])
      BY <2>1
    <2> QED BY <1>1, <2>1, <2>2, HomeType DEF FlightInv, FlightTypeOK
  <1>6. ASSUME NEW s \in Sessions, NEW q \in Recipes, pending'[s][q] # None
        PROVE  /\ pc'[pending'[s][q]] \in Leading
               /\ Home[pending'[s][q]] = s /\ recipe'[pending'[s][q]] = q
    <2>1. ~(s = Home[t] /\ q = recipe[t]) /\ pending'[s][q] = pending[s][q]
      BY <1>1, <1>6 DEF FlightInv, FlightTypeOK
    <2>2. pending[s][q] \in Threads /\ pending[s][q] # t
      BY <1>6, <2>1 DEF FlightInv, FlightTypeOK, OneFlight
    <2> QED BY <1>1, <1>4, <1>6, <2>1, <2>2 DEF FlightInv, FlightTypeOK, OneFlight
  <1>7. OneFlight'
    BY <1>5, <1>6 DEF OneFlight
  <1>8. ASSUME NEW u \in Threads, pc'[u] = "wait"
        PROVE  /\ leader'[u] \in Threads /\ pc'[leader'[u]] \in Leading
               /\ Home[leader'[u]] = Home[u] /\ recipe'[leader'[u]] = recipe'[u]
    <2>1. pc[u] = "wait" /\ leader[u] # t /\ u # t
      BY <1>1, <1>8 DEF Followers
    <2> QED BY <1>1, <1>4, <2>1 DEF FlightInv, FlightTypeOK, NoOrphan
  <1>9. NoOrphan'
    BY <1>8 DEF NoOrphan
  <1> QED BY <1>2, <1>7, <1>9 DEF FlightInv

LEMMA WakeStep ==
  ASSUME FlightInv, NEW t \in Threads, Wake(t)
  PROVE  FlightInv'
  <1>1. /\ pc[t] = "woken" /\ pc' = [pc EXCEPT ![t] = "idle"]
        /\ leader' = [leader EXCEPT ![t] = None]
        /\ recipe' = [recipe EXCEPT ![t] = None] /\ UNCHANGED pending
    BY DEF Wake, Goto
  <1>2. FlightTypeOK'
    BY <1>1 DEF FlightInv, FlightTypeOK
  <1>3. OneFlight'
    BY <1>1 DEF FlightInv, FlightTypeOK, OneFlight, Leading
  <1>4. NoOrphan'
    BY <1>1 DEF FlightInv, FlightTypeOK, NoOrphan, Leading
  <1> QED BY <1>2, <1>3, <1>4 DEF FlightInv

(* A session is killed with its flights and with all who wait for them.    *)
LEMMA CrashStep ==
  ASSUME FlightInv, NEW s \in Sessions, Crash(s)
  PROVE  FlightInv'
  <1>1. /\ pending' = [pending EXCEPT ![s] = [r \in Recipes |-> None]]
        /\ pc' = [t \in Threads |-> IF Home[t] = s THEN "idle" ELSE pc[t]]
        /\ recipe' = [t \in Threads |-> IF Home[t] = s THEN None ELSE recipe[t]]
        /\ leader' = [t \in Threads |-> IF Home[t] = s THEN None ELSE leader[t]]
    BY DEF Crash
  <1>2. FlightTypeOK'
    BY <1>1 DEF FlightInv, FlightTypeOK
  <1>3. ASSUME NEW u \in Threads, pc'[u] \in Leading
        PROVE  pending'[Home[u]][recipe'[u]] = u
    <2>1. Home[u] # s
      BY <1>1, <1>3 DEF Leading
    <2> QED BY <1>1, <1>3, <2>1, HomeType DEF FlightInv, FlightTypeOK, OneFlight
  <1>4. ASSUME NEW p \in Sessions, NEW q \in Recipes, pending'[p][q] # None
        PROVE  /\ pc'[pending'[p][q]] \in Leading
               /\ Home[pending'[p][q]] = p /\ recipe'[pending'[p][q]] = q
    <2>1. p # s /\ pending'[p][q] = pending[p][q]
      BY <1>1, <1>4 DEF FlightInv, FlightTypeOK
    <2>2. pending[p][q] \in Threads /\ Home[pending[p][q]] = p
      BY <1>4, <2>1 DEF FlightInv, FlightTypeOK, OneFlight
    <2> QED BY <1>1, <1>4, <2>1, <2>2 DEF FlightInv, OneFlight
  <1>5. OneFlight'
    BY <1>3, <1>4 DEF OneFlight
  <1>6. NoOrphan'
    <2> SUFFICES ASSUME NEW u \in Threads, pc'[u] = "wait"
                 PROVE  /\ leader'[u] \in Threads /\ pc'[leader'[u]] \in Leading
                        /\ Home[leader'[u]] = Home[u] /\ recipe'[leader'[u]] = recipe'[u]
      BY DEF NoOrphan
    <2>1. Home[u] # s /\ pc[u] = "wait"
      BY <1>1
    <2> QED BY <1>1, <2>1 DEF FlightInv, NoOrphan
  <1> QED BY <1>2, <1>5, <1>6 DEF FlightInv

(* A leader's own steps before the end of its flight.                      *)
LEMMA WorkStep ==
  ASSUME FlightInv, NEW t \in Threads,
         Load(t) \/ Prepare(t) \/ Stage(t) \/ Replace(t) \/ Remember(t)
  PROVE  FlightInv'
  <1>1. pc[t] \in Leading /\ UNCHANGED <<pending, recipe, leader>>
    BY DEF Load, Prepare, Stage, Replace, Remember, Leading
  <1>2. \E place \in Leading : Goto(t, place)
    <2>1. CASE Load(t)
      BY <2>1 DEF Load, Leading
    <2>2. CASE Prepare(t)
      BY <2>2 DEF Prepare, Leading
    <2>3. CASE Stage(t) \/ Replace(t) \/ Remember(t)
      BY <2>3 DEF Stage, Replace, Remember, Leading
    <2> QED BY <2>1, <2>2, <2>3
  <1> QED BY <1>1, <1>2, StillLeading

LEMMA FlightInit == Init => FlightInv
  BY NobodyIsNone DEF Init, FlightInv, FlightTypeOK, OneFlight, NoOrphan, Leading

LEMMA FlightNext == FlightInv /\ [Next]_vars => FlightInv'
  <1> SUFFICES ASSUME FlightInv, [Next]_vars PROVE FlightInv'
    OBVIOUS
  <1>1. ASSUME NEW t \in Threads, NEW r \in Recipes, Hit(t, r) \/ Lead(t, r) \/ Join(t, r)
        PROVE  FlightInv'
    BY <1>1, HitStep, LeadStep, JoinStep
  <1>2. ASSUME NEW t \in Threads, Flight(t) \/ Wake(t)
        PROVE  FlightInv'
    BY <1>2, WorkStep, FinishStep, WakeStep DEF Flight
  <1>3. ASSUME NEW s \in Sessions, clear_memory(s) \/ Alter(s) \/ Crash(s)
        PROVE  FlightInv'
    <2>1. CASE clear_memory(s) \/ Alter(s)
      BY <2>1, FlightUnchanged DEF clear_memory, Alter, threadVars, flightVars
    <2> QED BY <1>3, <2>1, CrashStep
  <1>4. ASSUME NEW r \in Durable, Tamper(r)
        PROVE  FlightInv'
    BY <1>4, FlightUnchanged DEF Tamper, threadVars, flightVars
  <1>5. CASE UNCHANGED vars
    BY <1>5, FlightUnchanged DEF vars, threadVars, flightVars
  <1> QED BY <1>1, <1>2, <1>3, <1>4, <1>5 DEF Next

(* memoize never has two threads of a session at one recipe, and an        *)
(* exception, a failed publication or a kill leaves no entry in _pending.  *)
THEOREM OneFlightHolds == Spec => []OneFlight
  BY FlightInit, FlightNext, PTL DEF Spec, FlightInv

(* Nobody is left waiting at pending.ready for a flight that has ended.    *)
THEOREM NoOrphanHolds == Spec => []NoOrphan
  BY FlightInit, FlightNext, PTL DEF Spec, FlightInv

-----------------------------------------------------------------------------
(* The memory of a session: one entry for a recipe, and each of a decisive *)
(* value of it.                                                            *)
Good(q) ==
  /\ q \in Seq(Entries)
  /\ \A i, j \in 1..Len(q) : q[i].recipe = q[j].recipe => i = j
  /\ \A i \in 1..Len(q) : q[i].value = Decisive(q[i].recipe)

Lacks(q, r) == \A i \in 1..Len(q) : q[i].recipe # r
Within(q, p) == \A i \in 1..Len(q) : \E j \in 1..Len(p) : q[i] = p[j]

(* What it is for the memory to have no entry of a recipe.                 *)
LEMMA EntryKept ==
  ASSUME NEW s \in Sessions, Good(memory[s]), NEW r
  PROVE  /\ KeptOf(s, r) = {} <=> Lacks(memory[s], r)
         /\ KeptOf(s, r) = {e \in {memory[s][i] : i \in 1..Len(memory[s])} : e.recipe = r}
  <1>1. DOMAIN memory[s] = 1..Len(memory[s])
    BY DEF Good
  <1> QED BY <1>1 DEF KeptOf, Lacks

(* Taking an entry out leaves the others, in their order.                  *)
LEMMA WithoutFacts ==
  ASSUME NEW s \in Sessions, Good(memory[s]), NEW r
  PROVE  /\ Good(Without(s, r)) /\ Lacks(Without(s, r), r) /\ Within(Without(s, r), memory[s])
         /\ Len(Without(s, r)) <= Len(memory[s])
         /\ KeptOf(s, r) # {} => Len(Without(s, r)) = Len(memory[s]) - 1
  <1> DEFINE q == memory[s]
             place == CHOOSE i \in DOMAIN q : q[i].recipe = r
             p == Without(s, r)
  <1>0. Len(q) \in Nat /\ DOMAIN q = 1..Len(q) /\ \A i \in 1..Len(q) : q[i] \in Entries
    BY DEF Good
  <1>1. CASE KeptOf(s, r) = {}
    <2>1. p = q /\ Lacks(q, r)
      BY <1>1, EntryKept DEF Without
    <2> QED BY <1>0, <1>1, <2>1 DEF Within
  <1>2. CASE KeptOf(s, r) # {}
    <2>1. PICK k \in 1..Len(q) : q[k].recipe = r
      BY <1>2, EntryKept DEF Lacks
    <2>2. place \in DOMAIN q /\ q[place].recipe = r
      BY <1>0, <2>1
    <2>3. p = [i \in 1..(Len(q) - 1) |-> IF i < place THEN q[i] ELSE q[i + 1]]
      BY <1>2 DEF Without
    <2> HIDE DEF place, p
    <2>4. place \in 1..Len(q)
      BY <1>0, <2>2
    <2>5. Len(q) - 1 \in Nat
      BY <1>0, <2>1
    <2>6. p \in [1..(Len(q) - 1) -> Entries]
      <3>1. \A i \in 1..(Len(q) - 1) : (IF i < place THEN q[i] ELSE q[i + 1]) \in Entries
        BY <1>0, <2>4
      <3> QED BY <2>3, <3>1
    <2>7. p \in Seq(Entries) /\ Len(p) = Len(q) - 1
      BY <2>5, <2>6, SeqDef, LenProperties
    <2>8. \A i \in 1..(Len(q) - 1) : p[i] = IF i < place THEN q[i] ELSE q[i + 1]
      BY <2>3
    <2>9. ASSUME NEW i \in 1..Len(p)
          PROVE  \E j \in 1..Len(q) : j # place /\ p[i] = q[j] /\ j = (IF i < place THEN i ELSE i + 1)
      <3>1. CASE i < place
        BY <1>0, <2>4, <2>7, <2>8, <3>1
      <3>2. CASE ~(i < place)
        <4>1. i + 1 \in 1..Len(q) /\ i + 1 # place /\ p[i] = q[i + 1]
          BY <1>0, <2>4, <2>7, <2>8, <3>2
        <4> QED BY <3>2, <4>1
      <3> QED BY <3>1, <3>2
    <2>10. Lacks(p, r)
      BY <2>2, <2>4, <2>9 DEF Lacks, Good
    <2>11. Within(p, q)
      BY <2>9 DEF Within
    <2>12. \A i \in 1..Len(p) : p[i].value = Decisive(p[i].recipe)
      BY <2>9 DEF Good
    <2>13. ASSUME NEW i \in 1..Len(p), NEW j \in 1..Len(p), p[i].recipe = p[j].recipe
           PROVE  i = j
      <3>1. PICK i2 \in 1..Len(q) : p[i] = q[i2] /\ i2 = (IF i < place THEN i ELSE i + 1)
        BY <2>9
      <3>2. PICK j2 \in 1..Len(q) : p[j] = q[j2] /\ j2 = (IF j < place THEN j ELSE j + 1)
        BY <2>9
      <3>3. i2 = j2
        BY <2>13, <3>1, <3>2 DEF Good
      <3>4. i \in Nat /\ j \in Nat /\ place \in Nat
        BY <2>4, <2>7
      <3> QED BY <3>1, <3>2, <3>3, <3>4
    <2>14. Good(p)
      BY <2>7, <2>12, <2>13 DEF Good
    <2> QED BY <1>0, <1>2, <2>7, <2>10, <2>11, <2>14 DEF p
  <1> QED BY <1>1, <1>2

(* An entry that is added is the newest.                                   *)
LEMMA EntryAppended ==
  ASSUME NEW q, Good(q), NEW e \in Entries, Lacks(q, e.recipe), e.value = Decisive(e.recipe)
  PROVE  /\ Good(Append(q, e)) /\ Len(Append(q, e)) = Len(q) + 1
         /\ \A i \in 1..(Len(q) + 1) : Append(q, e)[i] = IF i = Len(q) + 1 THEN e ELSE q[i]
  <1> DEFINE p == Append(q, e)
  <1>0. q \in Seq(Entries) /\ Len(q) \in Nat
    BY DEF Good
  <1>1. p \in Seq(Entries) /\ Len(p) = Len(q) + 1
    BY <1>0
  <1>2. \A i \in 1..(Len(q) + 1) : p[i] = IF i = Len(q) + 1 THEN e ELSE q[i]
    BY <1>0
  <1> HIDE DEF p
  <1>3. \A i \in 1..(Len(q) + 1) : i = Len(q) + 1 \/ i \in 1..Len(q)
    BY <1>0
  <1>4. \A i \in 1..Len(p) : p[i].value = Decisive(p[i].recipe)
    BY <1>1, <1>2, <1>3 DEF Good
  <1>5. \A i, j \in 1..Len(p) : p[i].recipe = p[j].recipe => i = j
    BY <1>1, <1>2, <1>3 DEF Good, Lacks
  <1> QED BY <1>1, <1>2, <1>4, <1>5 DEF Good, p

(* The oldest entries make room.                                           *)
LEMMA NewestFacts ==
  ASSUME NEW q, Good(q)
  PROVE  Good(Newest(q)) /\ Len(Newest(q)) <= MaxEntries /\ Within(Newest(q), q)
  <1>0. q \in Seq(Entries) /\ Len(q) \in Nat /\ MaxEntries \in Nat \ {0}
    BY ProviderAssumption DEF Good
  <1>1. CASE Len(q) <= MaxEntries
    BY <1>0, <1>1 DEF Newest, Within
  <1>2. CASE Len(q) > MaxEntries
    <2> DEFINE p == Newest(q)
               m == Len(q) - MaxEntries
    <2>1. p = SubSeq(q, m + 1, Len(q)) /\ m \in Nat
      BY <1>0, <1>2 DEF Newest
    <2>2. p \in Seq(Entries) /\ Len(p) = MaxEntries /\ \A i \in 1..MaxEntries : p[i] = q[m + i]
      BY <1>0, <1>2, <2>1
    <2> HIDE DEF p
    <2>3. \A i \in 1..Len(p) : m + i \in 1..Len(q) /\ p[i] = q[m + i]
      BY <1>0, <1>2, <2>2
    <2>4. \A i, j \in 1..Len(p) : p[i].recipe = p[j].recipe => i = j
      <3> SUFFICES ASSUME NEW i \in 1..Len(p), NEW j \in 1..Len(p), p[i].recipe = p[j].recipe
                   PROVE  i = j
        OBVIOUS
      <3>1. m + i = m + j
        BY <2>3 DEF Good
      <3> QED BY <1>0, <2>1, <2>2, <3>1
    <2>5. \A i \in 1..Len(p) : p[i].value = Decisive(p[i].recipe)
      BY <2>3 DEF Good
    <2>6. Within(p, q)
      BY <2>3 DEF Within
    <2> QED BY <1>0, <2>2, <2>4, <2>5, <2>6 DEF Good, p
  <1> QED BY <1>0, <1>1, <1>2

-----------------------------------------------------------------------------
MemoryOK ==
  /\ memory \in [Sessions -> Seq(Entries)]
  /\ \A s \in Sessions : Good(memory[s]) /\ Len(memory[s]) <= MaxEntries

(* What a call gives is of its recipe, and what is to be kept is decisive. *)
OutcomeOK ==
  /\ disk \in [Recipes -> Contents]
  /\ diagnostics \in [Sessions -> SUBSET Recipes]
  /\ outcome \in [Threads -> Values \cup {None, Failed}]
  /\ \A t \in Threads : pc[t] # "idle" => recipe[t] \in Recipes
  /\ \A t \in Threads : outcome[t] \in Values => outcome[t].of = recipe[t]
  /\ \A t \in Threads :
        pc[t] \in {"publish", "staged", "remember"} => outcome[t] = Decisive(recipe[t])

ProviderInv == FlightInv /\ MemoryOK /\ OutcomeOK /\ NoRepeat

(* An outcome is a value, an exception or nothing.                         *)
LEMMA NotValues == None \notin Values /\ Failed \notin Values
  <1>1. ASSUME NEW v \in Values PROVE v # Failed
    <2>1. DOMAIN v = {"of", "decisive"}
      BY DEF Values
    <2>2. DOMAIN Failed = {"error"}
      BY DEF Failed
    <2> QED BY <2>1, <2>2
  <1> QED BY <1>1, ProviderAssumption

(* What is accepted of a file is the decisive value of its recipe.         *)
LEMMA DecisiveFacts ==
  ASSUME NEW r \in Recipes
  PROVE  /\ Decisive(r) \in Values /\ Decisive(r).of = r
         /\ \A v : Accepted(r, v) => v = Decisive(r)
  <1>1. Decisive(r) \in Values /\ Decisive(r).of = r
    BY DEF Decisive, Values
  <1>2. ASSUME NEW v, Accepted(r, v) PROVE v = Decisive(r)
    BY <1>2 DEF Accepted, cacheable, Values, Decisive
  <1> QED BY <1>1, <1>2

(* An entry that is there after a step was there before it, or is the one  *)
(* that a thread keeps as it comes to the end of its flight.               *)
Keeps(s, r) ==
  \E u \in Threads : /\ pc[u] = "remember" /\ pc'[u] = "finish"
                     /\ Home[u] = s /\ recipe[u] = r

MemoryStep ==
  /\ MemoryOK'
  /\ \A s \in Sessions : \A i \in 1..Len(memory'[s]) :
        \/ ~Lacks(memory[s], memory'[s][i].recipe)
        \/ Keeps(s, memory'[s][i].recipe)

LEMMA MemoryOf ==
  ASSUME MemoryOK, NEW s \in Sessions, NEW q, memory' = [memory EXCEPT ![s] = q],
         Good(q), Len(q) <= MaxEntries,
         \A i \in 1..Len(q) : ~Lacks(memory[s], q[i].recipe) \/ Keeps(s, q[i].recipe)
  PROVE  MemoryStep
  <1>1. q \in Seq(Entries)
    BY DEF Good
  <1>2. \A z \in Sessions : memory'[z] = IF z = s THEN q ELSE memory[z]
    BY DEF MemoryOK
  <1>3. MemoryOK'
    BY <1>1, <1>2 DEF MemoryOK
  <1>4. ASSUME NEW z \in Sessions, NEW i \in 1..Len(memory'[z])
        PROVE  ~Lacks(memory[z], memory'[z][i].recipe) \/ Keeps(z, memory'[z][i].recipe)
    BY <1>2, <1>4 DEF Lacks
  <1> QED BY <1>3, <1>4 DEF MemoryStep

LEMMA MemorySame ==
  ASSUME MemoryOK, memory' = memory
  PROVE  MemoryStep
  BY DEF MemoryOK, MemoryStep, Lacks

LEMMA DropIsMemoryStep ==
  ASSUME MemoryOK, NEW s \in Sessions, NEW r, DropMismatch(s, r)
  PROVE  MemoryStep /\ Lacks(memory'[s], r)
  <1> DEFINE q == Without(s, r)
  <1>1. memory' = [memory EXCEPT ![s] = q] /\ Good(memory[s]) /\ Len(memory[s]) <= MaxEntries
    BY DEF DropMismatch, MemoryOK
  <1>2. Good(q) /\ Lacks(q, r) /\ Within(q, memory[s]) /\ Len(q) <= Len(memory[s])
    BY <1>1, WithoutFacts
  <1> HIDE DEF q
  <1>3. Len(q) <= MaxEntries
    BY <1>1, <1>2, ProviderAssumption DEF Good
  <1>4. \A i \in 1..Len(q) : ~Lacks(memory[s], q[i].recipe)
    BY <1>2 DEF Within, Lacks
  <1>5. memory'[s] = q
    BY <1>1 DEF MemoryOK
  <1> QED BY <1>1, <1>2, <1>3, <1>4, <1>5, MemoryOf

LEMMA HitMemory ==
  ASSUME MemoryOK, NEW t \in Threads, NEW r \in Recipes, Hit(t, r)
  PROVE  MemoryStep
  <1> DEFINE s == Home[t]
             p == Without(s, r)
  <1>0. s \in Sessions /\ Good(memory[s]) /\ Len(memory[s]) <= MaxEntries
    BY HomeType DEF MemoryOK
  <1>1. PICK e \in KeptOf(s, r) : memory' = [memory EXCEPT ![s] = Append(p, e)]
    BY DEF Hit
  <1>2. PICK k \in 1..Len(memory[s]) : e = memory[s][k] /\ e.recipe = r
    BY <1>0, EntryKept
  <1>3. e \in Entries /\ e.value = Decisive(e.recipe)
    BY <1>0, <1>2 DEF Good
  <1>4. /\ Good(p) /\ Lacks(p, r) /\ Within(p, memory[s]) /\ Len(p) = Len(memory[s]) - 1
    BY <1>0, <1>1, WithoutFacts
  <1> DEFINE q == Append(p, e)
  <1> HIDE DEF p, s
  <1>5. /\ Good(q) /\ Len(q) = Len(p) + 1
        /\ \A i \in 1..(Len(p) + 1) : q[i] = IF i = Len(p) + 1 THEN e ELSE p[i]
    BY <1>2, <1>3, <1>4, EntryAppended
  <1> HIDE DEF q
  <1>6. Len(p) \in Nat /\ Len(memory[s]) \in Nat /\ MaxEntries \in Nat
    BY <1>0, <1>4, ProviderAssumption DEF Good
  <1>7. Len(q) <= MaxEntries
    BY <1>0, <1>4, <1>5, <1>6
  <1>8. ASSUME NEW i \in 1..Len(q) PROVE ~Lacks(memory[s], q[i].recipe)
    <2>1. CASE i = Len(p) + 1
      BY <1>2, <1>5, <2>1 DEF Lacks
    <2>2. CASE i # Len(p) + 1
      <3>1. i \in 1..Len(p) /\ q[i] = p[i]
        BY <1>5, <1>6, <2>2
      <3> QED BY <1>4, <3>1 DEF Within, Lacks
    <2> QED BY <2>1, <2>2
  <1> QED BY <1>0, <1>1, <1>5, <1>7, <1>8, MemoryOf DEF q

LEMMA RememberMemory ==
  ASSUME MemoryOK, OutcomeOK, FlightTypeOK, NEW t \in Threads, Remember(t)
  PROVE  MemoryStep
  <1> DEFINE s == Home[t]
             r == recipe[t]
             p == Without(s, r)
             e == [recipe |-> r, value |-> outcome[t], intact |-> TRUE]
  <1>0. s \in Sessions /\ Good(memory[s])
    BY HomeType DEF MemoryOK
  <1>1. pc[t] = "remember" /\ pc'[t] = "finish" /\ r \in Recipes /\ outcome[t] = Decisive(r)
    BY DEF Remember, Goto, OutcomeOK, FlightTypeOK
  <1>2. memory' = [memory EXCEPT ![s] = Newest(Append(p, e))]
    BY DEF Remember
  <1>3. e \in Entries /\ e.recipe = r /\ e.value = Decisive(r)
    BY <1>1, DecisiveFacts DEF Entries
  <1>4. Good(p) /\ Lacks(p, r) /\ Within(p, memory[s])
    BY <1>0, WithoutFacts
  <1> DEFINE q == Append(p, e)
  <1> HIDE DEF e, p
  <1>5. /\ Good(q) /\ Len(q) = Len(p) + 1
        /\ \A i \in 1..(Len(p) + 1) : q[i] = IF i = Len(p) + 1 THEN e ELSE p[i]
    BY <1>3, <1>4, EntryAppended
  <1> HIDE DEF q
  <1>6. Good(Newest(q)) /\ Len(Newest(q)) <= MaxEntries /\ Within(Newest(q), q)
    BY <1>5, NewestFacts
  <1>7. Len(p) \in Nat
    BY <1>4 DEF Good
  <1>8. Keeps(s, r)
    BY <1>1 DEF Keeps
  <1> HIDE DEF s, r
  <1>9. ASSUME NEW i \in 1..Len(q)
        PROVE  ~Lacks(memory[s], q[i].recipe) \/ Keeps(s, q[i].recipe)
    <2>1. CASE i = Len(p) + 1
      BY <1>3, <1>5, <1>8, <2>1
    <2>2. CASE i # Len(p) + 1
      <3>1. i \in 1..Len(p) /\ q[i] = p[i]
        BY <1>5, <1>7, <2>2
      <3> QED BY <1>4, <3>1 DEF Within, Lacks
    <2> QED BY <2>1, <2>2
  <1>10. \A i \in 1..Len(Newest(q)) :
            ~Lacks(memory[s], Newest(q)[i].recipe) \/ Keeps(s, Newest(q)[i].recipe)
    BY <1>6, <1>9 DEF Within
  <1>11. memory' = [memory EXCEPT ![s] = Newest(q)]
    BY <1>2 DEF q
  <1> QED BY <1>0, <1>6, <1>10, <1>11, MemoryOf

LEMMA EmptyMemory ==
  ASSUME MemoryOK, NEW s \in Sessions, memory' = [memory EXCEPT ![s] = <<>>]
  PROVE  MemoryStep
  <1>1. PICK q : q = <<>>
    OBVIOUS
  <1>2. Good(q) /\ Len(q) <= MaxEntries /\ Len(q) = 0
    BY <1>1, ProviderAssumption DEF Good
  <1>3. \A i \in 1..Len(q) : ~Lacks(memory[s], q[i].recipe)
    BY <1>2
  <1> QED BY <1>1, <1>2, <1>3, MemoryOf

LEMMA AlterMemory ==
  ASSUME MemoryOK, NEW s \in Sessions, Alter(s)
  PROVE  MemoryStep
  <1> DEFINE p == memory[s]
  <1>0. Good(p) /\ Len(p) <= MaxEntries /\ DOMAIN p = 1..Len(p) /\ p \in Seq(Entries)
    BY DEF MemoryOK, Good
  <1>1. PICK k \in 1..Len(p) : memory' = [memory EXCEPT ![s][k].intact = FALSE]
    BY <1>0 DEF Alter
  <1> DEFINE q == [p EXCEPT ![k] = [p[k] EXCEPT !.intact = FALSE]]
  <1>2. memory' = [memory EXCEPT ![s] = q]
    BY <1>1
  <1>3. p[k] \in Entries /\ [p[k] EXCEPT !.intact = FALSE] \in Entries
    <2>1. p[k] \in Entries
      BY <1>0
    <2> QED BY <2>1 DEF Entries
  <1>4. q \in Seq(Entries) /\ Len(q) = Len(p)
    BY <1>0, <1>3
  <1>5. \A i \in 1..Len(p) : q[i].recipe = p[i].recipe /\ q[i].value = p[i].value
    BY <1>0, <1>3 DEF Entries
  <1> HIDE DEF q
  <1>6. Good(q)
    BY <1>0, <1>4, <1>5 DEF Good
  <1>7. \A i \in 1..Len(q) : ~Lacks(memory[s], q[i].recipe)
    BY <1>4, <1>5 DEF Lacks
  <1> QED BY <1>0, <1>2, <1>4, <1>6, <1>7, MemoryOf

(* Every step is such a step.                                              *)
LEMMA MemoryNext ==
  ASSUME ProviderInv, [Next]_vars
  PROVE  MemoryStep
  <1>0. MemoryOK /\ OutcomeOK /\ FlightTypeOK
    BY DEF ProviderInv, FlightInv
  <1>1. ASSUME NEW t \in Threads, NEW r \in Recipes, Hit(t, r) \/ Lead(t, r) \/ Join(t, r)
        PROVE  MemoryStep
    <2>1. CASE Hit(t, r)
      BY <1>0, <2>1, HitMemory
    <2>2. CASE Lead(t, r) \/ Join(t, r)
      <3>1. DropMismatch(Home[t], r)
        BY <2>2 DEF Lead, Join
      <3> QED BY <1>0, <3>1, HomeType, DropIsMemoryStep
    <2> QED BY <1>1, <2>1, <2>2
  <1>2. ASSUME NEW t \in Threads, Flight(t) \/ Wake(t)
        PROVE  MemoryStep
    <2>1. CASE Remember(t)
      BY <1>0, <2>1, RememberMemory
    <2>2. CASE Load(t) \/ Prepare(t) \/ Stage(t) \/ Replace(t) \/ Finish(t) \/ Wake(t)
      <3>1. memory' = memory
        BY <2>2 DEF Load, Prepare, Stage, Replace, Finish, Wake
      <3> QED BY <1>0, <3>1, MemorySame
    <2> QED BY <1>2, <2>1, <2>2 DEF Flight
  <1>3. ASSUME NEW s \in Sessions, clear_memory(s) \/ Alter(s) \/ Crash(s)
        PROVE  MemoryStep
    <2>1. CASE clear_memory(s)
      BY <1>0, <2>1, EmptyMemory DEF clear_memory
    <2>2. CASE Crash(s)
      BY <1>0, <2>2, EmptyMemory DEF Crash
    <2> QED BY <1>0, <1>3, <2>1, <2>2, AlterMemory
  <1>4. ASSUME NEW r \in Durable, Tamper(r)
        PROVE  MemoryStep
    BY <1>0, <1>4, MemorySame DEF Tamper
  <1>5. CASE UNCHANGED vars
    BY <1>0, <1>5, MemorySame DEF vars
  <1> QED BY <1>1, <1>2, <1>3, <1>4, <1>5 DEF Next

(* Nobody is at work for what another thread keeps, and a flight begins    *)
(* only for a recipe that the memory lacks.                                *)
LEMMA NoRepeatNext ==
  ASSUME ProviderInv, [Next]_vars
  PROVE  NoRepeat'
  <1>0. FlightTypeOK /\ OneFlight /\ MemoryOK /\ NoRepeat /\ MemoryStep
    BY MemoryNext DEF ProviderInv, FlightInv
  <1> SUFFICES ASSUME NEW t \in Threads, pc'[t] \in Leading \ {"finish"}
               PROVE  KeptOf(Home[t], recipe[t])' = {}
    BY DEF NoRepeat
  <1> DEFINE s == Home[t]
  <1>1. s \in Sessions /\ Good(memory[s]) /\ Good(memory'[s])
    BY <1>0, HomeType DEF MemoryStep, MemoryOK
  <1> SUFFICES Lacks(memory'[s], recipe'[t])
    <2>1. DOMAIN memory'[s] = 1..Len(memory'[s])
      BY <1>1 DEF Good
    <2> QED BY <2>1 DEF KeptOf, Lacks
  <1>2. CASE pc[t] \in Leading \ {"finish"} /\ recipe'[t] = recipe[t]
    <2>1. Lacks(memory[s], recipe[t])
      BY <1>0, <1>1, <1>2, EntryKept DEF NoRepeat
    <2>2. ~Keeps(s, recipe[t])
      <3> SUFFICES ASSUME NEW u \in Threads, pc[u] = "remember", pc'[u] = "finish",
                          Home[u] = s, recipe[u] = recipe[t]
                   PROVE  FALSE
        BY DEF Keeps
      <3>1. u = t
        BY <1>0, <1>2 DEF OneFlight, Leading
      <3> QED BY <3>1
    <2>3. \A i \in 1..Len(memory'[s]) : ~Lacks(memory[s], memory'[s][i].recipe)
                                        \/ Keeps(s, memory'[s][i].recipe)
      BY <1>0, <1>1 DEF MemoryStep
    <2> QED BY <1>2, <2>1, <2>2, <2>3 DEF Lacks
  <1>3. CASE \E r \in Recipes : Lead(t, r)
    <2>1. PICK r \in Recipes : Lead(t, r)
      BY <1>3
    <2>2. recipe'[t] = r /\ DropMismatch(s, r)
      BY <1>0, <2>1 DEF Lead, FlightTypeOK
    <2> QED BY <1>0, <1>1, <2>2, DropIsMemoryStep
  <1>4. \/ pc[t] \in Leading \ {"finish"} /\ recipe'[t] = recipe[t]
        \/ \E r \in Recipes : Lead(t, r)
    <2>1. ASSUME NEW u \in Threads, NEW r \in Recipes, Hit(u, r) \/ Lead(u, r) \/ Join(u, r)
          PROVE  \/ pc[t] \in Leading \ {"finish"} /\ recipe'[t] = recipe[t]
                 \/ Lead(t, r)
      BY <1>0, <2>1 DEF Hit, Lead, Join, Goto, FlightTypeOK, Leading, threadVars
    <2>2. ASSUME NEW u \in Threads, Flight(u) \/ Wake(u)
          PROVE  pc[t] \in Leading \ {"finish"} /\ recipe'[t] = recipe[t]
      <3>1. CASE Load(u) \/ Prepare(u) \/ Stage(u) \/ Replace(u) \/ Remember(u)
        <4>1. recipe' = recipe /\ pc[u] \in Leading \ {"finish"} /\ \E place : Goto(u, place)
          <5>1. CASE Load(u)
            BY <5>1 DEF Load, Leading
          <5>2. CASE Prepare(u)
            BY <5>2 DEF Prepare, Leading
          <5>3. CASE Stage(u) \/ Replace(u) \/ Remember(u)
            BY <5>3 DEF Stage, Replace, Remember, Leading
          <5> QED BY <3>1, <5>1, <5>2, <5>3
        <4> QED BY <1>0, <4>1 DEF Goto, FlightTypeOK
      <3>2. CASE Finish(u)
        BY <1>0, <3>2 DEF Finish, FlightTypeOK, Leading
      <3>3. CASE Wake(u)
        BY <1>0, <3>3 DEF Wake, Goto, FlightTypeOK, Leading
      <3> QED BY <2>2, <3>1, <3>2, <3>3 DEF Flight
    <2>3. ASSUME NEW z \in Sessions, clear_memory(z) \/ Alter(z) \/ Crash(z)
          PROVE  pc[t] \in Leading \ {"finish"} /\ recipe'[t] = recipe[t]
      BY <1>0, <2>3 DEF clear_memory, Alter, Crash, threadVars, FlightTypeOK, Leading
    <2>4. ASSUME NEW r \in Durable, Tamper(r)
          PROVE  pc[t] \in Leading \ {"finish"} /\ recipe'[t] = recipe[t]
      BY <2>4 DEF Tamper, threadVars
    <2>5. CASE UNCHANGED vars
      BY <2>5 DEF vars, threadVars
    <2> QED BY <2>1, <2>2, <2>3, <2>4, <2>5 DEF Next
  <1> QED BY <1>2, <1>3, <1>4

-----------------------------------------------------------------------------
(* A step of one thread leaves what is known of the others alone.          *)
ThreadOK(t) ==
  /\ outcome[t] \in Values \cup {None, Failed}
  /\ pc[t] # "idle" => recipe[t] \in Recipes
  /\ outcome[t] \in Values => outcome[t].of = recipe[t]
  /\ pc[t] \in {"publish", "staged", "remember"} => outcome[t] = Decisive(recipe[t])

TablesOK ==
  disk \in [Recipes -> Contents] /\ diagnostics \in [Sessions -> SUBSET Recipes]

LEMMA OutcomeParts ==
  OutcomeOK <=> TablesOK /\ outcome \in [Threads -> Values \cup {None, Failed}]
                         /\ \A t \in Threads : ThreadOK(t)
  BY DEF OutcomeOK, TablesOK, ThreadOK

LEMMA OneThread ==
  ASSUME FlightTypeOK, OutcomeOK, NEW t \in Threads,
         NEW place, NEW r, NEW value, TablesOK',
         pc' = [pc EXCEPT ![t] = place], recipe' = [recipe EXCEPT ![t] = r],
         outcome' = [outcome EXCEPT ![t] = value],
         value \in Values \cup {None, Failed},
         place # "idle" => r \in Recipes, value \in Values => value.of = r,
         place \in {"publish", "staged", "remember"} => value = Decisive(r)
  PROVE  OutcomeOK'
  <1>1. pc'[t] = place /\ recipe'[t] = r /\ outcome'[t] = value
    BY DEF FlightTypeOK, OutcomeOK
  <1>2. outcome' \in [Threads -> Values \cup {None, Failed}]
    BY DEF OutcomeOK
  <1>3. ASSUME NEW u \in Threads PROVE ThreadOK(u)'
    <2>1. CASE u = t
      BY <1>1, <2>1 DEF ThreadOK
    <2>2. CASE u # t
      <3>1. pc'[u] = pc[u] /\ recipe'[u] = recipe[u] /\ outcome'[u] = outcome[u]
        BY <2>2 DEF FlightTypeOK, OutcomeOK
      <3> QED BY <3>1, OutcomeParts DEF ThreadOK
    <2> QED BY <2>1, <2>2
  <1> QED BY <1>2, <1>3 DEF OutcomeOK, TablesOK, ThreadOK

LEMMA OutcomeSame ==
  ASSUME OutcomeOK, TablesOK', UNCHANGED threadVars
  PROVE  OutcomeOK'
  BY DEF OutcomeOK, TablesOK, threadVars

LEMMA Itself ==
  ASSUME FlightTypeOK, OutcomeOK, NEW t \in Threads
  PROVE  recipe = [recipe EXCEPT ![t] = recipe[t]] /\ outcome = [outcome EXCEPT ![t] = outcome[t]]
  BY DEF FlightTypeOK, OutcomeOK

LEMMA DropTables ==
  ASSUME OutcomeOK, NEW s \in Sessions, NEW r \in Recipes, DropMismatch(s, r), disk' = disk
  PROVE  TablesOK'
  BY DEF OutcomeOK, TablesOK, DropMismatch

LEMMA LeadOutcome ==
  ASSUME FlightTypeOK, OutcomeOK, NEW t \in Threads, NEW r \in Recipes,
         Lead(t, r) \/ Join(t, r)
  PROVE  OutcomeOK'
  <1>1. TablesOK'
    BY HomeType, DropTables DEF Lead, Join
  <1>2. PICK place \in {"load", "wait"} :
           /\ pc' = [pc EXCEPT ![t] = place] /\ recipe' = [recipe EXCEPT ![t] = r]
           /\ outcome' = [outcome EXCEPT ![t] = None]
    BY DEF Lead, Join, Goto, Gives
  <1> QED BY <1>1, <1>2, NotValues, OneThread

LEMMA LoadOutcome ==
  ASSUME FlightTypeOK, OutcomeOK, NEW t \in Threads, Load(t)
  PROVE  OutcomeOK'
  <1> DEFINE r == recipe[t]
             found == IF r \in Durable THEN disk[r] ELSE None
  <1>0. r \in Recipes /\ pc[t] = "load" /\ Home[t] \in Sessions
    BY HomeType DEF Load, OutcomeOK
  <1>1. TablesOK'
    BY <1>0 DEF Load, OutcomeOK, TablesOK
  <1>2. recipe' = [recipe EXCEPT ![t] = r]
    BY Itself DEF Load
  <1>3. \/ Accepted(r, found) /\ pc' = [pc EXCEPT ![t] = "remember"]
                              /\ outcome' = [outcome EXCEPT ![t] = found]
        \/ pc' = [pc EXCEPT ![t] = "finish"] /\ outcome' = [outcome EXCEPT ![t] = Failed]
        \/ pc' = [pc EXCEPT ![t] = "prepare"] /\ outcome' = outcome
    BY DEF Load, Goto, Gives
  <1> HIDE DEF r, found
  <1>4. CASE Accepted(r, found) /\ pc' = [pc EXCEPT ![t] = "remember"]
                                /\ outcome' = [outcome EXCEPT ![t] = found]
    <2>1. found = Decisive(r) /\ found \in Values /\ found.of = r
      BY <1>0, <1>4, DecisiveFacts
    <2> QED BY <1>0, <1>1, <1>2, <1>4, <2>1, OneThread
  <1>5. CASE pc' = [pc EXCEPT ![t] = "finish"] /\ outcome' = [outcome EXCEPT ![t] = Failed]
    BY <1>0, <1>1, <1>2, <1>5, NotValues, OneThread
  <1>6. CASE pc' = [pc EXCEPT ![t] = "prepare"] /\ outcome' = outcome
    <2>1. outcome' = [outcome EXCEPT ![t] = outcome[t]]
      BY <1>6, Itself
    <2>2. outcome[t] \in Values \cup {None, Failed} /\ (outcome[t] \in Values => outcome[t].of = r)
      BY DEF OutcomeOK, r
    <2> QED BY <1>0, <1>1, <1>2, <1>6, <2>1, <2>2, OneThread
  <1> QED BY <1>3, <1>4, <1>5, <1>6

LEMMA PrepareOutcome ==
  ASSUME FlightTypeOK, OutcomeOK, NEW t \in Threads, Prepare(t)
  PROVE  OutcomeOK'
  <1> DEFINE r == recipe[t]
  <1>0. r \in Recipes
    BY DEF Prepare, OutcomeOK
  <1>1. TablesOK'
    BY DEF Prepare, OutcomeOK, TablesOK
  <1>2. recipe' = [recipe EXCEPT ![t] = r]
    BY Itself DEF Prepare
  <1>3. CASE pc' = [pc EXCEPT ![t] = "finish"] /\ outcome' = [outcome EXCEPT ![t] = Failed]
    BY <1>0, <1>1, <1>2, <1>3, NotValues, OneThread
  <1>4. ASSUME NEW decisive \in BOOLEAN,
               outcome' = [outcome EXCEPT ![t] = [of |-> r, decisive |-> decisive]],
               Goto(t, IF ~cacheable([of |-> r, decisive |-> decisive]) THEN "finish"
                       ELSE IF r \in Durable THEN "publish" ELSE "remember")
        PROVE  OutcomeOK'
    <2> DEFINE value == [of |-> r, decisive |-> decisive]
    <2>1. value \in Values /\ value.of = r
      BY <1>0 DEF Values
    <2>2. CASE decisive
      <3>1. value = Decisive(r)
        BY <2>2 DEF Decisive
      <3>2. PICK place \in {"publish", "remember"} : pc' = [pc EXCEPT ![t] = place]
        BY <1>4, <2>2 DEF Goto, cacheable
      <3>3. outcome' = [outcome EXCEPT ![t] = value]
        BY <1>4
      <3> HIDE DEF value
      <3> QED BY <1>0, <1>1, <1>2, <2>1, <3>1, <3>2, <3>3, OneThread
    <2>3. CASE ~decisive
      <3>1. pc' = [pc EXCEPT ![t] = "finish"]
        BY <1>4, <2>3 DEF Goto, cacheable
      <3>3. outcome' = [outcome EXCEPT ![t] = value]
        BY <1>4
      <3> HIDE DEF value
      <3> QED BY <1>0, <1>1, <1>2, <2>1, <3>1, <3>3, OneThread
    <2> QED BY <2>2, <2>3
  <1> QED BY <1>3, <1>4 DEF Prepare, Gives, Goto

LEMMA PublishOutcome ==
  ASSUME FlightTypeOK, OutcomeOK, NEW t \in Threads, Stage(t) \/ Replace(t) \/ Remember(t)
  PROVE  OutcomeOK'
  <1> DEFINE r == recipe[t]
  <1>0. r \in Recipes /\ outcome[t] = Decisive(r) /\ Home[t] \in Sessions
        /\ outcome[t] \in Values /\ outcome[t].of = r
    <2>1. pc[t] \in {"publish", "staged", "remember"} /\ pc[t] # "idle"
      BY DEF Stage, Replace, Remember
    <2> QED BY <2>1, HomeType, DecisiveFacts DEF OutcomeOK
  <1>1. TablesOK'
    <2>1. disk' = disk \/ disk' = [disk EXCEPT ![r] = outcome[t]]
      BY DEF Stage, Replace, Remember
    <2>2. disk' \in [Recipes -> Contents]
      BY <1>0, <2>1 DEF OutcomeOK, Contents
    <2>3. diagnostics' \in [Sessions -> SUBSET Recipes]
      BY <1>0 DEF OutcomeOK, Stage, Replace, Remember
    <2> QED BY <2>2, <2>3 DEF TablesOK
  <1>2. recipe' = [recipe EXCEPT ![t] = r]
    BY Itself DEF Stage, Replace, Remember
  <1>3. \/ /\ \E place \in {"staged", "remember", "finish"} : pc' = [pc EXCEPT ![t] = place]
           /\ outcome' = outcome
        \/ pc' = [pc EXCEPT ![t] = "finish"] /\ outcome' = [outcome EXCEPT ![t] = Failed]
    BY DEF Stage, Replace, Remember, Goto, Gives
  <1> HIDE DEF r
  <1>4. ASSUME NEW place \in {"staged", "remember", "finish"}, pc' = [pc EXCEPT ![t] = place],
               outcome' = outcome
        PROVE  OutcomeOK'
    <2>1. outcome' = [outcome EXCEPT ![t] = outcome[t]]
      BY <1>4, Itself
    <2> QED BY <1>0, <1>1, <1>2, <1>4, <2>1, OneThread
  <1>5. CASE pc' = [pc EXCEPT ![t] = "finish"] /\ outcome' = [outcome EXCEPT ![t] = Failed]
    BY <1>0, <1>1, <1>2, <1>5, NotValues, OneThread
  <1> QED BY <1>3, <1>4, <1>5

LEMMA FinishOutcome ==
  ASSUME FlightInv, OutcomeOK, NEW t \in Threads, Finish(t)
  PROVE  OutcomeOK'
  <1>0. /\ pc[t] = "finish"
        /\ pc' = [u \in Threads |-> IF u \in Followers(t) THEN "woken"
                                    ELSE IF u = t THEN "idle" ELSE pc[u]]
        /\ outcome' = [u \in Threads |-> IF u \in Followers(t) THEN outcome[t]
                                         ELSE IF u = t THEN None ELSE outcome[u]]
        /\ recipe' = [recipe EXCEPT ![t] = None]
    BY DEF Finish
  <1>1. TablesOK'
    BY DEF Finish, OutcomeOK, TablesOK
  <1>2. outcome' \in [Threads -> Values \cup {None, Failed}]
    BY <1>0 DEF OutcomeOK
  <1>3. ASSUME NEW u \in Threads PROVE ThreadOK(u)'
    <2>1. CASE u \in Followers(t)
      <3>1. u # t /\ pc[u] = "wait" /\ recipe[u] = recipe[t]
        BY <1>0, <2>1 DEF Followers, FlightInv, NoOrphan
      <3>2. pc'[u] = "woken" /\ outcome'[u] = outcome[t] /\ recipe'[u] = recipe[u]
        BY <1>0, <2>1, <3>1 DEF FlightInv, FlightTypeOK
      <3> QED BY <3>1, <3>2 DEF ThreadOK, OutcomeOK
    <2>2. CASE u = t /\ u \notin Followers(t)
      <3>1. pc'[u] = "idle" /\ outcome'[u] = None
        BY <1>0, <2>2
      <3> QED BY <3>1, NotValues DEF ThreadOK
    <2>3. CASE u # t /\ u \notin Followers(t)
      <3>1. pc'[u] = pc[u] /\ outcome'[u] = outcome[u] /\ recipe'[u] = recipe[u]
        BY <1>0, <2>3 DEF FlightInv, FlightTypeOK
      <3> QED BY <3>1 DEF ThreadOK, OutcomeOK
    <2> QED BY <2>1, <2>2, <2>3
  <1> QED BY <1>1, <1>2, <1>3 DEF OutcomeOK, TablesOK, ThreadOK

LEMMA CrashOutcome ==
  ASSUME FlightTypeOK, OutcomeOK, NEW s \in Sessions, Crash(s)
  PROVE  OutcomeOK'
  <1>1. TablesOK'
    BY DEF Crash, OutcomeOK, TablesOK
  <1>2. outcome' \in [Threads -> Values \cup {None, Failed}]
    BY DEF Crash, OutcomeOK
  <1>3. ASSUME NEW u \in Threads PROVE ThreadOK(u)'
    <2>1. CASE Home[u] = s
      <3>1. pc'[u] = "idle" /\ outcome'[u] = None
        BY <2>1 DEF Crash
      <3> QED BY <3>1, NotValues DEF ThreadOK
    <2>2. CASE Home[u] # s
      <3>1. pc'[u] = pc[u] /\ outcome'[u] = outcome[u] /\ recipe'[u] = recipe[u]
        BY <2>2 DEF Crash
      <3> QED BY <3>1 DEF ThreadOK, OutcomeOK
    <2> QED BY <2>1, <2>2
  <1> QED BY <1>1, <1>2, <1>3 DEF OutcomeOK, TablesOK, ThreadOK

LEMMA OutcomeNext ==
  ASSUME ProviderInv, [Next]_vars
  PROVE  OutcomeOK'
  <1>0. FlightInv /\ FlightTypeOK /\ OutcomeOK
    BY DEF ProviderInv, FlightInv
  <1>1. ASSUME NEW t \in Threads, NEW r \in Recipes, Hit(t, r) \/ Lead(t, r) \/ Join(t, r)
        PROVE  OutcomeOK'
    <2>1. CASE Hit(t, r)
      BY <1>0, <2>1, OutcomeSame DEF Hit, TablesOK, OutcomeOK
    <2> QED BY <1>0, <1>1, <2>1, LeadOutcome
  <1>2. ASSUME NEW t \in Threads, Flight(t) \/ Wake(t)
        PROVE  OutcomeOK'
    <2>1. CASE Wake(t)
      <3>1. TablesOK'
        BY <1>0, <2>1 DEF Wake, OutcomeOK, TablesOK
      <3>2. /\ pc' = [pc EXCEPT ![t] = "idle"] /\ recipe' = [recipe EXCEPT ![t] = None]
            /\ outcome' = [outcome EXCEPT ![t] = None]
        BY <2>1 DEF Wake, Goto, Gives
      <3> QED BY <1>0, <3>1, <3>2, NotValues, OneThread
    <2> QED BY <1>0, <1>2, <2>1, LoadOutcome, PrepareOutcome, PublishOutcome, FinishOutcome
            DEF Flight
  <1>3. ASSUME NEW s \in Sessions, clear_memory(s) \/ Alter(s) \/ Crash(s)
        PROVE  OutcomeOK'
    <2>1. CASE clear_memory(s) \/ Alter(s)
      BY <1>0, <2>1, OutcomeSame DEF clear_memory, Alter, TablesOK, OutcomeOK
    <2> QED BY <1>0, <1>3, <2>1, CrashOutcome
  <1>4. ASSUME NEW r \in Durable, Tamper(r)
        PROVE  OutcomeOK'
    <2>1. TablesOK'
      BY <1>0, <1>4, ProviderAssumption DEF Tamper, TablesOK, OutcomeOK
    <2> QED BY <1>0, <1>4, <2>1, OutcomeSame DEF Tamper
  <1>5. CASE UNCHANGED vars
    BY <1>0, <1>5, OutcomeSame DEF vars, TablesOK, OutcomeOK
  <1> QED BY <1>1, <1>2, <1>3, <1>4, <1>5 DEF Next

LEMMA ProviderInitInv == Init => ProviderInv
  <1> SUFFICES ASSUME Init PROVE ProviderInv
    OBVIOUS
  <1>1. FlightInv
    BY FlightInit
  <1>2. MemoryOK
    <2>1. Good(<<>>) /\ Len(<<>>) <= MaxEntries /\ <<>> \in Seq(Entries)
      BY ProviderAssumption DEF Good
    <2>2. \A s \in Sessions : memory[s] = <<>>
      BY DEF Init
    <2> QED BY <2>1, <2>2 DEF Init, MemoryOK
  <1>3. OutcomeOK
    BY NotValues DEF Init, OutcomeOK, Contents
  <1>4. NoRepeat
    BY DEF Init, NoRepeat, Leading
  <1> QED BY <1>1, <1>2, <1>3, <1>4 DEF ProviderInv

LEMMA ProviderInvNext == ProviderInv /\ [Next]_vars => ProviderInv'
  <1> SUFFICES ASSUME ProviderInv, [Next]_vars PROVE ProviderInv'
    OBVIOUS
  <1>1. FlightInv'
    BY FlightNext DEF ProviderInv
  <1>2. MemoryOK'
    BY MemoryNext DEF MemoryStep
  <1> QED BY <1>1, <1>2, OutcomeNext, NoRepeatNext DEF ProviderInv

(* All of it together is inductive.                                        *)
THEOREM ProviderInvariant == Spec => []ProviderInv
  BY ProviderInitInv, ProviderInvNext, PTL DEF Spec

(* The tables of FormalArtifactProvider hold what they are meant to, and   *)
(* the LRU of every session stays within max_entries.                      *)
THEOREM ProviderTypeCorrect == Spec => []TypeOK
  <1>1. ProviderInv => TypeOK
    <2> SUFFICES ASSUME ProviderInv PROVE TypeOK
      OBVIOUS
    <2>1. ASSUME NEW s \in Sessions
          PROVE  /\ Len(memory[s]) <= MaxEntries
                 /\ \A i \in DOMAIN memory[s] : memory[s][i] \in Entries
      BY DEF ProviderInv, MemoryOK, Good
    <2> QED BY <2>1 DEF ProviderInv, FlightInv, OutcomeOK, TypeOK
  <1> QED BY <1>1, ProviderInvariant, PTL

(* No thread loads or prepares what the memory of its session has, for any *)
(* number of threads: a flight begins when the entry is missing, and       *)
(* nobody but its leader can add it.                                       *)
THEOREM NoRepeatHolds == Spec => []NoRepeat
  BY ProviderInvariant, PTL DEF ProviderInv

(* Whatever becomes of the files, a session keeps only decisive values,    *)
(* and a call gets a value of its own recipe, through a flight of another  *)
(* thread too.                                                             *)
THEOREM OnlyDecisiveKeptHolds == Spec => []OnlyDecisiveKept
  <1>1. ProviderInv => OnlyDecisiveKept
    <2> SUFFICES ASSUME ProviderInv PROVE OnlyDecisiveKept
      OBVIOUS
    <2>1. ASSUME NEW s \in Sessions, NEW i \in DOMAIN memory[s]
          PROVE  memory[s][i].value = Decisive(memory[s][i].recipe)
      BY <2>1 DEF ProviderInv, MemoryOK, Good
    <2> QED BY <2>1 DEF ProviderInv, OutcomeOK, OnlyDecisiveKept
  <1> QED BY <1>1, ProviderInvariant, PTL

(* What is put into a file is a decisive value of its recipe, so a good    *)
(* file is replaced by its like.                                           *)
LEMMA DiskStep ==
  ASSUME ProviderInv, [Next]_vars, NEW r \in Recipes, disk[r] = Decisive(r)
  PROVE  disk'[r] = disk[r] \/ Tamper(r)
  <1>1. ASSUME NEW t \in Threads, Replace(t) PROVE disk'[r] = disk[r]
    <2>1. outcome[t] = Decisive(recipe[t]) /\ recipe[t] \in Recipes
      BY <1>1 DEF Replace, ProviderInv, OutcomeOK
    <2>2. disk' = disk \/ disk' = [disk EXCEPT ![recipe[t]] = outcome[t]]
      BY <1>1 DEF Replace
    <2> QED BY <2>1, <2>2 DEF ProviderInv, OutcomeOK
  <1>2. ASSUME NEW q \in Durable, Tamper(q) PROVE disk'[r] = disk[r] \/ Tamper(r)
    BY <1>2 DEF Tamper, ProviderInv, OutcomeOK
  <1>3. ASSUME NEW t \in Threads, NEW q \in Recipes, Hit(t, q) \/ Lead(t, q) \/ Join(t, q)
        PROVE  disk' = disk
    BY <1>3 DEF Hit, Lead, Join
  <1>4. ASSUME NEW t \in Threads, \/ Load(t) \/ Prepare(t) \/ Stage(t) \/ Remember(t)
                                  \/ Finish(t) \/ Wake(t)
        PROVE  disk' = disk
    BY <1>4 DEF Load, Prepare, Stage, Remember, Finish, Wake
  <1>5. ASSUME NEW s \in Sessions, clear_memory(s) \/ Alter(s) \/ Crash(s)
        PROVE  disk' = disk
    BY <1>5 DEF clear_memory, Alter, Crash
  <1>6. CASE UNCHANGED vars
    BY <1>6 DEF vars
  <1> QED BY <1>1, <1>2, <1>3, <1>4, <1>5, <1>6 DEF Next, Flight

(* No publication, failed, cut off or finished, spoils a good file of the  *)
(* cache.                                                                  *)
THEOREM NeverTornHolds == Spec => NeverTorn
  <1>1. ProviderInv /\ [Next]_vars =>
           [\A r \in Recipes : disk[r] = Decisive(r) => disk'[r] = disk[r] \/ Tamper(r)]_vars
    BY DiskStep
  <1> QED BY <1>1, ProviderInvariant, PTL DEF Spec, NeverTorn

-----------------------------------------------------------------------------
(* The flows together, as TLC runs them: one part moves and the others     *)
(* stay as they begin, which is a behaviour of each.                       *)

(* A behaviour of MCFlows is a behaviour of the provider, of the           *)
(* scheduler, of the verification run, of the publication and of the       *)
(* tooling session, so that every theorem about one of them is about it.   *)
THEOREM FlowsImplementParts ==
    FlowsSpec => Spec /\ SchedulerSpec /\ VerificationSpec /\ PublicationSpec /\ ToolingSpec
<1>1. FlowsInit => Init /\ SchedulerInit /\ VerificationInit /\ PublicationInit /\ ToolingInit
    BY DEF FlowsInit
<1>2. [FlowsNext]_flowsVars =>
          /\ [Next]_vars /\ [SchedulerNext]_schedulerVars
          /\ [VerificationNext]_verificationVars
          /\ [PublicationNext]_publicationVars /\ [ToolingNext]_toolingVars
    BY DEF FlowsNext, flowsVars
<1> QED
    BY <1>1, <1>2, PTL DEF FlowsSpec, Spec, SchedulerSpec, VerificationSpec, PublicationSpec,
                           ToolingSpec

(* Whichever part runs, its state keeps its types: no FIFO of the          *)
(* scheduler is pushed beyond its depth or popped below zero, no cache     *)
(* outgrows its bound, and the files hold what somebody wrote.             *)
THEOREM FlowsTypeCorrect == FlowsSpec => []FlowsTypeOK
<1>1. PublicationSpec => []PublicationTypeOK
  <2>1. PublicationInv => PublicationTypeOK
    BY DEF PublicationInv
  <2> QED
    BY <2>1, PublicationInitInv, PublicationStep, PTL DEF PublicationSpec
<1>2. VerificationSpec => []VerificationTypeOK
  <2>1. RunInv /\ [VerificationNext]_verificationVars => RunInv'
    BY RunTypeStep, LeaseStep, CacheStep, ResultsStep, RevisedStep, ProofStep, ReportStep
    DEF RunInv
  <2>2. RunInv => VerificationTypeOK
    BY DEF RunInv
  <2> QED
    BY RunInitInv, <2>1, <2>2, PTL DEF VerificationSpec
<1>3. FlowsSpec => [](part \in Parts)
  <2>1. FlowsInit => part \in Parts
    BY DEF FlowsInit
  <2>2. part \in Parts /\ [FlowsNext]_flowsVars => (part \in Parts)'
    BY DEF FlowsNext, flowsVars
  <2> QED
    BY <2>1, <2>2, PTL DEF FlowsSpec
<1>4. /\ part \in Parts /\ TypeOK /\ SchedulerTypeOK /\ VerificationTypeOK
      /\ PublicationTypeOK /\ ToolingTypeOK
      => FlowsTypeOK
  <2> SUFFICES ASSUME part \in Parts, TypeOK, SchedulerTypeOK, VerificationTypeOK,
                      PublicationTypeOK, ToolingTypeOK
               PROVE  FlowsTypeOK
    OBVIOUS
  <2> QED
    BY DEF Parts, FlowsTypeOK
<1> QED
    BY <1>1, <1>2, <1>3, <1>4, FlowsImplementParts, ProviderTypeCorrect, SchedulerTypeCorrect,
       ToolingTypeCorrect, PTL

(* All that is checked of the flows and is no liveness, for every value of *)
(* the constants of the five parts: the provider repeats no work, leaves   *)
(* no caller waiting for a flight nobody leads and spoils no file, the     *)
(* scheduler's two algorithms select the same rules, and what is reported, *)
(* published and answered is true of its inputs.                           *)
THEOREM FlowsSafe ==
    FlowsSpec => /\ [](OneFlight /\ NoRepeat /\ NoOrphan /\ OnlyDecisiveKept
                          /\ SelectionExact /\ ReportsAreSound /\ RestingManifestTrue
                          /\ SnapshotsCurrent)
                 /\ NeverTorn
    BY FlowsImplementParts, OneFlightHolds, NoRepeatHolds, NoOrphanHolds, OnlyDecisiveKeptHolds,
       SelectionAlwaysExact, ReportsAreSoundHolds, RestingManifestTrueHolds,
       SnapshotsCurrentHolds, NeverTornHolds, PTL
=============================================================================
