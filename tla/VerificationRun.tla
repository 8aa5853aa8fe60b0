--------------------------- MODULE VerificationRun ---------------------------
(***************************************************************************)
(* Staged execution of a verification bundle, by several processes that    *)
(* share a work directory and a result cache.  A run first checks every    *)
(* job to a bounded depth; only if all safety jobs pass does it try to     *)
(* prove them.  The jobs of a stage run on a pool of threads and finish in *)
(* any order.  The outcome of a safety job whose assumptions are never met *)
(* is worth nothing: each such job has a feasibility cover, which has to   *)
(* be witnessed.                                                           *)
(*                                                                         *)
(* The solvers are external: a solver tells the truth about a job, or      *)
(* gives up.                                                               *)
(***************************************************************************)
EXTENDS Naturals, Sequences

CONSTANTS Processes,
          JobOrder,       \* the jobs, in the order of the bundle
          SafetyJobs,     \* those that are safety jobs; the others are covers
          Feasibility,    \* vacuity_dependencies: [safety jobs -> cover job or NoJob]
          Unavailable,    \* jobs that may turn out not to be executable
          NoJob

Jobs == {JobOrder[i] : i \in 1..Len(JobOrder)}
CoverJobs == Jobs \ SafetyJobs

ASSUME VerificationAssumption ==
    /\ JobOrder \in Seq(Jobs)
    /\ SafetyJobs \subseteq Jobs /\ NoJob \notin Jobs
    /\ Feasibility \in [SafetyJobs -> CoverJobs \cup {NoJob}]
    /\ Unavailable \subseteq Jobs

(* What there is to know of a job: a safety property holds, or is violated *)
(* within the bound or only beyond it; a cover is reached or is not.       *)
Truths == {"holds", "violated", "violated deep", "reached", "not reached"}
DecisiveStatuses == {"failed", "bounded_pass", "proven", "witnessed", "bounded_unreached"}
Statuses == DecisiveStatuses \cup {"unknown", "skipped"}

(* The mode is part of the identity of a cached result.                    *)
Modes == {"bmc", "prove"}
Keys == Jobs \X Modes
ModeOf(j, mode) == IF j \in CoverJobs THEN "bmc" ELSE mode

VARIABLES
    truth,        \* of each job
    executable,   \* jobs that the bundle can execute here
    cache,        \* of each key, a status, "absent" or "damaged"
    lease,        \* of each mode, the process that holds the lock of its root
    stage,        \* where each process is
    mode,         \* the configuration of its current run
    results,      \* of each process and job of its run, a status or "pending"
    hits,         \* the jobs answered from the cache
    published,    \* how many results of its run it has published
    bounded,      \* its bounded report
    report        \* its report

runVars == <<lease, stage, mode, results, hits, published, bounded, report>>
verificationVars == <<truth, executable, cache, runVars>>

Pending == [j \in Jobs |-> "pending"]
NoReport == [j \in Jobs |-> "none"]

(* The jobs of a run: a proof run takes the safety jobs only.              *)
selected_jobs(p) == IF mode[p] = "bmc" THEN Jobs ELSE SafetyJobs

-----------------------------------------------------------------------------
(* The true answer of a solver, when it does not give up.                  *)
Answer(j, m) ==
    CASE truth[j] = "violated" -> "failed"
      [] truth[j] = "violated deep" -> IF m = "bmc" THEN "bounded_pass" ELSE "failed"
      [] truth[j] = "holds" -> IF m = "bmc" THEN "bounded_pass" ELSE "proven"
      [] truth[j] = "reached" -> "witnessed"
      [] truth[j] = "not reached" -> "bounded_unreached"

VerificationInit ==
    /\ truth \in [Jobs -> Truths]
    /\ \A j \in Jobs : truth[j] \in {"reached", "not reached"} <=> j \in CoverJobs
    /\ executable \in {Jobs \ absent : absent \in SUBSET Unavailable}
    /\ cache = [k \in Keys |-> "absent"]
    /\ lease = [m \in Modes |-> {}]
    /\ stage = [p \in Processes |-> "waiting"]
    /\ mode = [p \in Processes |-> "bmc"]
    /\ results = [p \in Processes |-> Pending]
    /\ hits = [p \in Processes |-> {}]
    /\ published = [p \in Processes |-> 0]
    /\ bounded = [p \in Processes |-> NoReport]
    /\ report = [p \in Processes |-> NoReport]

(* The status, log and trace files of a job have the same paths in every   *)
(* run with the same execution root.  Of two processes that write them at  *)
(* once, either may read anything.                                         *)
Solved(p, j) ==
    IF lease[mode[p]] = {p} THEN {Answer(j, mode[p]), "unknown"} ELSE Statuses

Enters(p, place) == stage' = [stage EXCEPT ![p] = place]

(* A run waits for the lease of its execution root.                        *)
(* Mutant: the root is not locked.                                         *)
AcquireLease_shared(p) ==
    /\ stage[p] = "waiting"
    /\ Enters(p, "running")
    /\ lease' = [lease EXCEPT ![mode[p]] = @ \cup {p}]
    /\ UNCHANGED <<truth, executable, cache, mode, results, hits, published, bounded, report>>
AcquireLease(p) ==
    /\ stage[p] = "waiting" /\ lease[mode[p]] = {}
    /\ Enters(p, "running")
    /\ lease' = [lease EXCEPT ![mode[p]] = {p}]
    /\ UNCHANGED <<truth, executable, cache, mode, results, hits, published, bounded, report>>

(* execute: a job that cannot be executed is skipped, one whose entry in   *)
(* the cache is sound is answered from it, the others go to a solver.      *)
Execute(p, j) ==
    /\ stage[p] = "running" /\ j \in selected_jobs(p) /\ results[p][j] = "pending"
    /\ LET known == cache[<<j, ModeOf(j, mode[p])>>]
       IN /\ \E s \in CASE j \notin executable -> {"skipped"}
                        [] j \in executable /\ known \in DecisiveStatuses -> {known}
                        [] OTHER -> Solved(p, j) :
                 results' = [results EXCEPT ![p][j] = s]
          /\ hits' = IF j \in executable /\ known \in DecisiveStatuses
                     THEN [hits EXCEPT ![p] = @ \cup {j}] ELSE hits
    /\ UNCHANGED <<truth, executable, cache, lease, stage, mode, published, bounded, report>>

(* A run that ends early leaves nothing but what it has published; the     *)
(* process that made it may be started again.                              *)
StartsOver(p) ==
    /\ stage' = [stage EXCEPT ![p] = "waiting"]
    /\ mode' = [mode EXCEPT ![p] = "bmc"]
    /\ lease' = [m \in Modes |-> lease[m] \ {p}]
    /\ results' = [results EXCEPT ![p] = Pending]
    /\ hits' = [hits EXCEPT ![p] = {}]
    /\ published' = [published EXCEPT ![p] = 0]
    /\ bounded' = [bounded EXCEPT ![p] = NoReport]
    /\ report' = [report EXCEPT ![p] = NoReport]
    /\ UNCHANGED <<truth, executable, cache>>

(* A job that raises ends the run once the others are through: nothing is  *)
(* published, and the lease is given back.                                 *)
Raise(p) ==
    /\ stage[p] = "running" /\ \E j \in selected_jobs(p) : results[p][j] = "pending"
    /\ StartsOver(p)

(* When all jobs of a bounded run are done, the success of a safety job    *)
(* whose feasibility cover was not witnessed is revised to unknown.  A run *)
(* of the safety jobs alone revises nothing.                               *)
(* Mutant: only a cover that was searched and not reached counts.          *)
Revised_unreached(p) ==
    [j \in Jobs |->
        IF /\ mode[p] = "bmc" /\ j \in SafetyJobs
           /\ results[p][j] \in {"bounded_pass", "proven"}
           /\ Feasibility[j] # NoJob
           /\ results[p][Feasibility[j]] = "bounded_unreached"
        THEN "unknown" ELSE results[p][j]]
Revised(p) ==
    [j \in Jobs |->
        IF /\ mode[p] = "bmc" /\ j \in SafetyJobs
           /\ results[p][j] \in {"bounded_pass", "proven"}
           /\ Feasibility[j] # NoJob
           /\ results[p][Feasibility[j]] \in {"bounded_unreached", "unknown", "skipped"}
        THEN "unknown" ELSE results[p][j]]

Revise(p) ==
    /\ stage[p] = "running" /\ \A j \in selected_jobs(p) : results[p][j] # "pending"
    /\ Enters(p, "publishing")
    /\ results' = [results EXCEPT ![p] = Revised(p)]
    /\ UNCHANGED <<truth, executable, cache, lease, mode, hits, published, bounded, report>>

(* The results are published in order.  One that came from the cache is    *)
(* there already; of the others only a decisive one is kept, under the     *)
(* identity of its job and mode.                                           *)
Publish(p) ==
    /\ stage[p] = "publishing" /\ published[p] < Len(JobOrder)
    /\ LET j == JobOrder[published[p] + 1]
       IN cache' = IF j \in selected_jobs(p) \ hits[p] /\ results[p][j] \in DecisiveStatuses
                   THEN [cache EXCEPT ![<<j, ModeOf(j, mode[p])>>] = results[p][j]]
                   ELSE cache
    /\ published' = [published EXCEPT ![p] = @ + 1]
    /\ UNCHANGED <<truth, executable, lease, stage, mode, results, hits, bounded, report>>

AllPublished(p) == stage[p] = "publishing" /\ published[p] = Len(JobOrder)

(* The end of the bounded run.  The proof is tried if there are safety     *)
(* jobs and all of them passed.                                            *)
(* Mutant: a failure stops the proof, and an unknown does not.             *)
ProofIsDue_unless_failed(p) ==
    SafetyJobs # {} /\ \A j \in SafetyJobs : results[p][j] # "failed"
ProofIsDue(p) ==
    SafetyJobs # {} /\ \A j \in SafetyJobs : results[p][j] = "bounded_pass"

FinishBounded(p) ==
    /\ AllPublished(p) /\ mode[p] = "bmc"
    /\ lease' = [lease EXCEPT !["bmc"] = @ \ {p}]
    /\ bounded' = [bounded EXCEPT ![p] = results[p]]
    /\ IF ProofIsDue(p)
       THEN /\ Enters(p, "waiting")
            /\ mode' = [mode EXCEPT ![p] = "prove"]
            /\ UNCHANGED report
       ELSE /\ Enters(p, "done")
            /\ report' = [report EXCEPT ![p] = results[p]]
            /\ UNCHANGED mode
    /\ results' = [results EXCEPT ![p] = Pending]
    /\ hits' = [hits EXCEPT ![p] = {}]
    /\ published' = [published EXCEPT ![p] = 0]
    /\ UNCHANGED <<truth, executable, cache>>

(* The proof's results replace the bounded ones of the same jobs.          *)
FinishProof(p) ==
    /\ AllPublished(p) /\ mode[p] = "prove"
    /\ lease' = [lease EXCEPT !["prove"] = @ \ {p}]
    /\ report' = [report EXCEPT ![p] =
          [j \in Jobs |-> IF j \in SafetyJobs THEN results[p][j] ELSE bounded[p][j]]]
    /\ Enters(p, "done")
    /\ results' = [results EXCEPT ![p] = Pending]
    /\ hits' = [hits EXCEPT ![p] = {}]
    /\ published' = [published EXCEPT ![p] = 0]
    /\ UNCHANGED <<truth, executable, cache, mode, bounded>>

-----------------------------------------------------------------------------
(* A process may be killed at any point: its lock goes with it, and what   *)
(* it published stays.                                                     *)
Killed(p) == stage[p] \in {"running", "publishing"} /\ StartsOver(p)

RunAgain(p) == stage[p] = "done" /\ StartsOver(p)

(* A file of the cache may be damaged or lost; neither is taken for a      *)
(* result.                                                                 *)
DamageResult(k) ==
    /\ cache[k] \in DecisiveStatuses
    /\ cache' = [cache EXCEPT ![k] = "damaged"]
    /\ UNCHANGED <<truth, executable, runVars>>

VerificationNext ==
    \/ \E p \in Processes :
          \/ AcquireLease(p) \/ Raise(p) \/ Revise(p) \/ Publish(p)
          \/ FinishBounded(p) \/ FinishProof(p) \/ Killed(p) \/ RunAgain(p)
          \/ \E j \in Jobs : Execute(p, j)
    \/ \E k \in Keys : DamageResult(k)

VerificationSpec == VerificationInit /\ [][VerificationNext]_verificationVars

-----------------------------------------------------------------------------
(* The records of the runs hold statuses.                                  *)
VerificationTypeOK ==
    /\ truth \in [Jobs -> Truths] /\ executable \subseteq Jobs
    /\ cache \in [Keys -> Statuses \cup {"absent", "damaged"}]
    /\ stage \in [Processes -> {"waiting", "running", "publishing", "done"}]
    /\ mode \in [Processes -> Modes]
    /\ results \in [Processes -> [Jobs -> Statuses \cup {"pending"}]]
    /\ hits \in [Processes -> SUBSET Jobs] /\ published \in [Processes -> 0..Len(JobOrder)]
    /\ bounded \in [Processes -> [Jobs -> Statuses \cup {"none", "pending"}]]
    /\ report \in [Processes -> [Jobs -> Statuses \cup {"none", "pending"}]]
    /\ lease \in [Modes -> SUBSET Processes]

(* A report never claims what is not so, whatever was in the cache, was    *)
(* killed or was run at the same time: a success is the truth about its    *)
(* job; it is not vacuous, its feasibility cover having been witnessed in  *)
(* the same report; and a proof is claimed only of a bundle whose safety   *)
(* jobs had all passed the bounded run.                                    *)
ReportsAreSound ==
    \A p \in Processes, j \in SafetyJobs :
        /\ report[p][j] \in DecisiveStatuses =>
              report[p][j] \in {Answer(j, "bmc"), Answer(j, "prove")}
        /\ report[p][j] \in {"bounded_pass", "proven"} /\ Feasibility[j] # NoJob =>
                  /\ report[p][Feasibility[j]] = "witnessed"
                  /\ truth[Feasibility[j]] = "reached"
        /\ report[p][j] = "proven" =>
              \A other \in SafetyJobs : bounded[p][other] = "bounded_pass"
=============================================================================
