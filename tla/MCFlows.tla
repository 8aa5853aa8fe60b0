------------------------------- MODULE MCFlows -------------------------------
(***************************************************************************)
(* The compiler's scheduler, caches and publications, each for itself: a   *)
(* behaviour is a behaviour of one of the five parts, and the others stay  *)
(* as they begin.                                                          *)
(*                                                                         *)
(*  - the artifact provider of MCArtifactProvider;                         *)
(*  - the scheduler, for three rules with every acyclic set of priorities, *)
(*    two FIFOs of two entries and two registers;                          *)
(*  - two processes that verify a bundle of one safety job and its         *)
(*    feasibility cover, which may not be executable;                      *)
(*  - two builds that publish to the same paths;                           *)
(*  - a tooling session, with one root document and two writes.            *)
(***************************************************************************)
EXTENDS MCArtifactProvider, RuleScheduler, VerificationRun, Publication, ToolingSession

CONSTANTS fifo1, fifo2, reg1, reg2, safety, cover

VARIABLE part

Parts == {"provider", "scheduler", "verification", "publication", "tooling"}

-----------------------------------------------------------------------------
Push(q) == <<q, "push">>
Pop(q) == <<q, "pop">>
Write(z) == <<z, "write">>

(* A pipeline through both FIFOs; rules that all compete for one FIFO and  *)
(* a register; rules that pass words back and forth; writes only; and      *)
(* rules that do nothing.                                                  *)
RulePrograms ==
    { << {Push(fifo1)}, {Pop(fifo1), Push(fifo2)}, {Pop(fifo2), Write(reg1)} >>,
      << {Push(fifo1), Write(reg1)}, {Pop(fifo1), Write(reg1)}, {Push(fifo1), Pop(fifo1), Write(reg1)} >>,
      << {Push(fifo1), Pop(fifo2)}, {Push(fifo2), Pop(fifo1)}, {Push(fifo1), Push(fifo2)} >>,
      << {Write(reg1)}, {Write(reg1), Write(reg2)}, {Write(reg2)} >>,
      << {}, {}, {} >> }

BundleJobs == <<safety, cover>>
FeasibilityOf == [j \in SafetyJobs |-> cover]

(* What a part that does not run is like.                                  *)
SchedulerIdles ==
    ~conditional /\ priorities = {} /\ program = << {}, {}, {} >>
VerificationIdles ==
    truth = [j \in Jobs |-> IF j = safety THEN "holds" ELSE "reached"] /\ executable = Jobs
PublicationIdles == source = CHOOSE v \in SourceVersions : TRUE

(* A tooling session has to do with the contents of the files and with the *)
(* names only by comparing them: one world to begin with is like another.  *)
OneWorld == world = CHOOSE w \in Worlds : TRUE

FlowsInit ==
    /\ part \in Parts
    /\ Init
    /\ SchedulerInit /\ (part # "scheduler" => SchedulerIdles)
    /\ VerificationInit /\ (part # "verification" => VerificationIdles)
    /\ PublicationInit /\ (part # "publication" => PublicationIdles)
    /\ ToolingInit /\ OneWorld

FlowsNext ==
    /\ UNCHANGED part
    /\ \/ /\ part = "provider" /\ Next
          /\ UNCHANGED <<schedulerVars, verificationVars, publicationVars, toolingVars>>
       \/ /\ part = "scheduler" /\ SchedulerNext
          /\ UNCHANGED <<vars, verificationVars, publicationVars, toolingVars>>
       \/ /\ part = "verification" /\ VerificationNext
          /\ UNCHANGED <<vars, schedulerVars, publicationVars, toolingVars>>
       \/ /\ part = "publication" /\ PublicationNext
          /\ UNCHANGED <<vars, schedulerVars, verificationVars, toolingVars>>
       \/ /\ part = "tooling" /\ ToolingNext
          /\ UNCHANGED <<vars, schedulerVars, verificationVars, publicationVars>>

flowsVars == <<part, vars, schedulerVars, verificationVars, publicationVars, toolingVars>>

FlowsSpec ==
    /\ FlowsInit /\ [][FlowsNext]_flowsVars
    /\ \A t \in Threads : WF_vars(Flight(t) \/ Wake(t))

-----------------------------------------------------------------------------
(* The types of the part that runs.  Of the scheduler this says that no    *)
(* FIFO is pushed beyond its depth or popped below zero, though it makes   *)
(* no check of its own, and that no register is written by two rules at    *)
(* one edge.                                                               *)
FlowsTypeOK ==
    CASE part = "provider" -> TypeOK
      [] part = "scheduler" -> SchedulerTypeOK
      [] part = "verification" -> VerificationTypeOK
      [] part = "publication" -> PublicationTypeOK
      [] part = "tooling" -> ToolingTypeOK
=============================================================================
