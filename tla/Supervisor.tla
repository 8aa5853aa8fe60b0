----------------------------- MODULE Supervisor -----------------------------
(***************************************************************************)
(* The process in front of the language server (zlang/lsp/supervisor.py):  *)
(* one thread forwards the client's messages to the worker and notes what  *)
(* the client is waiting for, one forwards the worker's messages to the    *)
(* client and strikes out what they answer, and the main thread kills the  *)
(* worker when something has been waited for too long.                     *)
(*                                                                         *)
(* The worker is LspServer.  It may hang in any compiler query.  Time is   *)
(* abstracted to one assumption: a worker that is making progress answers  *)
(* within WORKER_TIMEOUT_SECONDS, so the timeout passes only when it has   *)
(* hung or has come to rest without answering.                             *)
(***************************************************************************)
EXTENDS LspServer

VARIABLES
    pending,          \* what the client waits for
    versions,         \* the version last accepted of each open document
    to_worker,        \* the pipe to the worker's standard input
    hung,             \* whether the worker is stuck in a query
    worker,           \* "alive", "exited" or "killed"
    timed_out,
    transport_error,
    returned          \* the exit status of supervise_stdio, or Absent

supervisorVars == <<pending, versions, to_worker, hung, worker, timed_out,
                    transport_error, returned>>
allVars == <<vars, supervisorVars>>

(* Mutant: the key leaves out the document.                                *)
Diagnostics_anonymous(u) == [kind |-> "diagnostics", of |-> Absent]
Diagnostics(u) == [kind |-> "diagnostics", of |-> u]
RequestKey(id) == [kind |-> "request", of |-> id]

(* What the client waits for is always a document or a request that it has *)
(* named, so that an answer can strike it out.                             *)
SupervisorTypeOK ==
    /\ TypeOK
    /\ \A p \in pending : \/ p.kind = "diagnostics" /\ p.of \in Docs
                          \/ p.kind = "request" /\ p.of \in 1..MaxMessages
    /\ versions \in [Docs -> Versions \cup {Absent}]
    /\ worker \in {"alive", "exited", "killed"}
    /\ {hung, timed_out, transport_error} \subseteq BOOLEAN
    /\ returned \in {Absent, 0, 1, 124}

SupervisorInit ==
    /\ Init
    /\ pending = {} /\ versions = [u \in Docs |-> Absent]
    /\ to_worker = <<>> /\ hung = FALSE /\ worker = "alive"
    /\ timed_out = FALSE /\ transport_error = FALSE /\ returned = Absent

-----------------------------------------------------------------------------
(* incoming(): what a message of the client makes it wait for.             *)

Accepted(m) == versions[m.uri] = Absent \/ m.state.version >= versions[m.uri]

Register(m) ==
    CASE m.type = "open" \/ (m.type = "change" /\ Accepted(m)) ->
            /\ versions' = [versions EXCEPT ![m.uri] = m.state.version]
            /\ pending' = pending \cup {Diagnostics(m.uri)}
      [] m.type = "close" ->
            /\ versions' = [versions EXCEPT ![m.uri] = Absent]
            /\ pending' = pending \ {Diagnostics(m.uri)}
      [] m.type \in {"request", "shutdown"} ->
            /\ pending' = pending \cup {RequestKey(m.id)}
            /\ UNCHANGED versions
      [] OTHER -> UNCHANGED <<pending, versions>>

(* A transport error has ended the incoming thread.                        *)
ClientSends(m) ==
    /\ MayStillSend /\ returned = Absent /\ ~transport_error
    /\ EditorAfter(m)
    /\ sent' = IF m.type \in Ended THEN MaxMessages ELSE sent + 1
    /\ UNCHANGED <<markers, notified, latest, inbound, mainVars>>

(* A frame that can be read is registered and forwarded; a pipe without a  *)
(* reader is a transport error.  The end of the input only closes it.      *)
Incoming(m) ==
    /\ m.type # "malformed"
    /\ ClientSends(m)
    /\ Register(m)
    /\ to_worker' = IF worker = "alive" THEN Append(to_worker, m) ELSE to_worker
    /\ transport_error' = (worker # "alive" /\ m.type # "eof")
    /\ UNCHANGED <<output, hung, worker, timed_out, returned>>

(* One that cannot be read is answered here, and the worker is killed.     *)
IncomingMalformed(m) ==
    /\ m.type = "malformed"
    /\ ClientSends(m)
    /\ transport_error' = TRUE
    /\ worker' = IF worker = "alive" THEN "killed" ELSE worker
    /\ UNCHANGED <<output, pending, versions, to_worker, hung, timed_out, returned>>

(* outgoing(): an answer strikes out what waits for it.                    *)
(* Mutant: an empty list of diagnostics is taken for no answer.            *)
Answers_if_any(m) ==
    IF m.type = "response" THEN {RequestKey(m.id)}
    ELSE {Diagnostics(f) : f \in {g \in DOMAIN m.markers : m.markers[g] # {}}}

Answers(m) ==
    IF m.type = "response" THEN {RequestKey(m.id)}
    ELSE {Diagnostics(f) : f \in DOMAIN m.markers}

Outgoing ==
    /\ returned = Absent /\ output # <<>>
    /\ Show(Head(output))
    /\ output' = Tail(output)
    /\ pending' = pending \ Answers(Head(output))
    /\ UNCHANGED <<editor, sent, latest, inbound, mainVars, versions, to_worker, hung,
                   worker, timed_out, transport_error, returned>>

-----------------------------------------------------------------------------
(* The worker process.                                                     *)

WorkerRead ==
    /\ worker = "alive" /\ running /\ to_worker # <<>>
    /\ Observe(Head(to_worker))
    /\ to_worker' = Tail(to_worker)
    /\ UNCHANGED <<clientVars, mainVars, output, pending, versions, hung, worker,
                   timed_out, transport_error, returned>>

WorkerMain ==
    /\ worker = "alive" /\ ~hung
    /\ Main
    /\ UNCHANGED supervisorVars

(* A query is a check of a document or a request of the client.            *)
Hang ==
    /\ worker = "alive" /\ running /\ ~hung /\ job = NoJob
    /\ \/ todo # {} /\ Open(FirstOf(todo))
       \/ AtLoop /\ inbound # <<>> /\ Head(inbound).type = "request"
    /\ hung' = TRUE
    /\ UNCHANGED <<vars, pending, versions, to_worker, worker, timed_out,
                   transport_error, returned>>

WorkerExit ==
    /\ worker = "alive" /\ ~running
    /\ worker' = "exited"
    /\ UNCHANGED <<vars, pending, versions, to_worker, hung, timed_out,
                   transport_error, returned>>

-----------------------------------------------------------------------------
(* The main thread.                                                        *)

WorkerAtRest == ~hung /\ Quiet /\ to_worker = <<>>

Kill ==
    /\ timed_out' = TRUE
    /\ worker' = "killed"
    /\ UNCHANGED <<vars, pending, versions, to_worker, hung, transport_error, returned>>

(* Mutant: only diagnostics are timed.                                     *)
TimeoutKill_diagnostics ==
    /\ worker = "alive" /\ running /\ ~timed_out
    /\ \E p \in pending : p.kind = "diagnostics"
    /\ hung \/ WorkerAtRest
    /\ Kill

TimeoutKill ==
    /\ worker = "alive" /\ running /\ ~timed_out
    /\ pending # {}
    /\ hung \/ WorkerAtRest
    /\ Kill

(* Once the worker is gone and its output is forwarded; the two seconds    *)
(* that reader_finished is waited for are taken to be enough for that.     *)
Status == IF timed_out THEN 124
          ELSE IF worker = "killed" \/ ~shutdown_requested \/ transport_error THEN 1 ELSE 0

(* Mutant: the output of the worker is not waited for.                     *)
Return_at_once ==
    /\ worker # "alive" /\ returned = Absent
    /\ returned' = Status
    /\ UNCHANGED <<vars, pending, versions, to_worker, hung, worker, timed_out,
                   transport_error>>

Return ==
    /\ worker # "alive" /\ output = <<>> /\ returned = Absent
    /\ returned' = Status
    /\ UNCHANGED <<vars, pending, versions, to_worker, hung, worker, timed_out,
                   transport_error>>

SupervisorRest ==
    /\ \/ returned # Absent
       \/ hung /\ pending = {} /\ to_worker = <<>> /\ output = <<>> /\ ~MayStillSend
       \/ WorkerAtRest /\ pending = {} /\ running /\ ~MayStillSend
    /\ UNCHANGED allVars

SupervisorNext ==
    \/ \E m \in ClientMessages \cup StaleMessages : Incoming(m) \/ IncomingMalformed(m)
    \/ Outgoing \/ WorkerRead \/ WorkerMain \/ Hang \/ WorkerExit
    \/ TimeoutKill \/ Return \/ SupervisorRest

SupervisorSpec == SupervisorInit /\ [][SupervisorNext]_allVars

(* The threads of the supervisor run, and so does a worker that has not    *)
(* hung.                                                                   *)
SupervisorFairSpec ==
    /\ SupervisorSpec
    /\ WF_allVars(Outgoing) /\ WF_allVars(WorkerRead) /\ WF_allVars(WorkerMain)
    /\ WF_allVars(WorkerExit) /\ WF_allVars(TimeoutKill) /\ WF_allVars(Return)

-----------------------------------------------------------------------------
(* A worker is never killed for an answer that it owes to nobody: when it  *)
(* has handled everything, the client waits for nothing.                   *)
NothingOwedAtRest ==
    worker = "alive" /\ running /\ WorkerAtRest => pending = {}

(* The supervisor reports success only for a session in which every        *)
(* request was answered.                                                   *)
SuccessMeansAnswered ==
    returned = 0 => \A p \in pending : p.kind # "request"

(* A request is answered, or the session ends, even if the worker hangs.   *)
RequestsEnd ==
    \A id \in 1..MaxMessages :
        RequestKey(id) \in pending ~> (RequestKey(id) \notin pending \/ returned # Absent)

(* "If a compiler query stops making progress, the supervisor terminates   *)
(* that worker."                                                           *)
HungIsTerminated == hung ~> worker # "alive"
=============================================================================
