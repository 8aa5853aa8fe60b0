----------------------------- MODULE LspServer -----------------------------
(***************************************************************************)
(* The language server of zlang/lsp/server.py: a reader thread that frames *)
(* messages and notes the latest text of each document, and a main loop    *)
(* that owns the compiler, debounces checks and publishes diagnostics.     *)
(* DiagnosticPublications remembers what each open root last contributed   *)
(* to which file, so that markers on imported files can be cleared.        *)
(*                                                                         *)
(* The compiler is abstracted to what a check of a root reports: an error  *)
(* in the root's own text or in the text of a file that it imports, where  *)
(* an open file is read from the editor and a closed one from the disk.    *)
(***************************************************************************)
EXTENDS Naturals, Sequences

CONSTANTS
    UriOrder,       \* the documents that may be opened, in the order of their URIs
    Library,        \* files that are only ever imported
    Texts,          \* contents of a document
    Imports,        \* [Texts -> SUBSET files]: what a root with this text imports
    Bad,            \* texts that the compiler reports an error in
    BadOnDisk,      \* files whose saved text has an error
    Unresolvable,   \* texts whose check fails for want of a usable project
    Saved,          \* the marker of an error in a saved text
    Absent,         \* no document
    StaleChanges,   \* whether the client may repeat an outdated change
    MaxMessages     \* bound: messages that the client sends

Docs == {UriOrder[i] : i \in DOMAIN UriOrder}
Files == Docs \cup Library
Items == Texts \cup {Saved}
Groups == [Files -> SUBSET Items]
NoGroups == [f \in Files |-> {}]
Versions == 0..(MaxMessages + 1)
States == [version : Versions, text : Texts]

ASSUME LspAssumption ==
    /\ UriOrder \in Seq(Docs)
    /\ Imports \in [Texts -> SUBSET Files]
    /\ BadOnDisk \subseteq Files
    /\ StaleChanges \in BOOLEAN /\ MaxMessages \in Nat
    /\ Absent \notin States \cup Docs \cup Nat /\ Saved \notin Texts

VARIABLES
    editor,       \* the client: its documents,
    sent,         \* how many messages it has sent,
    markers,      \* the markers it shows,
    notified,     \* whether it was told of an environment failure
    latest,       \* the reader: the newest text seen of each document
    inbound,      \* the queue from the reader to the main loop
    documents,    \* the main loop: its open documents,
    deadlines,    \* the URIs that the scheduler has a deadline for,
    todo,         \* the URIs that remain to be published in this turn,
    job,          \* the publication computed and not yet written,
    after,        \* the message to be finished once todo is published,
    roots,        \* the contributions of each root
    reported,     \* whether an environment failure was reported
    shutdown_requested,
    running,      \* whether run() has not returned
    output        \* what was written and not yet received

exitVars == <<shutdown_requested, running>>
clientVars == <<editor, sent, markers, notified>>
mainVars == <<documents, deadlines, todo, job, after, roots, reported,
              shutdown_requested, running>>
vars == <<clientVars, latest, inbound, mainVars, output>>

NoJob == [uri |-> Absent]
Nothing == [type |-> "nothing"]

(* The maps of the reader and of the main loop hold versions and texts of  *)
(* documents, and only an open document has a deadline.                    *)
TypeOK ==
    /\ editor \in [Docs -> States \cup {Absent}]
    /\ documents \in [Docs -> States \cup {Absent}]
    /\ latest \in [Docs -> States \cup {Absent}]
    /\ sent \in 0..MaxMessages
    /\ markers \in Groups
    /\ roots \in [Docs -> Groups]
    /\ deadlines \subseteq {u \in Docs : documents[u] # Absent} /\ todo \subseteq Docs
    /\ job = NoJob \/ job.uri \in Docs
    /\ after.type \in {"nothing", "shutdown", "eof"}
    /\ {notified, reported, shutdown_requested, running} \subseteq BOOLEAN

Open(u) == documents[u] # Absent
OpenDocs == {u \in Docs : Open(u)}

-----------------------------------------------------------------------------
(* The scheduler: replaceable deadlines.  replace() gives one deadline to  *)
(* the documents of a project; those of the model are of one project, so   *)
(* that their deadlines are the same and they fall due together.           *)

replace(uris) == deadlines' = deadlines \cup uris
(* Mutant: a document that is closed keeps its deadline.                   *)
cancel_never(uri) == deadlines' = deadlines
cancel(uri) == deadlines' = deadlines \ {uri}

(* What is due is published in the order of the URIs.                      *)
FirstOf(uris) ==
    LET i == CHOOSE n \in DOMAIN UriOrder :
                /\ UriOrder[n] \in uris
                /\ \A k \in DOMAIN UriOrder : k < n => UriOrder[k] \notin uris
    IN  UriOrder[i]

-----------------------------------------------------------------------------
(* Diagnostics.                                                            *)

(* The error that a check finds in file f.                                 *)
Errors(f) ==
    IF f \in Docs /\ Open(f)
    THEN {documents[f].text} \cap Bad
    ELSE IF f \in BadOnDisk THEN {Saved} ELSE {}

(* What a check of root u reports; an environment failure reports nothing. *)
Report(u) ==
    LET text == documents[u].text
    IN  [f \in Files |-> IF text \notin Unresolvable /\ f \in {u} \cup Imports[text]
                         THEN Errors(f) ELSE {}]

(* DiagnosticPublications.replace: the files whose markers change hands,   *)
(* with what all the roots then report of them.                            *)
Replaced(root, groups) ==
    LET now == [roots EXCEPT ![root] = groups]
    IN  [f \in {root} \cup {g \in Files : roots[root][g] # {} \/ groups[g] # {}} |->
            UNION {now[r][f] : r \in Docs}]

(* DiagnosticPublications.replace: the root's contributions from now on.   *)
(* Mutant: contributions are only ever added.                              *)
Contribute_added(root, groups) ==
    roots' = [roots EXCEPT ![root] = [f \in Files |-> @[f] \cup groups[f]]]
Contribute(root, groups) == roots' = [roots EXCEPT ![root] = groups]

Publication(groups, note) == [type |-> "publish", markers |-> groups, note |-> note]

(* _publish_document, up to but not including the writing.                 *)
ComputePublication(uri) ==
    LET fails == documents[uri].text \in Unresolvable
    IN  /\ job' = [uri |-> uri, expected |-> documents[uri],
                   message |-> Publication(Replaced(uri, Report(uri)), fails /\ ~reported)]
        /\ Contribute(uri, Report(uri))
        /\ reported' = (reported \/ fails)

Response(id, note) == [type |-> "response", id |-> id, note |-> note]
Write(message) == output' = Append(output, message)

-----------------------------------------------------------------------------
Init ==
    /\ editor = [u \in Docs |-> Absent] /\ sent = 0
    /\ markers = NoGroups /\ notified = FALSE
    /\ latest = [u \in Docs |-> Absent]
    /\ inbound = <<>> /\ output = <<>>
    /\ documents = [u \in Docs |-> Absent]
    /\ deadlines = {} /\ todo = {} /\ job = NoJob /\ after = Nothing
    /\ roots = [u \in Docs |-> NoGroups]
    /\ reported = FALSE /\ shutdown_requested = FALSE /\ running = TRUE

(* The reader thread: observe() and the put into the queue.                *)
(* Mutant: only openings and closings are noted.                           *)
Observe_opens_only(m) ==
    /\ latest' = CASE m.type = "open" -> [latest EXCEPT ![m.uri] = m.state]
                   [] m.type = "close" -> [latest EXCEPT ![m.uri] = Absent]
                   [] OTHER -> latest
    /\ inbound' = Append(inbound, m)
Observe(m) ==
    /\ latest' = CASE m.type \in {"open", "change"} -> [latest EXCEPT ![m.uri] = m.state]
                   [] m.type = "close" -> [latest EXCEPT ![m.uri] = Absent]
                   [] OTHER -> latest
    /\ inbound' = Append(inbound, m)

(* The main loop takes the URIs that are due, one publication at a time.   *)
AtLoop == running /\ todo = {} /\ job = NoJob /\ after = Nothing

(* Mutant: what is due stays due.                                          *)
TakeDue_kept ==
    /\ AtLoop /\ deadlines # {}
    /\ todo' = deadlines
    /\ UNCHANGED <<clientVars, latest, inbound, documents, deadlines, job, after, roots,
                   reported, exitVars, output>>

TakeDue ==
    /\ AtLoop /\ deadlines # {}
    /\ todo' = deadlines /\ deadlines' = {}
    /\ UNCHANGED <<clientVars, latest, inbound, documents, job, after, roots,
                   reported, exitVars, output>>

BeginPublish ==
    /\ running /\ todo # {} /\ job = NoJob
    /\ LET uri == FirstOf(todo) IN
          /\ todo' = todo \ {uri}
          /\ IF Open(uri) THEN ComputePublication(uri) ELSE UNCHANGED <<job, roots, reported>>
    /\ UNCHANGED <<clientVars, latest, inbound, documents, deadlines, after,
                   exitVars, output>>

(* publish_if_current, after the check: a result is written only if the    *)
(* reader has seen nothing newer.                                          *)
IsCurrent(uri, expected) ==
    /\ latest[uri] = expected
    /\ documents[uri] = expected

FinishPublish ==
    /\ running /\ job # NoJob
    /\ job' = NoJob
    /\ IF IsCurrent(job.uri, job.expected) THEN Write(job.message) ELSE UNCHANGED output
    /\ UNCHANGED <<clientVars, latest, inbound, documents, deadlines, todo, after,
                   roots, reported, exitVars>>

(* The messages of the queue, one action per kind.                         *)
Taken(type) ==
    /\ AtLoop /\ inbound # <<>> /\ Head(inbound).type = type
    /\ inbound' = Tail(inbound)

(* The documents of the edited one's project, the edited one always among  *)
(* them; the documents of the model belong to one project.  Where that     *)
(* project has no readable manifest the code schedules the edited document *)
(* alone: no check can report anything then, and the change that repairs   *)
(* the manifest is a change of watched files, which schedules all.  The    *)
(* manifest of the model is always readable.                               *)
(* Mutant: only the edited document is checked again.                      *)
affected_alone(u) == {u}
affected_document_uris(u) == OpenDocs \cup {u}

DidOpen ==
    /\ Taken("open")
    /\ LET m == Head(inbound) IN
          /\ documents' = [documents EXCEPT ![m.uri] = m.state]
          /\ replace(affected_document_uris(m.uri))
    /\ UNCHANGED <<clientVars, latest, todo, job, after, roots, reported, exitVars, output>>

Outdated(m) == m.state.version < documents[m.uri].version

DidChange ==
    /\ Taken("change")
    /\ LET m == Head(inbound) IN
          /\ documents' = IF Open(m.uri) /\ ~Outdated(m)
                          THEN [documents EXCEPT ![m.uri] = m.state] ELSE documents
          /\ replace(IF Open(m.uri) THEN affected_document_uris(m.uri) ELSE {})
          /\ IF Open(m.uri) THEN UNCHANGED output
             ELSE Write(Publication([f \in {m.uri} |-> {Saved}], FALSE))
    /\ UNCHANGED <<clientVars, latest, todo, job, after, roots, reported, exitVars>>

DidClose ==
    /\ Taken("close")
    /\ LET u == Head(inbound).uri IN
          /\ documents' = [documents EXCEPT ![u] = Absent]
          /\ cancel(u)
          /\ Contribute(u, NoGroups)
          /\ Write(Publication(Replaced(u, NoGroups), FALSE))
    /\ UNCHANGED <<clientVars, latest, todo, job, after, reported, exitVars>>

(* The project's manifest or lock file changed.                            *)
WatchedFiles ==
    /\ Taken("watched")
    /\ reported' = FALSE
    /\ replace(OpenDocs)
    /\ UNCHANGED <<clientVars, latest, documents, todo, job, after, roots, exitVars, output>>

(* A query: hover, definition, rename, ...                                 *)
Request ==
    /\ Taken("request")
    /\ LET u == Head(inbound).uri
           fails == Open(u) /\ documents[u].text \in Unresolvable
       IN  /\ reported' = (reported \/ fails)
           /\ Write(Response(Head(inbound).id, fails /\ ~reported))
    /\ UNCHANGED <<clientVars, latest, documents, deadlines, todo, job, after, roots, exitVars>>

(* shutdown and end of input first publish everything that is waiting.     *)
FlushPending ==
    /\ todo' = deadlines /\ deadlines' = {}
    /\ after' = Head(inbound)
    /\ UNCHANGED <<clientVars, latest, documents, job, roots, reported, exitVars, output>>

Shutdown == Taken("shutdown") /\ FlushPending
EndOfInput == Taken("eof") /\ FlushPending

AfterFlush ==
    /\ running /\ todo = {} /\ job = NoJob /\ after # Nothing
    /\ after' = Nothing
    /\ running' = (after.type # "eof")
    /\ shutdown_requested' = (shutdown_requested \/ after.type = "shutdown")
    /\ IF after.type = "shutdown" THEN Write(Response(after.id, FALSE)) ELSE UNCHANGED output
    /\ UNCHANGED <<clientVars, latest, inbound, documents, deadlines, todo, job,
                   roots, reported>>

Exit ==
    /\ Taken("exit")
    /\ running' = FALSE
    /\ UNCHANGED <<clientVars, latest, documents, deadlines, todo, job, after, roots,
                   reported, shutdown_requested, output>>

(* A frame that cannot be read ends the loop with a parse error.           *)
Malformed ==
    /\ Taken("malformed")
    /\ running' = FALSE
    /\ Write(Response(Absent, FALSE))
    /\ UNCHANGED <<clientVars, latest, documents, deadlines, todo, job, after, roots,
                   reported, shutdown_requested>>

Main == \/ TakeDue \/ BeginPublish \/ FinishPublish
        \/ DidOpen \/ DidChange \/ DidClose \/ WatchedFiles \/ Request
        \/ Shutdown \/ EndOfInput \/ AfterFlush \/ Exit \/ Malformed

-----------------------------------------------------------------------------
(* The client: an editor that keeps to the protocol, except that it may    *)
(* repeat an outdated change where StaleChanges says so.                   *)

Ended == {"eof", "exit", "malformed"}

ClientMessages ==
    {[type |-> "open", uri |-> u, state |-> [version |-> 1, text |-> t]] :
        u \in {v \in Docs : editor[v] = Absent}, t \in Texts}
    \cup {[type |-> "change", uri |-> u,
           state |-> [version |-> editor[u].version + 1, text |-> t]] :
        u \in {v \in Docs : editor[v] # Absent}, t \in Texts}
    \cup {[type |-> "close", uri |-> u] : u \in {v \in Docs : editor[v] # Absent}}
    \cup {[type |-> "request", uri |-> u, id |-> sent + 1] : u \in {v \in Docs : editor[v] # Absent}}
    \cup {[type |-> "shutdown", id |-> sent + 1]}
    \cup {[type |-> k] : k \in {"watched"} \cup Ended}

StaleMessages ==
    {[type |-> "change", uri |-> u,
      state |-> [version |-> editor[u].version - 1, text |-> t]] :
        u \in {v \in Docs : StaleChanges /\ editor[v] # Absent}, t \in Texts}

(* Nothing follows the last message of a session.                          *)
MayStillSend == sent < MaxMessages

EditorAfter(m) ==
    editor' = CASE m.type \in {"open", "change"} /\ m \notin StaleMessages ->
                        [editor EXCEPT ![m.uri] = m.state]
                [] m.type = "close" -> [editor EXCEPT ![m.uri] = Absent]
                [] OTHER -> editor

Send(m) ==
    /\ MayStillSend
    /\ EditorAfter(m)
    /\ sent' = IF m.type \in Ended THEN MaxMessages ELSE sent + 1
    /\ Observe(m)
    /\ UNCHANGED <<markers, notified, mainVars, output>>

Show(m) ==
    /\ markers' = IF m.type = "publish"
                  THEN [f \in Files |-> IF f \in DOMAIN m.markers
                                        THEN m.markers[f] ELSE markers[f]]
                  ELSE markers
    /\ notified' = (notified \/ m.note)

Receive ==
    /\ output # <<>>
    /\ Show(Head(output))
    /\ output' = Tail(output)
    /\ UNCHANGED <<editor, sent, latest, inbound, mainVars>>

(* A session over or a client that has said all it will.                   *)
Quiet ==
    /\ output = <<>>
    /\ running => AtLoop /\ inbound = <<>> /\ deadlines = {}
Rest == Quiet /\ ~MayStillSend /\ UNCHANGED vars

Next == Main \/ Receive \/ Rest
        \/ \E m \in ClientMessages \cup StaleMessages : Send(m)

Spec == Init /\ [][Next]_vars

(* The main loop and the client's receiving end keep going.                *)
FairSpec == Spec /\ WF_vars(Main) /\ WF_vars(Receive)

-----------------------------------------------------------------------------
(* When everything has been handled, what the server last concluded about  *)
(* an open document, or about an open import of one, is what a check of    *)
(* the present buffers would say: no edit is left unchecked, whatever the  *)
(* order in which edits, deadlines and checks came.                        *)
ReportsAreCurrent ==
    Quiet /\ running =>
        \A u \in OpenDocs : \A f \in OpenDocs : roots[u][f] = Report(u)[f]

(* When everything has been handled, the client shows the error in every   *)
(* document that has one.                                                  *)
EveryErrorShown ==
    Quiet /\ running =>
        \A u \in Docs : editor[u] # Absent /\ editor[u].text \in Bad \ Unresolvable
                          => editor[u].text \in markers[u]

(* A document that the client has closed contributes no marker.            *)
ClosedContributeNothing ==
    Quiet /\ running => \A u \in Docs : editor[u] = Absent => roots[u] = NoGroups

(* Replacing or closing a root clears its retired markers: when everything *)
(* has been handled, every marker shown is one that some root reports.     *)
RetiredMarkersCleared ==
    Quiet /\ running =>
        \A f \in Files : markers[f] \subseteq UNION {roots[r][f] : r \in Docs}

(* A document that cannot be checked for want of a usable project is never *)
(* silently without diagnostics: the client has been told of the failure.  *)
EnvironmentFailureReported ==
    Quiet /\ running /\ (\E u \in OpenDocs : documents[u].text \in Unresolvable)
        => notified

(* Once the client stops sending, the server comes to rest.                *)
ComesToRest == <>[]Quiet
=============================================================================
