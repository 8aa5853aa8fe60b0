--------------------------- MODULE ToolingSession ---------------------------
(***************************************************************************)
(* The two caches between the language server and the compiler.            *)
(* ToolingSession.semantic_snapshot keeps the semantic products of root    *)
(* texts, each with the signature (sizes and times) and the fingerprint    *)
(* (digests) of the files of its project.  Below it                        *)
(* IncrementalWorkspaceSession keeps the compilation sessions, each with a *)
(* fingerprint; and a session keeps what it has made, the product or the   *)
(* failure, so that a session that is used again does not look at the      *)
(* files.  Files change at any time, also while a product is computed:     *)
(* each reading of all signatures, of all digests or of all names is a     *)
(* step.                                                                   *)
(*                                                                         *)
(* A root is a text in a project.  Of the files there are two values here: *)
(* the modules of the root's own package that it imports, and the other    *)
(* modules of that package; manifest, lock and libraries do not change,    *)
(* and no imported module is removed, as every analysis fails then.  A     *)
(* write changes the signature even if it restores an earlier content.     *)
(* The inventory is the set of names of the package's sources.             *)
(***************************************************************************)
EXTENDS Naturals, Sequences

CONSTANTS Roots,         \* texts of root documents, with their context
          FileContents,
          Inventories,
          MaxWrites,     \* bound on the changes of files and names
          MaxSnapshots,  \* _MAX_ENTRIES
          NoSession

(* What an analysis is asked for: AnalysisNeeds, as far as a request with  *)
(* more needs is not answered by a product with fewer.                     *)
Needs == {0, 1}
More(m, n) == IF m > n THEN m ELSE n

(* Worlds are fingerprints, too.  A product depends on the imported files  *)
(* and the names only.                                                     *)
Worlds == [content : FileContents, others : FileContents, names : Inventories]
Digests == [content : FileContents, others : FileContents]
Products == [content : FileContents, names : Inventories]

Files(w) == [content |-> w.content, others |-> w.others]
Product(w) == [content |-> w.content, names |-> w.names]

(* What a session has made: nothing yet, its product, or an exception, as  *)
(* an imported file is not what was discovered.                            *)
Made == {"nothing", "product", "race"}
SessionRecords == [result : Products, made : Made, fingerprint : Worlds]

ASSUME ToolingAssumption ==
    /\ MaxWrites \in Nat /\ MaxSnapshots \in Nat \ {0}
    /\ NoSession \notin SessionRecords

VARIABLES
    world,      \* the files and the inventory
    stamp,      \* the signature of the files
    entries,    \* the snapshots kept, least recently used first
    sessions,   \* of each root and needs, the compilation session kept
    request,    \* the request under way, and its answer
    seen,       \* the imported files and the names since it was made
    writes      \* changes so far, up to MaxWrites

toolingVars == <<world, stamp, entries, sessions, request, seen, writes>>

NoRequest == [phase |-> "idle"]
NothingSeen == [content |-> {}, names |-> {}]

Is(phase) == request.phase = phase
Goes(phase) == request' = [request EXCEPT !.phase = phase]

-----------------------------------------------------------------------------
HasEntry(root) == \E i \in DOMAIN entries : entries[i].root = root
PlaceOf(root) == CHOOSE i \in DOMAIN entries : entries[i].root = root
Cached == entries[PlaceOf(request.root)]

WithoutEntry(root) ==
    IF HasEntry(root)
    THEN [i \in 1..(Len(entries) - 1) |->
            IF i < PlaceOf(root) THEN entries[i] ELSE entries[i + 1]]
    ELSE entries

Bounded(es) == IF Len(es) > MaxSnapshots THEN Tail(es) ELSE es

Suffices(entry) == entry.names = world.names /\ entry.needs >= request.needs

(* The answer, and whether what it comes from was recorded with the        *)
(* fingerprint of its own files.                                           *)
Answered(result, needs, own) ==
    request' = [phase |-> "answered", asked |-> request.asked,
                needs |-> needs, result |-> result, own |-> own]

Own(entry) == entry.result = [content |-> entry.fingerprint.content, names |-> entry.names]

ToolingInit ==
    /\ world \in Worlds /\ stamp = 0 /\ writes = 0
    /\ entries = <<>>
    /\ sessions = [k \in Roots \X Needs |-> NoSession]
    /\ request = NoRequest
    /\ seen = NothingSeen

Ask(root, needs) ==
    /\ Is("idle")
    /\ request' = [phase |-> "lookup", root |-> root, asked |-> needs, needs |-> needs,
                   attempt |-> 0, signature |-> 0, files |-> Files(world),
                   result |-> Product(world), old |-> NoSession, current |-> world,
                   own |-> TRUE]
    /\ seen' = [content |-> {world.content}, names |-> {world.names}]
    /\ UNCHANGED <<world, stamp, writes, entries, sessions>>

-----------------------------------------------------------------------------
(* An entry with the current signature, and then the current inventory,    *)
(* and with the needs of the request, answers it.                          *)
Lookup ==
    /\ Is("lookup")
    /\ IF HasEntry(request.root)
       THEN request' = [request EXCEPT !.phase = "match", !.signature = stamp]
       ELSE Goes("session")
    /\ UNCHANGED <<world, stamp, writes, entries, sessions, seen>>

LookupHit ==
    /\ Is("match")
    /\ Cached.signature = request.signature /\ Suffices(Cached)
    /\ entries' = Append(WithoutEntry(request.root), Cached)
    /\ Answered(Cached.result, Cached.needs, Own(Cached))
    /\ UNCHANGED <<world, stamp, writes, sessions, seen>>

LookupMiss ==
    /\ Is("match")
    /\ ~(Cached.signature = request.signature /\ Suffices(Cached))
    /\ Goes("rehash")
    /\ UNCHANGED <<world, stamp, writes, entries, sessions, seen>>

(* All digests are read, and after them, with what is then made of both,   *)
(* the inventory: to renew an entry, to compare a session, to judge and to *)
(* retain one, to retake its fingerprint, and to record an entry.          *)
AfterHash == [rehash |-> "rematch", session |-> "compare", fresh |-> "judge",
              keep |-> "retain", refresh |-> "retake", record |-> "store"]
Listed == [content |-> request.files.content, others |-> request.files.others,
           names |-> world.names]
Kept == sessions[<<request.root, request.needs>>]

HashFiles ==
    /\ request.phase \in DOMAIN AfterHash
    /\ Is("session") => Kept # NoSession
    /\ request' = [request EXCEPT !.phase = AfterHash[@], !.files = Files(world)]
    /\ UNCHANGED <<world, stamp, writes, entries, sessions, seen>>

(* The same digests renew the signature, and answer the request if the     *)
(* entry suffices.  Otherwise a new product is made that has the needs of  *)
(* the entry as well.                                                      *)
RehashHit ==
    /\ Is("rematch") /\ Cached.fingerprint = request.files /\ Suffices(Cached)
    /\ LET renewed == [Cached EXCEPT !.signature = request.signature]
       IN /\ entries' = Append(WithoutEntry(request.root), renewed)
          /\ Answered(Cached.result, Cached.needs, Own(Cached))
    /\ UNCHANGED <<world, stamp, writes, sessions, seen>>

RehashMiss ==
    /\ Is("rematch") /\ ~(Cached.fingerprint = request.files /\ Suffices(Cached))
    /\ entries' = IF Cached.fingerprint = request.files
                  THEN [entries EXCEPT ![PlaceOf(request.root)].signature = request.signature]
                  ELSE entries
    /\ request' = [request EXCEPT !.phase = "session", !.needs = More(@, Cached.needs)]
    /\ UNCHANGED <<world, stamp, writes, sessions, seen>>

-----------------------------------------------------------------------------
(* IncrementalWorkspaceSession.file_snapshot: a session whose fingerprint  *)
(* is current is used again, with whatever it has made.  Otherwise it is   *)
(* set aside and the workspace is discovered anew: the names, then the     *)
(* files, then all files and last the imported ones once more.             *)
Reuse ==
    /\ Is("compare") /\ Kept.fingerprint = Listed
    /\ request' = [request EXCEPT !.phase = "check", !.result = Kept.result,
                                 !.own = Kept.result = Product(Kept.fingerprint)]
    /\ UNCHANGED <<world, stamp, writes, entries, sessions, seen>>

SetAside ==
    /\ Is("compare") /\ Kept.fingerprint # Listed
    /\ request' = [request EXCEPT !.phase = "discover", !.old = Kept, !.current = Listed]
    /\ sessions' = [sessions EXCEPT ![<<request.root, request.needs>>] = NoSession]
    /\ UNCHANGED <<world, stamp, writes, entries, seen>>

Discover ==
    /\ Is("discover") \/ (Is("session") /\ Kept = NoSession)
    /\ request' = [request EXCEPT !.phase = "load", !.own = TRUE,
                                 !.result = [@ EXCEPT !.names = world.names]]
    /\ UNCHANGED <<world, stamp, writes, entries, sessions, seen>>

(* A file that differs from its digest is a race, which is tried again     *)
(* once; one that is gone from the inventory is a failure.                 *)
Raced == IF request.attempt = 0
         THEN request' = [request EXCEPT !.phase = "session", !.attempt = 1, !.old = NoSession]
         ELSE Goes("failed")

LoadSources ==
    /\ Is("load")
    /\ \/ request' = [request EXCEPT !.phase = "validate", !.files = Files(world),
                                    !.result = [@ EXCEPT !.content = world.content]]
       \/ request.result.names # world.names /\ Goes("failed")
    /\ UNCHANGED <<world, stamp, writes, entries, sessions, seen>>

ValidateGraph ==
    /\ Is("validate")
    /\ IF request.files # Files(world) THEN Raced
       ELSE Goes("resolve") \/ (request.result.names # world.names /\ Goes("failed"))
    /\ UNCHANGED <<world, stamp, writes, entries, sessions, seen>>

Resolve ==
    /\ Is("resolve")
    /\ IF request.result.content # world.content THEN Raced
       ELSE Goes(IF request.old = NoSession THEN "keep" ELSE "fresh")
    /\ UNCHANGED <<world, stamp, writes, entries, sessions, seen>>

(* The session set aside is as good as the fresh one if the same imported  *)
(* files were discovered and only others have changed: it is kept with the *)
(* fingerprint that was compared.                                          *)
(* Mutant: the closures are not compared.                                  *)
same_affected_closure_names == request.old.fingerprint.names = world.names
same_affected_closure ==
    request.old.result = request.result /\ request.old.fingerprint.names = world.names

KeepOld ==
    /\ Is("judge") /\ same_affected_closure
    /\ sessions' = [sessions EXCEPT ![<<request.root, request.needs>>] =
                       [request.old EXCEPT !.fingerprint = request.current]]
    /\ request' = [request EXCEPT !.phase = "check", !.result = request.old.result,
                                 !.old = NoSession]
    /\ UNCHANGED <<world, stamp, writes, entries, seen>>

RejectOld ==
    /\ Is("judge") /\ ~same_affected_closure
    /\ request' = [request EXCEPT !.phase = "keep", !.old = NoSession]
    /\ UNCHANGED <<world, stamp, writes, entries, sessions, seen>>

KeepFresh ==
    /\ Is("retain")
    /\ sessions' = [sessions EXCEPT ![<<request.root, request.needs>>] =
                       [result |-> request.result, made |-> "nothing", fingerprint |-> Listed]]
    /\ Goes("check")
    /\ UNCHANGED <<world, stamp, writes, entries, seen>>

-----------------------------------------------------------------------------
(* check_file_snapshot: a session that has made nothing yet compares each  *)
(* imported file with the digest that was discovered.  What it makes, also *)
(* an exception, it keeps, and gives again when it is asked again.         *)
Make(made) ==
    /\ sessions' = [sessions EXCEPT ![<<request.root, request.needs>>].made = made]
    /\ IF made = "product" THEN Goes("refresh") ELSE Raced

Check ==
    /\ Is("check")
    /\ Make(IF Kept.made # "nothing" THEN Kept.made
            ELSE IF request.result.content = world.content THEN "product" ELSE "race")
    /\ UNCHANGED <<world, stamp, writes, entries, seen>>

(* The session's fingerprint is taken once more, and then the signature,   *)
(* the digests and the inventory of the entry.                             *)
Refresh ==
    /\ Is("retake")
    /\ sessions' = [sessions EXCEPT ![<<request.root, request.needs>>].fingerprint = Listed]
    /\ Goes("sign")
    /\ UNCHANGED <<world, stamp, writes, entries, seen>>

Sign ==
    /\ Is("sign")
    /\ request' = [request EXCEPT !.phase = "record", !.signature = stamp]
    /\ UNCHANGED <<world, stamp, writes, entries, sessions, seen>>

RecordEntry ==
    /\ Is("store")
    /\ LET entry == [root |-> request.root, needs |-> request.needs, result |-> request.result,
                     signature |-> request.signature, fingerprint |-> request.files,
                     names |-> world.names]
       IN /\ entries' = Bounded(Append(WithoutEntry(request.root), entry))
          /\ Answered(request.result, request.needs, request.own)
    /\ UNCHANGED <<world, stamp, writes, sessions, seen>>

Respond ==
    /\ request.phase \in {"answered", "failed"}
    /\ request' = NoRequest /\ seen' = NothingSeen
    /\ UNCHANGED <<world, stamp, writes, entries, sessions>>

-----------------------------------------------------------------------------
(* Between requests a change of a document drops, one after the other, the *)
(* snapshots of all roots that it is an input of; and a change of the      *)
(* project's metadata drops everything.                                    *)
Invalidate(roots) ==
    /\ Is("idle")
    /\ request' = [phase |-> "drop", roots |-> roots]
    /\ UNCHANGED <<world, stamp, writes, entries, sessions, seen>>

DropEntry ==
    /\ Is("drop")
    /\ IF request.roots = {} THEN request' = NoRequest /\ UNCHANGED entries
       ELSE \E root \in request.roots :
               /\ request' = [request EXCEPT !.roots = @ \ {root}]
               /\ entries' = WithoutEntry(root)
    /\ UNCHANGED <<world, stamp, writes, sessions, seen>>

ClearTooling ==
    /\ Is("idle")
    /\ entries' = <<>> /\ sessions' = [k \in Roots \X Needs |-> NoSession]
    /\ UNCHANGED <<world, stamp, writes, request, seen>>

(* The least recently used session gives way to others.                    *)
DropSession(k) ==
    /\ Is("idle") /\ sessions[k] # NoSession
    /\ sessions' = [sessions EXCEPT ![k] = NoSession]
    /\ UNCHANGED <<world, stamp, writes, entries, request, seen>>

(* A file is written, or a source is added, or one that is not imported is *)
(* renamed or removed, which changes the other files as well.              *)
Changes ==
    {w \in Worlds : w.content = world.content \/ [w EXCEPT !.content = world.content] = world}

WriteFile(w) ==
    /\ writes < MaxWrites /\ writes' = writes + 1
    /\ world' = w
    /\ stamp' = IF w # world /\ Files(w) = Files(world) THEN stamp ELSE stamp + 1
    /\ seen' = IF request.phase \in {"idle", "drop"} THEN seen
               ELSE [content |-> seen.content \cup {w.content},
                     names |-> seen.names \cup {w.names}]
    /\ UNCHANGED <<entries, sessions, request>>

ToolingNext ==
    \/ \E root \in Roots, needs \in Needs : Ask(root, needs)
    \/ Lookup \/ LookupHit \/ LookupMiss \/ HashFiles \/ RehashHit \/ RehashMiss
    \/ Reuse \/ SetAside \/ Discover \/ LoadSources \/ ValidateGraph \/ Resolve
    \/ KeepOld \/ RejectOld \/ KeepFresh \/ Check \/ Refresh \/ Sign \/ RecordEntry \/ Respond
    \/ \E roots \in SUBSET Roots : Invalidate(roots)
    \/ DropEntry
    \/ ClearTooling
    \/ \E k \in Roots \X Needs : DropSession(k)
    \/ \E w \in Changes : WriteFile(w)

ToolingSpec == ToolingInit /\ [][ToolingNext]_toolingVars

-----------------------------------------------------------------------------
(* The snapshot cache of the session stays within its bound, and holds     *)
(* only what was computed from files that were there.                      *)
ToolingTypeOK ==
    /\ world \in Worlds /\ stamp \in 0..MaxWrites /\ writes \in 0..MaxWrites
    /\ seen \in [content : SUBSET FileContents, names : SUBSET Inventories]
    /\ Len(entries) <= MaxSnapshots
    /\ \A i, j \in 1..Len(entries) : entries[i].root = entries[j].root => i = j
    /\ sessions \in [Roots \X Needs -> SessionRecords \cup {NoSession}]

Current(product) == product.content \in seen.content /\ product.names \in seen.names

(* A snapshot that answers a request has what was asked for; and it is of  *)
(* imported files and of names that were there at some moment since the    *)
(* request was made, unless its entry or its session was recorded with a   *)
(* fingerprint that is not that of its own files.                          *)
SnapshotsCurrent ==
    Is("answered") =>
        /\ request.needs >= request.asked
        /\ Current(request.result) \/ ~request.own

(* "... instead of stale results": a snapshot is never of files as they    *)
(* were only before the request.                                           *)
SnapshotsNeverStale == Is("answered") => Current(request.result)
=============================================================================
