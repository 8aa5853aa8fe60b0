-------------------------- MODULE ArtifactProvider --------------------------
(***************************************************************************)
(* FormalArtifactProvider: results of formal recipes, memoized per session *)
(* in a bounded LRU and, where a recipe has a codec, in a cache directory  *)
(* that other sessions share.  The threads of a session that ask for the   *)
(* same recipe at the same time share one flight: the first leads, loads   *)
(* or prepares the value, and the others wait for its outcome.             *)
(*                                                                         *)
(* A value is abstracted to the recipe that it is of and to whether it is  *)
(* decisive.  Each action is one critical section of the provider's lock,  *)
(* or one access to the cache directory.  Sessions may be killed at any    *)
(* moment, and files of the cache directory changed by others.  The        *)
(* statistics are left out.                                                *)
(***************************************************************************)
EXTENDS Naturals, Sequences

CONSTANTS
    Sessions,     \* processes, each with a provider of its own
    Threads,      \* threads of all the sessions
    Home,         \* [Threads -> Sessions]
    Recipes,
    Durable,      \* recipes with a codec, in a provider with a cache root
    Guarded,      \* recipes with a fingerprint; a codec serves as one
    MaxEntries,
    None          \* no value, no file, no leader

Values == [of : Recipes, decisive : BOOLEAN]
Failed == [error |-> TRUE]
Torn == [torn |-> TRUE]

ASSUME ProviderAssumption ==
    /\ Home \in [Threads -> Sessions]
    /\ Durable \subseteq Guarded /\ Guarded \subseteq Recipes
    /\ MaxEntries \in Nat \ {0}
    /\ None \notin Values \cup {Failed, Torn} \cup Threads

VARIABLES
    memory,        \* of each session, the entries, least recently used first
    pending,       \* of each session and recipe, the leader of its flight
    diagnostics,   \* of each session, the recipes with a diagnostic
    disk,          \* the cache directory: what the file of a recipe holds
    pc,            \* what each thread is about to do
    recipe,        \* the recipe that it has asked for, while its call lasts
    leader,        \* whose flight it waits for
    outcome        \* what its call gives

threadVars == <<pc, recipe, leader, outcome>>
vars == <<memory, pending, diagnostics, disk, threadVars>>

Entries == [recipe : Recipes, value : Values, intact : BOOLEAN]
Contents == Values \cup {None, Torn}

Leading == {"load", "prepare", "publish", "staged", "remember", "finish"}

FlightTypeOK ==
    /\ pending \in [Sessions -> [Recipes -> Threads \cup {None}]]
    /\ pc \in [Threads -> Leading \cup {"idle", "wait", "woken"}]
    /\ recipe \in [Threads -> Recipes \cup {None}]
    /\ leader \in [Threads -> Threads \cup {None}]

(* The tables hold what they are meant to, and the LRU of every session is *)
(* within its bound.                                                       *)
TypeOK ==
    /\ FlightTypeOK
    /\ \A s \in Sessions : /\ Len(memory[s]) <= MaxEntries
                           /\ \A i \in DOMAIN memory[s] : memory[s][i] \in Entries
    /\ diagnostics \in [Sessions -> SUBSET Recipes]
    /\ disk \in [Recipes -> Contents]
    /\ outcome \in [Threads -> Values \cup {None, Failed}]

-----------------------------------------------------------------------------
Decisive(r) == [of |-> r, decisive |-> TRUE]

(* decisive_formal_cacheable                                               *)
cacheable(value) == value.decisive

(* What _load_disk accepts of the file of a recipe.                        *)
(* Mutant: the recipe in the envelope is not compared.                     *)
Accepted_any(r, content) == content \in Values /\ cacheable(content)
Accepted(r, content) == content \in Values /\ content.of = r /\ cacheable(content)

KeptOf(s, r) == {e \in {memory[s][i] : i \in DOMAIN memory[s]} : e.recipe = r}
Without(s, r) ==
    LET entries == memory[s]
        at == CHOOSE i \in DOMAIN entries : entries[i].recipe = r
    IN  IF KeptOf(s, r) = {} THEN entries
        ELSE [i \in 1..(Len(entries) - 1) |-> IF i < at THEN entries[i] ELSE entries[i + 1]]

(* _entry_matches: an entry is used if its fingerprint still matches.      *)
Matches(s, r) == \E e \in KeptOf(s, r) : e.intact \/ r \notin Guarded

Goto(t, place) == pc' = [pc EXCEPT ![t] = place]
Gives(t, value) == outcome' = [outcome EXCEPT ![t] = value]

Init ==
    /\ memory = [s \in Sessions |-> <<>>]
    /\ pending = [s \in Sessions |-> [r \in Recipes |-> None]]
    /\ diagnostics = [s \in Sessions |-> {}]
    /\ disk = [r \in Recipes |-> None]
    /\ pc = [t \in Threads |-> "idle"]
    /\ recipe = [t \in Threads |-> None]
    /\ leader = [t \in Threads |-> None]
    /\ outcome = [t \in Threads |-> None]

-----------------------------------------------------------------------------
(* memoize, up to the release of the lock: a hit, which gives the entry    *)
(* and makes it the newest, the start of a flight, or the joining of one.  *)

Hit(t, r) ==
    LET s == Home[t] IN
    /\ pc[t] = "idle" /\ Matches(s, r)
    /\ \E e \in KeptOf(s, r) : memory' = [memory EXCEPT ![s] = Append(Without(s, r), e)]
    /\ UNCHANGED <<pending, diagnostics, disk, threadVars>>

(* An entry that no longer matches is dropped, with a diagnostic.          *)
(* Mutant: it is only diagnosed.                                           *)
DropMismatch_diagnosed(s, r) ==
    /\ memory' = memory
    /\ diagnostics' = [diagnostics EXCEPT ![s] = IF KeptOf(s, r) = {} THEN @ ELSE @ \cup {r}]
DropMismatch(s, r) ==
    /\ memory' = [memory EXCEPT ![s] = Without(s, r)]
    /\ diagnostics' = [diagnostics EXCEPT ![s] = IF KeptOf(s, r) = {} THEN @ ELSE @ \cup {r}]

(* Mutant: every miss starts a flight.                                     *)
Lead_always(t, r) ==
    LET s == Home[t] IN
    /\ pc[t] = "idle" /\ ~Matches(s, r)
    /\ DropMismatch(s, r)
    /\ pending' = [pending EXCEPT ![s][r] = t]
    /\ recipe' = [recipe EXCEPT ![t] = r]
    /\ Goto(t, "load")
    /\ Gives(t, None)
    /\ UNCHANGED <<disk, leader>>
Lead(t, r) ==
    LET s == Home[t] IN
    /\ pc[t] = "idle" /\ ~Matches(s, r) /\ pending[s][r] = None
    /\ DropMismatch(s, r)
    /\ pending' = [pending EXCEPT ![s][r] = t]
    /\ recipe' = [recipe EXCEPT ![t] = r]
    /\ Goto(t, "load")
    /\ Gives(t, None)
    /\ UNCHANGED <<disk, leader>>

Join(t, r) ==
    LET s == Home[t] IN
    /\ pc[t] = "idle" /\ ~Matches(s, r) /\ pending[s][r] # None
    /\ DropMismatch(s, r)
    /\ recipe' = [recipe EXCEPT ![t] = r]
    /\ leader' = [leader EXCEPT ![t] = pending[s][r]]
    /\ Goto(t, "wait")
    /\ Gives(t, None)
    /\ UNCHANGED <<pending, disk>>

-----------------------------------------------------------------------------
(* The leader.                                                             *)

(* _load_disk: an entry that cannot be accepted is a miss, diagnosed.  Of  *)
(* one that is, the fingerprint is taken, which may raise.                 *)
Load(t) ==
    LET r == recipe[t]
        found == IF r \in Durable THEN disk[r] ELSE None
        s == Home[t]
    IN
    /\ pc[t] = "load"
    /\ IF Accepted(r, found)
       THEN \/ Goto(t, "remember") /\ Gives(t, found)
            \/ Goto(t, "finish") /\ Gives(t, Failed)
       ELSE Goto(t, "prepare") /\ UNCHANGED outcome
    /\ diagnostics' = [diagnostics EXCEPT
          ![s] = IF Accepted(r, found) THEN @ \ {r}
                 ELSE IF found = None THEN @ ELSE @ \cup {r}]
    /\ UNCHANGED <<memory, pending, disk, recipe, leader>>

(* prepare(): a value, kept only if it is decisive, or an exception.       *)
Prepare(t) ==
    LET r == recipe[t] IN
    /\ pc[t] = "prepare"
    /\ \/ \E decisive \in BOOLEAN :
             LET value == [of |-> r, decisive |-> decisive] IN
             /\ Gives(t, value)
             /\ Goto(t, IF ~cacheable(value) THEN "finish"
                        ELSE IF r \in Durable THEN "publish" ELSE "remember")
       \/ Gives(t, Failed) /\ Goto(t, "finish")
    /\ UNCHANGED <<memory, pending, diagnostics, disk, recipe, leader>>

(* _publish_disk, as publish_bytes_atomically does it: the entry is        *)
(* written beside the destination, which it then replaces.                 *)
(* Mutant: it is written in place.                                         *)
Stage_in_place(t) ==
    /\ pc[t] = "publish"
    /\ disk' = [disk EXCEPT ![recipe[t]] = Torn]
    /\ Goto(t, "staged")
    /\ UNCHANGED <<memory, pending, diagnostics, recipe, leader, outcome>>
Stage(t) ==
    /\ pc[t] = "publish"
    /\ \/ Goto(t, "staged") /\ UNCHANGED outcome
       \/ Goto(t, "finish") /\ Gives(t, Failed)
    /\ UNCHANGED <<memory, pending, diagnostics, disk, recipe, leader>>

(* The replacement may fail, and so may the synchronization of the         *)
(* directory after it.                                                     *)
Replace(t) ==
    /\ pc[t] = "staged"
    /\ \/ /\ disk' = [disk EXCEPT ![recipe[t]] = outcome[t]]
          /\ diagnostics' = [diagnostics EXCEPT ![Home[t]] = @ \ {recipe[t]}]
          /\ Goto(t, "remember") /\ UNCHANGED outcome
       \/ /\ disk' \in {disk, [disk EXCEPT ![recipe[t]] = outcome[t]]}
          /\ Goto(t, "finish") /\ Gives(t, Failed)
          /\ UNCHANGED diagnostics
    /\ UNCHANGED <<memory, pending, recipe, leader>>

(* _remember: the newest entries are kept.                                 *)
(* Mutant: the bound is looked at before the entry is added.               *)
Newest_late(entries) ==
    IF Len(entries) - 1 > MaxEntries
    THEN SubSeq(entries, Len(entries) - MaxEntries + 1, Len(entries)) ELSE entries
Newest(entries) ==
    IF Len(entries) > MaxEntries
    THEN SubSeq(entries, Len(entries) - MaxEntries + 1, Len(entries)) ELSE entries

Remember(t) ==
    LET s == Home[t]
        r == recipe[t]
        entry == [recipe |-> r, value |-> outcome[t], intact |-> TRUE]
    IN
    /\ pc[t] = "remember"
    /\ memory' = [memory EXCEPT ![s] = Newest(Append(Without(s, r), entry))]
    /\ Goto(t, "finish")
    /\ UNCHANGED <<pending, diagnostics, disk, recipe, leader, outcome>>

(* The finally clause: the flight ends and everyone who waits is woken     *)
(* with its outcome, an exception included.                                *)
Followers(t) == {u \in Threads : pc[u] = "wait" /\ leader[u] = t}
(* Mutant: those who wait are woken only with a value.                     *)
Finish_silent(t) ==
    LET woken == IF outcome[t] = Failed THEN {} ELSE Followers(t) IN
    /\ pc[t] = "finish"
    /\ pending' = [pending EXCEPT ![Home[t]][recipe[t]] = None]
    /\ pc' = [u \in Threads |-> IF u \in woken THEN "woken"
                                ELSE IF u = t THEN "idle" ELSE pc[u]]
    /\ outcome' = [u \in Threads |-> IF u \in woken THEN outcome[t]
                                     ELSE IF u = t THEN None ELSE outcome[u]]
    /\ recipe' = [recipe EXCEPT ![t] = None]
    /\ UNCHANGED <<memory, diagnostics, disk, leader>>
(* Mutant: the entry of the flight is left behind.                         *)
Finish_kept(t) ==
    /\ pc[t] = "finish"
    /\ pc' = [u \in Threads |-> IF u \in Followers(t) THEN "woken"
                                ELSE IF u = t THEN "idle" ELSE pc[u]]
    /\ outcome' = [u \in Threads |-> IF u \in Followers(t) THEN outcome[t]
                                     ELSE IF u = t THEN None ELSE outcome[u]]
    /\ recipe' = [recipe EXCEPT ![t] = None]
    /\ UNCHANGED <<memory, pending, diagnostics, disk, leader>>
Finish(t) ==
    /\ pc[t] = "finish"
    /\ pending' = [pending EXCEPT ![Home[t]][recipe[t]] = None]
    /\ pc' = [u \in Threads |-> IF u \in Followers(t) THEN "woken"
                                ELSE IF u = t THEN "idle" ELSE pc[u]]
    /\ outcome' = [u \in Threads |-> IF u \in Followers(t) THEN outcome[t]
                                     ELSE IF u = t THEN None ELSE outcome[u]]
    /\ recipe' = [recipe EXCEPT ![t] = None]
    /\ UNCHANGED <<memory, diagnostics, disk, leader>>

Wake(t) ==
    /\ pc[t] = "woken"
    /\ Goto(t, "idle")
    /\ leader' = [leader EXCEPT ![t] = None]
    /\ recipe' = [recipe EXCEPT ![t] = None]
    /\ Gives(t, None)
    /\ UNCHANGED <<memory, pending, diagnostics, disk>>

-----------------------------------------------------------------------------
clear_memory(s) ==
    /\ memory' = [memory EXCEPT ![s] = <<>>]
    /\ UNCHANGED <<pending, diagnostics, disk, threadVars>>

(* A caller alters the value that it was given, which the memory shares.   *)
Alter(s) ==
    /\ \E i \in DOMAIN memory[s] :
          /\ memory[s][i].recipe \in Guarded
          /\ memory' = [memory EXCEPT ![s][i].intact = FALSE]
    /\ UNCHANGED <<pending, diagnostics, disk, threadVars>>

(* A session is killed, and a new one takes its place.                     *)
Crash(s) ==
    /\ memory' = [memory EXCEPT ![s] = <<>>]
    /\ pending' = [pending EXCEPT ![s] = [r \in Recipes |-> None]]
    /\ diagnostics' = [diagnostics EXCEPT ![s] = {}]
    /\ pc' = [t \in Threads |-> IF Home[t] = s THEN "idle" ELSE pc[t]]
    /\ recipe' = [t \in Threads |-> IF Home[t] = s THEN None ELSE recipe[t]]
    /\ leader' = [t \in Threads |-> IF Home[t] = s THEN None ELSE leader[t]]
    /\ outcome' = [t \in Threads |-> IF Home[t] = s THEN None ELSE outcome[t]]
    /\ UNCHANGED disk

(* Something else deletes, damages or misplaces a file of the cache.       *)
Tamper(r) ==
    /\ \E content \in Contents : disk' = [disk EXCEPT ![r] = content]
    /\ UNCHANGED <<memory, pending, diagnostics, threadVars>>

Flight(t) == Load(t) \/ Prepare(t) \/ Stage(t) \/ Replace(t) \/ Remember(t) \/ Finish(t)

Next ==
    \/ \E t \in Threads, r \in Recipes : Hit(t, r) \/ Lead(t, r) \/ Join(t, r)
    \/ \E t \in Threads : Flight(t) \/ Wake(t)
    \/ \E s \in Sessions : clear_memory(s) \/ Alter(s) \/ Crash(s)
    \/ \E r \in Durable : Tamper(r)

Spec == Init /\ [][Next]_vars

(* Every thread keeps running; prepare() is bounded by the timeouts of the *)
(* formal tools.                                                           *)
FairSpec == Spec /\ \A t \in Threads : WF_vars(Flight(t) \/ Wake(t))

-----------------------------------------------------------------------------
(* At most one thread of a session is at a recipe: the table of flights    *)
(* holds exactly the threads that work, whatever fails or is killed.       *)
OneFlight ==
    /\ \A t \in Threads : pc[t] \in Leading => pending[Home[t]][recipe[t]] = t
    /\ \A s \in Sessions, r \in Recipes : pending[s][r] # None =>
          /\ pc[pending[s][r]] \in Leading
          /\ Home[pending[s][r]] = s /\ recipe[pending[s][r]] = r

(* No work is done for what the memory already has.                        *)
NoRepeat ==
    \A t \in Threads : pc[t] \in Leading \ {"finish"} => KeptOf(Home[t], recipe[t]) = {}

(* No one waits for a flight that has ended.                               *)
NoOrphan ==
    \A t \in Threads : pc[t] = "wait" =>
        /\ leader[t] \in Threads /\ pc[leader[t]] \in Leading
        /\ Home[leader[t]] = Home[t] /\ recipe[leader[t]] = recipe[t]

(* Whatever happens to the files of the cache, a session keeps only        *)
(* decisive values, and gives to a call only a value of its own recipe:    *)
(* an inconclusive result is tried again by the next call.                 *)
OnlyDecisiveKept ==
    /\ \A s \in Sessions : \A i \in DOMAIN memory[s] :
          memory[s][i].value = Decisive(memory[s][i].recipe)
    /\ \A t \in Threads : outcome[t] \in Values => outcome[t].of = recipe[t]

(* A good file of the cache stays good, unless something else changes it:  *)
(* no publication, failed or cut off by a crash, exposes a partial entry.  *)
NeverTorn ==
    [][\A r \in Recipes :
          disk[r] = Decisive(r) => disk'[r] = disk[r] \/ Tamper(r)]_vars

(* Every call comes back, with a value or an exception.                    *)
CallsReturn == \A t \in Threads : pc[t] # "idle" ~> pc[t] = "idle"
=============================================================================
