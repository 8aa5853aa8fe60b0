----------------------------- MODULE LspProofs -----------------------------
(***************************************************************************)
(* The language server and its supervisor, for any documents, texts and    *)
(* imports, any bound on the messages and any moment at which the worker   *)
(* hangs, exits or is killed.                                              *)
(*                                                                         *)
(* The argument follows a document through the queues.  The queue between  *)
(* the reader and the main loop is a chain: its messages about a document  *)
(* lead from the state that the main loop knows to the state that the      *)
(* reader saw.  So an empty queue means that the two agree, and a message  *)
(* that has become the first one fits the state it is handled in.  What    *)
(* the main loop knows of an open document is checked, or the document has *)
(* a deadline, or is in the batch being checked.  The supervisor adds a    *)
(* second chain, the pipe to the worker, and what it still waits for is    *)
(* accounted for by a message in a queue or by work that is due.           *)
(***************************************************************************)
EXTENDS Supervisor, NumberProofs

(* due() and drain(): the URI taken first is one of those that are due.    *)
LEMMA FirstIsMember ==
    ASSUME NEW uris, uris \subseteq Docs, uris # {}
    PROVE  FirstOf(uris) \in uris
<1> DEFINE IsFirst(n) == /\ UriOrder[n] \in uris
                         /\ \A k \in DOMAIN UriOrder : k < n => UriOrder[k] \notin uris
           T == {n \in DOMAIN UriOrder : UriOrder[n] \in uris}
<1>1. DOMAIN UriOrder \subseteq Nat
    BY LspAssumption
<1>2. T # {}
    BY DEF Docs
<1>3. PICK n \in T : \A k \in T : n <= k
    BY <1>1, <1>2, Least
<1>4. \E i \in DOMAIN UriOrder : IsFirst(i)
    BY <1>1, <1>3
<1>5. FirstOf(uris) = UriOrder[CHOOSE i \in DOMAIN UriOrder : IsFirst(i)]
    BY DEF FirstOf
<1> HIDE DEF IsFirst
<1>6. IsFirst(CHOOSE i \in DOMAIN UriOrder : IsFirst(i))
    BY <1>4
<1> QED
    BY <1>5, <1>6 DEF IsFirst

-----------------------------------------------------------------------------
(* A queue of messages about document u carries its state from s to e.     *)

About(m, u) == m.type \in {"open", "change", "close"} /\ m.uri = u
Result(m) == IF m.type = "close" THEN Absent ELSE m.state

(* Two views of a document: where a client repeats outdated changes, they  *)
(* agree only on whether it is open.                                       *)
Agree(s, e) == (s = Absent <=> e = Absent) /\ (~StaleChanges => s = e)

(* Message m may come when the document is in state s.                     *)
Follows(m, s) ==
    m.type = "change" =>
        s # Absent /\ (~StaleChanges => ~(m.state.version < s.version))

Silent(q, u, i, j) == \A k \in i..j : ~About(q[k], u)

Chain(q, s, e, u) ==
    /\ Silent(q, u, 1, Len(q)) => Agree(s, e)
    /\ \A i \in 1..Len(q) : About(q[i], u) =>
          /\ Silent(q, u, i + 1, Len(q)) => Agree(Result(q[i]), e)
          /\ Silent(q, u, 1, i - 1) => Follows(q[i], s)
          /\ \A j \in 1..(i - 1) : About(q[j], u) /\ Silent(q, u, j + 1, i - 1)
                => Follows(q[i], Result(q[j]))

LEMMA FollowsAgree ==
    ASSUME NEW m, NEW s, NEW e, Agree(s, e), Follows(m, e)
    PROVE  Follows(m, s)
BY DEF Agree, Follows

LEMMA AppendIsChain ==
    ASSUME NEW M, NEW q \in Seq(M), NEW m \in M, NEW s, NEW e, NEW d, NEW u,
           Chain(q, s, e, u),
           About(m, u) => Follows(m, e) /\ Agree(Result(m), d),
           ~About(m, u) => d = e
    PROVE  Chain(Append(q, m), s, d, u)
<1> DEFINE p == Append(q, m)
           n == Len(q)
<1>1. n \in Nat /\ Len(p) = n + 1 /\ p[n + 1] = m /\ \A k \in 1..n : p[k] = q[k]
    OBVIOUS
<1> HIDE DEF p, n
<1>2. ASSUME NEW i \in 1..(n + 1), NEW j \in 0..n PROVE Silent(p, u, i, j) <=> Silent(q, u, i, j)
    BY <1>1 DEF Silent
<1>3. ASSUME NEW i \in 1..(n + 1), Silent(p, u, i, n + 1)
      PROVE  ~About(m, u) /\ Silent(q, u, i, n)
  <2>1. ~About(p[n + 1], u)
    BY <1>1, <1>3 DEF Silent
  <2>2. Silent(p, u, i, n)
    BY <1>1, <1>3 DEF Silent
  <2> QED
    BY <2>1, <2>2, <1>1, <1>2
<1>4. Silent(p, u, 1, n + 1) => Agree(s, d)
    BY <1>1, <1>3 DEF Chain, n
<1>5. ASSUME NEW i \in 1..n, About(p[i], u)
      PROVE  /\ Silent(p, u, i + 1, n + 1) => Agree(Result(p[i]), d)
             /\ Silent(p, u, 1, i - 1) => Follows(p[i], s)
             /\ \A j \in 1..(i - 1) : About(p[j], u) /\ Silent(p, u, j + 1, i - 1)
                   => Follows(p[i], Result(p[j]))
  <2>1. p[i] = q[i] /\ About(q[i], u) /\ \A j \in 1..(i - 1) : p[j] = q[j]
    BY <1>1, <1>5
  <2>2. /\ Silent(q, u, i + 1, n) => Agree(Result(q[i]), e)
        /\ Silent(q, u, 1, i - 1) => Follows(q[i], s)
        /\ \A j \in 1..(i - 1) : About(q[j], u) /\ Silent(q, u, j + 1, i - 1)
              => Follows(q[i], Result(q[j]))
    BY <2>1 DEF Chain, n
  <2>3. Silent(p, u, i + 1, n + 1) => Agree(Result(p[i]), d)
    BY <1>1, <1>3, <2>1, <2>2
  <2>4. Silent(p, u, 1, i - 1) => Follows(p[i], s)
    BY <1>1, <1>2, <2>1, <2>2
  <2>5. ASSUME NEW j \in 1..(i - 1), About(p[j], u), Silent(p, u, j + 1, i - 1)
        PROVE  Follows(p[i], Result(p[j]))
    BY <1>1, <1>2, <2>1, <2>2, <2>5
  <2> QED
    BY <2>3, <2>4, <2>5
<1>6. ASSUME About(p[n + 1], u)
      PROVE  /\ Silent(p, u, n + 1 + 1, n + 1) => Agree(Result(p[n + 1]), d)
             /\ Silent(p, u, 1, n) => Follows(p[n + 1], s)
             /\ \A j \in 1..n : About(p[j], u) /\ Silent(p, u, j + 1, n)
                   => Follows(p[n + 1], Result(p[j]))
  <2>1. About(m, u) /\ Follows(m, e) /\ Agree(Result(m), d)
    BY <1>1, <1>6
  <2>2. Silent(p, u, 1, n) => Follows(m, s)
    <3>1. Silent(q, u, 1, n) => Agree(s, e)
      BY DEF Chain, n
    <3> QED
      BY <1>1, <1>2, <2>1, <3>1, FollowsAgree
  <2>3. ASSUME NEW j \in 1..n, About(p[j], u), Silent(p, u, j + 1, n)
        PROVE  Follows(m, Result(p[j]))
    <3>1. p[j] = q[j] /\ Silent(q, u, j + 1, n)
      BY <1>1, <1>2, <2>3
    <3>2. Agree(Result(q[j]), e)
      BY <2>3, <3>1 DEF Chain, n
    <3> QED
      BY <2>1, <3>1, <3>2, FollowsAgree
  <2> QED
    BY <1>1, <2>1, <2>2, <2>3
<1>7. ASSUME NEW i \in 1..(n + 1), About(p[i], u)
      PROVE  /\ Silent(p, u, i + 1, n + 1) => Agree(Result(p[i]), d)
             /\ Silent(p, u, 1, i - 1) => Follows(p[i], s)
             /\ \A j \in 1..(i - 1) : About(p[j], u) /\ Silent(p, u, j + 1, i - 1)
                   => Follows(p[i], Result(p[j]))
  <2>1. CASE i \in 1..n
    BY <1>5, <1>7, <2>1
  <2>2. CASE i = n + 1
    <3>1. i - 1 = n
      BY <1>1, <2>2
    <3> QED
      BY <1>6, <1>7, <2>2, <3>1
  <2> QED
    BY <1>1, <2>1, <2>2
<1>8. Chain(p, s, d, u)
    BY <1>1, <1>4, <1>7 DEF Chain
<1> QED
    BY <1>8 DEF p

LEMMA TailIsChain ==
    ASSUME NEW M, NEW q \in Seq(M), q # <<>>, NEW s, NEW d, NEW e, NEW u,
           Chain(q, s, e, u),
           About(Head(q), u) => Agree(Result(Head(q)), d),
           ~About(Head(q), u) => d = s
    PROVE  Chain(Tail(q), d, e, u)
<1> DEFINE p == Tail(q)
           n == Len(q) - 1
<1>1. /\ n \in Nat /\ Len(p) = n /\ Len(q) = n + 1 /\ Head(q) = q[1]
      /\ \A k \in 1..n : p[k] = q[k + 1]
    OBVIOUS
<1> HIDE DEF p, n
<1>2. ASSUME NEW i \in 1..(n + 1), NEW j \in 0..n, Silent(p, u, i, j) PROVE Silent(q, u, i + 1, j + 1)
  <2> SUFFICES ASSUME NEW k \in (i + 1)..(j + 1) PROVE ~About(q[k], u)
    BY DEF Silent
  <2>1. k - 1 \in i..j /\ k - 1 \in 1..n /\ k = (k - 1) + 1
    BY <1>1
  <2>2. p[k - 1] = q[(k - 1) + 1]
    BY <1>1, <2>1
  <2> QED
    BY <1>2, <2>1, <2>2 DEF Silent
<1>3. ASSUME NEW j \in 0..n, Silent(p, u, 1, j), ~About(q[1], u) PROVE Silent(q, u, 1, j + 1)
  <2>1. Silent(q, u, 2, j + 1)
    BY <1>1, <1>2, <1>3
  <2> QED
    BY <1>1, <1>3, <2>1 DEF Silent
<1>4. ASSUME Silent(p, u, 1, n) PROVE Agree(d, e)
  <2>1. CASE About(q[1], u)
    <3>1. Silent(q, u, 1 + 1, n + 1)
      BY <1>1, <1>2, <1>4
    <3>2. Agree(Result(q[1]), e)
      BY <1>1, <2>1, <3>1 DEF Chain
    <3> QED
      BY <1>1, <2>1, <3>2 DEF Agree
  <2>2. CASE ~About(q[1], u)
    BY <1>1, <1>3, <1>4, <2>2 DEF Chain
  <2> QED
    BY <2>1, <2>2
<1>5. ASSUME NEW i \in 1..n, About(p[i], u)
      PROVE  /\ Silent(p, u, i + 1, n) => Agree(Result(p[i]), e)
             /\ Silent(p, u, 1, i - 1) => Follows(p[i], d)
             /\ \A j \in 1..(i - 1) : About(p[j], u) /\ Silent(p, u, j + 1, i - 1)
                   => Follows(p[i], Result(p[j]))
  <2>1. p[i] = q[i + 1] /\ About(q[i + 1], u) /\ i + 1 \in 1..(n + 1) /\ (i + 1) - 1 = i
    BY <1>1, <1>5
  <2>2. /\ Silent(q, u, (i + 1) + 1, n + 1) => Agree(Result(q[i + 1]), e)
        /\ Silent(q, u, 1, i) => Follows(q[i + 1], s)
        /\ \A j \in 1..i : About(q[j], u) /\ Silent(q, u, j + 1, i)
              => Follows(q[i + 1], Result(q[j]))
    BY <1>1, <2>1 DEF Chain
  <2>3. Silent(p, u, i + 1, n) => Agree(Result(p[i]), e)
    BY <1>1, <1>2, <2>1, <2>2
  <2>4. ASSUME Silent(p, u, 1, i - 1) PROVE Follows(p[i], d)
    <3>1. i - 1 \in 0..n /\ (i - 1) + 1 = i
      BY <1>1
    <3>2. CASE About(q[1], u)
      <4>1. Silent(q, u, 1 + 1, i)
        BY <1>1, <1>2, <2>4, <3>1
      <4>2. 1 \in 1..i
        BY <1>1
      <4>3. Follows(q[i + 1], Result(q[1]))
        BY <2>2, <3>2, <4>1, <4>2
      <4>4. Agree(d, Result(q[1]))
        BY <1>1, <3>2 DEF Agree
      <4> QED
        BY <2>1, <4>3, <4>4, FollowsAgree
    <3>3. CASE ~About(q[1], u)
      <4>1. Silent(q, u, 1, i)
        BY <1>3, <2>4, <3>1, <3>3
      <4> QED
        BY <1>1, <2>1, <2>2, <3>3, <4>1
    <3> QED
      BY <3>2, <3>3
  <2>5. ASSUME NEW j \in 1..(i - 1), About(p[j], u), Silent(p, u, j + 1, i - 1)
        PROVE  Follows(p[i], Result(p[j]))
    <3>1. j \in 1..n /\ j + 1 \in 1..i /\ i - 1 \in 0..n /\ (i - 1) + 1 = i /\ j + 1 \in 1..(n + 1)
      BY <1>1
    <3>2. p[j] = q[j + 1]
      BY <1>1, <3>1
    <3>3. Silent(q, u, (j + 1) + 1, i)
      BY <1>2, <2>5, <3>1
    <3> QED
      BY <2>1, <2>2, <2>5, <3>1, <3>2, <3>3
  <2> QED
    BY <2>3, <2>4, <2>5
<1>6. Chain(p, d, e, u)
    BY <1>1, <1>4, <1>5 DEF Chain
<1> QED
    BY <1>6 DEF p

(* What the first message of a chain may be.                               *)
LEMMA HeadFollows ==
    ASSUME NEW M, NEW q \in Seq(M), q # <<>>, NEW s, NEW e, NEW u,
           Chain(q, s, e, u), About(Head(q), u)
    PROVE  Follows(Head(q), s)
<1>1. Len(q) \in Nat \ {0} /\ Head(q) = q[1] /\ 1 \in 1..Len(q)
    OBVIOUS
<1>2. Silent(q, u, 1, 1 - 1)
    BY DEF Silent
<1> QED
    BY <1>1, <1>2 DEF Chain

-----------------------------------------------------------------------------
(* What the client shows of u once it has received everything written:     *)
(* the last publication that mentions u, or what it shows now.             *)

Mentions(m, u) == m.type = "publish" /\ u \in DOMAIN m.markers
Unmentioned(out, u, i, j) == \A k \in i..j : ~Mentions(out[k], u)

Displayed(out, shown, u, text) ==
    /\ Unmentioned(out, u, 1, Len(out)) => text \in shown
    /\ \A i \in 1..Len(out) :
          Mentions(out[i], u) /\ Unmentioned(out, u, i + 1, Len(out))
              => text \in out[i].markers[u]

LEMMA AppendDisplays ==
    ASSUME NEW M, NEW out \in Seq(M), NEW m \in M, NEW shown, NEW u, NEW text,
           Mentions(m, u) => text \in m.markers[u],
           ~Mentions(m, u) => Displayed(out, shown, u, text)
    PROVE  Displayed(Append(out, m), shown, u, text)
<1> DEFINE p == Append(out, m)
           n == Len(out)
<1>1. n \in Nat /\ Len(p) = n + 1 /\ p[n + 1] = m /\ \A k \in 1..n : p[k] = out[k]
    OBVIOUS
<1> HIDE DEF p, n
<1>2. ASSUME NEW i \in 1..(n + 1), Unmentioned(p, u, i, n + 1)
      PROVE  ~Mentions(m, u) /\ Unmentioned(out, u, i, n)
    BY <1>1, <1>2 DEF Unmentioned
<1>3. Unmentioned(p, u, 1, n + 1) => text \in shown
    BY <1>1, <1>2 DEF Displayed, n
<1>4. ASSUME NEW i \in 1..(n + 1), Mentions(p[i], u), Unmentioned(p, u, i + 1, n + 1)
      PROVE  text \in p[i].markers[u]
  <2>1. CASE i = n + 1
    BY <1>1, <1>4, <2>1
  <2>2. CASE i \in 1..n
    <3>1. ~Mentions(m, u) /\ Unmentioned(out, u, i + 1, n) /\ p[i] = out[i]
      BY <1>1, <1>2, <1>4, <2>2
    <3> QED
      BY <1>1, <1>4, <2>2, <3>1 DEF Displayed, n
  <2> QED
    BY <1>1, <2>1, <2>2
<1>5. Displayed(p, shown, u, text)
    BY <1>1, <1>3, <1>4 DEF Displayed
<1> QED
    BY <1>5 DEF p

LEMMA TailDisplays ==
    ASSUME NEW M, NEW out \in Seq(M), out # <<>>, NEW shown, NEW now, NEW u, NEW text,
           Displayed(out, shown, u, text),
           now = IF Mentions(Head(out), u) THEN Head(out).markers[u] ELSE shown
    PROVE  Displayed(Tail(out), now, u, text)
<1> DEFINE p == Tail(out)
           n == Len(out) - 1
<1>1. /\ n \in Nat /\ Len(p) = n /\ Len(out) = n + 1 /\ Head(out) = out[1]
      /\ \A k \in 1..n : p[k] = out[k + 1]
    OBVIOUS
<1> HIDE DEF p, n
<1>2. ASSUME NEW i \in 1..(n + 1), Unmentioned(p, u, i, n) PROVE Unmentioned(out, u, i + 1, n + 1)
  <2> SUFFICES ASSUME NEW k \in (i + 1)..(n + 1) PROVE ~Mentions(out[k], u)
    BY DEF Unmentioned
  <2>1. k - 1 \in i..n /\ k - 1 \in 1..n /\ k = (k - 1) + 1
    BY <1>1
  <2>2. p[k - 1] = out[(k - 1) + 1]
    BY <1>1, <2>1
  <2> QED
    BY <1>2, <2>1, <2>2 DEF Unmentioned
<1>3. ASSUME Unmentioned(p, u, 1, n) PROVE text \in now
  <2>1. Unmentioned(out, u, 1 + 1, n + 1)
    BY <1>1, <1>2, <1>3
  <2>2. CASE Mentions(out[1], u)
    BY <1>1, <2>1, <2>2 DEF Displayed
  <2>3. CASE ~Mentions(out[1], u)
    <3>1. Unmentioned(out, u, 1, n + 1)
      BY <1>1, <2>1, <2>3 DEF Unmentioned
    <3> QED
      BY <1>1, <2>3, <3>1 DEF Displayed
  <2> QED
    BY <2>2, <2>3
<1>4. ASSUME NEW i \in 1..n, Mentions(p[i], u), Unmentioned(p, u, i + 1, n)
      PROVE  text \in p[i].markers[u]
  <2>1. p[i] = out[i + 1] /\ i + 1 \in 1..(n + 1)
    BY <1>1
  <2>2. Unmentioned(out, u, (i + 1) + 1, n + 1)
    BY <1>1, <1>2, <1>4
  <2> QED
    BY <1>1, <1>4, <2>1, <2>2 DEF Displayed
<1>5. Displayed(p, now, u, text)
    BY <1>1, <1>3, <1>4 DEF Displayed
<1> QED
    BY <1>5 DEF p

-----------------------------------------------------------------------------
(* The messages.                                                           *)

FromClient ==
    [type : {"open", "change"}, uri : Docs, state : States]
    \cup [type : {"close"}, uri : Docs]
    \cup [type : {"request"}, uri : Docs, id : 1..MaxMessages]
    \cup [type : {"shutdown"}, id : 1..MaxMessages]
    \cup [type : {"watched"} \cup Ended]

Lists(D) == [D -> SUBSET Items]
ToClient ==
    [type : {"publish"}, markers : UNION {Lists(D) : D \in SUBSET Files}, note : BOOLEAN]
    \cup [type : {"response"}, id : (1..MaxMessages) \cup {Absent}, note : BOOLEAN]

LEMMA ClientFields ==
    ASSUME NEW m \in FromClient
    PROVE  /\ m.type \in {"open", "change"} => m.uri \in Docs /\ m.state \in States
           /\ m.type \in {"close", "request"} => m.uri \in Docs
           /\ m.type \in {"request", "shutdown"} => m.id \in 1..MaxMessages
           /\ m.type \in {"open", "change", "close", "request", "shutdown", "watched"} \cup Ended
BY DEF FromClient, Ended

LEMMA ServerFields ==
    ASSUME NEW m \in ToClient
    PROVE  /\ m.note \in BOOLEAN /\ m.type \in {"publish", "response"}
           /\ m.type = "publish" =>
                 /\ DOMAIN m.markers \subseteq Files
                 /\ \A f \in DOMAIN m.markers : m.markers[f] \in SUBSET Items
<1>1. CASE m \in [type : {"response"}, id : (1..MaxMessages) \cup {Absent}, note : BOOLEAN]
    BY <1>1
<1>2. CASE m \in [type : {"publish"}, markers : UNION {Lists(D) : D \in SUBSET Files}, note : BOOLEAN]
  <2>1. PICK D \in SUBSET Files : m.markers \in Lists(D)
    BY <1>2
  <2> QED
    BY <1>2, <2>1 DEF Lists
<1> QED
    BY <1>1, <1>2 DEF ToClient

LEMMA PublicationIsMessage ==
    ASSUME NEW D \in SUBSET Files, NEW g \in Lists(D), NEW note \in BOOLEAN
    PROVE  Publication(g, note) \in ToClient
<1>1. g \in UNION {Lists(E) : E \in SUBSET Files}
    OBVIOUS
<1> QED
    BY <1>1 DEF Publication, ToClient

LEMMA ResponseIsMessage ==
    ASSUME NEW id \in (1..MaxMessages) \cup {Absent}, NEW note \in BOOLEAN
    PROVE  Response(id, note) \in ToClient
BY DEF Response, ToClient

-----------------------------------------------------------------------------
(* The invariants of the server, whoever it talks to.                      *)

ServerTypes ==
    /\ documents \in [Docs -> States \cup {Absent}]
    /\ latest \in [Docs -> States \cup {Absent}]
    /\ markers \in Groups
    /\ roots \in [Docs -> Groups]
    /\ deadlines \subseteq OpenDocs /\ todo \subseteq OpenDocs
    /\ after = Nothing \/ (after \in FromClient /\ after.type \in {"shutdown", "eof"})
    /\ inbound \in Seq(FromClient) /\ output \in Seq(ToClient)
    /\ notified \in BOOLEAN /\ reported \in BOOLEAN
    /\ shutdown_requested \in BOOLEAN /\ running \in BOOLEAN

(* A publication that is computed and not yet written is of the document   *)
(* as it is, and has all that any root reports of the files that it is on. *)
JobOK ==
    job # NoJob =>
        /\ job.uri \in OpenDocs
        /\ job.expected = documents[job.uri]
        /\ job.message \in ToClient
        /\ Mentions(job.message, job.uri)
        /\ \A f \in DOMAIN job.message.markers : \A r \in Docs :
              roots[r][f] \subseteq job.message.markers[f]

(* A document that is not waiting to be checked has been checked since it  *)
(* or an open document that it may import last changed.                    *)
CheckedOrDue ==
    \A u \in OpenDocs : u \in todo \cup deadlines
                        \/ \A f \in OpenDocs : roots[u][f] = Report(u)[f]

ClosedOK == \A u \in Docs : ~Open(u) => roots[u] = NoGroups

(* The queue leads from what the main loop knows to what the reader saw.   *)
QueueOK == \A u \in Docs : Chain(inbound, documents[u], latest[u], u)

ServerInv == ServerTypes /\ JobOK /\ CheckedOrDue /\ ClosedOK /\ QueueOK

LEMMA ReportTyped ==
    ASSUME documents \in [Docs -> States \cup {Absent}], NEW u \in Docs, Open(u)
    PROVE  Report(u) \in Groups
<1>1. ASSUME NEW f \in Files PROVE Errors(f) \in SUBSET Items
  <2>1. CASE f \in Docs /\ Open(f)
    <3>1. documents[f].text \in Texts
      BY <2>1 DEF Open, States
    <3> QED
      BY <2>1, <3>1 DEF Errors, Items
  <2>2. CASE ~(f \in Docs /\ Open(f))
    BY <2>2 DEF Errors, Items
  <2> QED
    BY <2>1, <2>2
<1> QED
    BY <1>1 DEF Report, Groups

(* Every file of a publication gets all that the roots report of it.       *)
LEMMA ReplacedFacts ==
    ASSUME roots \in [Docs -> Groups], NEW root \in Docs, NEW groups \in Groups,
           NEW note \in BOOLEAN
    PROVE  /\ Publication(Replaced(root, groups), note) \in ToClient
           /\ Mentions(Publication(Replaced(root, groups), note), root)
           /\ \A f \in DOMAIN Replaced(root, groups) : \A r \in Docs :
                 [roots EXCEPT ![root] = groups][r][f] \subseteq Replaced(root, groups)[f]
<1> DEFINE D == {root} \cup {g \in Files : roots[root][g] # {} \/ groups[g] # {}}
           now == [roots EXCEPT ![root] = groups]
           p == Replaced(root, groups)
<1>1. p = [f \in D |-> UNION {now[r][f] : r \in Docs}]
    BY DEF Replaced
<1>2. D \in SUBSET Files /\ root \in D
    BY DEF Files
<1>3. now \in [Docs -> Groups]
    OBVIOUS
<1> HIDE DEF D, now, p
<1>4. ASSUME NEW f \in D PROVE UNION {now[r][f] : r \in Docs} \in SUBSET Items
    BY <1>2, <1>3 DEF Groups
<1>5. p \in Lists(D) /\ DOMAIN p = D
    BY <1>1, <1>4 DEF Lists
<1>6. ASSUME NEW f \in D, NEW r \in Docs PROVE now[r][f] \subseteq p[f]
    BY <1>1
<1>7. Publication(p, note) \in ToClient
    BY <1>2, <1>5, PublicationIsMessage
<1>8. Mentions(Publication(p, note), root)
    BY <1>2, <1>5 DEF Publication, Mentions
<1> QED
    BY <1>5, <1>6, <1>7, <1>8 DEF p, now

(* _publish_document of the URI that is taken first.                       *)
LEMMA BeginFacts ==
    ASSUME ServerInv, BeginPublish
    PROVE  /\ FirstOf(todo) \in OpenDocs /\ FirstOf(todo) \in todo
           /\ ComputePublication(FirstOf(todo))
           /\ Report(FirstOf(todo)) \in Groups
           /\ job'.uri = FirstOf(todo)
           /\ job'.expected = documents[FirstOf(todo)]
           /\ \E note \in BOOLEAN :
                 job'.message = Publication(Replaced(FirstOf(todo), Report(FirstOf(todo))), note)
           /\ roots' = [roots EXCEPT ![FirstOf(todo)] = Report(FirstOf(todo))]
<1>1. todo \subseteq Docs /\ todo # {} /\ todo \subseteq OpenDocs
    BY DEF ServerInv, ServerTypes, OpenDocs, BeginPublish
<1>2. FirstOf(todo) \in todo
    BY <1>1, FirstIsMember
<1>3. FirstOf(todo) \in OpenDocs /\ FirstOf(todo) \in Docs /\ Open(FirstOf(todo))
    BY <1>1, <1>2 DEF OpenDocs
<1>4. ComputePublication(FirstOf(todo))
    BY <1>3 DEF BeginPublish
<1>5. Report(FirstOf(todo)) \in Groups
    BY <1>3, ReportTyped DEF ServerInv, ServerTypes
<1> QED
    BY <1>2, <1>3, <1>4, <1>5 DEF ComputePublication, Contribute

(* A message taken from the queue.                                         *)
LEMMA TakenFacts ==
    ASSUME ServerTypes, NEW type, Taken(type)
    PROVE  /\ inbound # <<>> /\ inbound \in Seq(FromClient)
           /\ Head(inbound) \in FromClient /\ Head(inbound).type = type
           /\ inbound' = Tail(inbound) /\ inbound' \in Seq(FromClient)
           /\ todo = {} /\ job = NoJob /\ after = Nothing /\ running
BY DEF ServerTypes, Taken, AtLoop

LEMMA WriteTyped ==
    ASSUME output \in Seq(ToClient), NEW m \in ToClient, Write(m)
    PROVE  output' \in Seq(ToClient)
BY DEF Write

LEMMA MainTypes ==
    ASSUME ServerInv, Main
    PROVE  ServerTypes'
<1> USE DEF ServerInv
<1>1. CASE TakeDue
    BY <1>1 DEF TakeDue, ServerTypes, OpenDocs, Open, clientVars, exitVars
<1>2. CASE BeginPublish
  <2>1. roots' \in [Docs -> Groups] /\ reported' \in BOOLEAN
    BY <1>2, BeginFacts DEF ServerTypes, ComputePublication, OpenDocs
  <2> QED
    BY <1>2, <2>1 DEF BeginPublish, ServerTypes, OpenDocs, Open, clientVars, exitVars
<1>3. CASE FinishPublish
  <2>1. output' \in Seq(ToClient)
    <3>1. output \in Seq(ToClient) /\ job.message \in ToClient
      BY <1>3 DEF FinishPublish, ServerTypes, JobOK
    <3> QED
      BY <1>3, <3>1, WriteTyped DEF FinishPublish
  <2> QED
    BY <1>3, <2>1 DEF FinishPublish, ServerTypes, OpenDocs, Open, clientVars, exitVars
<1>4. CASE DidOpen
  <2> DEFINE m == Head(inbound)
  <2>1. /\ m.uri \in Docs /\ m.state \in States /\ todo = {} /\ inbound' \in Seq(FromClient)
        /\ documents' = [documents EXCEPT ![m.uri] = m.state]
        /\ deadlines' = deadlines \cup OpenDocs \cup {m.uri}
    BY <1>4, TakenFacts, ClientFields DEF DidOpen, replace, affected_document_uris
  <2> HIDE DEF m
  <2>2. documents' \in [Docs -> States \cup {Absent}]
    BY <2>1 DEF ServerTypes
  <2>3. deadlines' \subseteq OpenDocs'
    BY <2>1, LspAssumption DEF ServerTypes, OpenDocs, Open
  <2> QED
    BY <1>4, <2>1, <2>2, <2>3 DEF DidOpen, ServerTypes, clientVars, exitVars
<1>5. CASE DidChange
  <2> DEFINE m == Head(inbound)
  <2>1. /\ m.uri \in Docs /\ m.state \in States /\ todo = {} /\ inbound' \in Seq(FromClient)
        /\ documents' = IF Open(m.uri) /\ ~Outdated(m)
                        THEN [documents EXCEPT ![m.uri] = m.state] ELSE documents
        /\ deadlines' = deadlines \cup (IF Open(m.uri) THEN OpenDocs \cup {m.uri} ELSE {})
        /\ IF Open(m.uri) THEN UNCHANGED output
           ELSE output' = Append(output, Publication([f \in {m.uri} |-> {Saved}], FALSE))
    BY <1>5, TakenFacts, ClientFields DEF DidChange, replace, affected_document_uris, Write
  <2> HIDE DEF m
  <2>2. documents' \in [Docs -> States \cup {Absent}]
    BY <2>1 DEF ServerTypes
  <2>3. deadlines' \subseteq OpenDocs'
    BY <2>1, LspAssumption DEF ServerTypes, OpenDocs, Open
  <2>4. Publication([f \in {m.uri} |-> {Saved}], FALSE) \in ToClient
    <3>1. {m.uri} \in SUBSET Files /\ [f \in {m.uri} |-> {Saved}] \in Lists({m.uri})
      BY <2>1 DEF Files, Lists, Items
    <3> QED
      BY <3>1, PublicationIsMessage
  <2>5. output' \in Seq(ToClient)
    BY <2>1, <2>4, WriteTyped DEF ServerTypes, Write
  <2> QED
    BY <1>5, <2>1, <2>2, <2>3, <2>5 DEF DidChange, ServerTypes, clientVars, exitVars
<1>6. CASE DidClose
  <2> DEFINE u == Head(inbound).uri
             message == Publication(Replaced(u, NoGroups), FALSE)
  <2>1. /\ u \in Docs /\ todo = {} /\ inbound' \in Seq(FromClient)
        /\ documents' = [documents EXCEPT ![u] = Absent]
        /\ deadlines' = deadlines \ {u}
        /\ roots' = [roots EXCEPT ![u] = NoGroups]
        /\ output' = Append(output, message)
    BY <1>6, TakenFacts, ClientFields DEF DidClose, cancel, Contribute, Write
  <2> HIDE DEF u
  <2>2. NoGroups \in Groups
    BY DEF NoGroups, Groups
  <2>3. message \in ToClient
    BY <2>1, <2>2, ReplacedFacts DEF ServerTypes
  <2> HIDE DEF message
  <2>4. documents' \in [Docs -> States \cup {Absent}] /\ roots' \in [Docs -> Groups]
    BY <2>1, <2>2 DEF ServerTypes
  <2>5. deadlines' \subseteq OpenDocs'
    BY <2>1 DEF ServerTypes, OpenDocs, Open
  <2>6. output' \in Seq(ToClient)
    BY <2>1, <2>3 DEF ServerTypes
  <2> QED
    BY <1>6, <2>1, <2>4, <2>5, <2>6 DEF DidClose, ServerTypes, clientVars, exitVars
<1>7. CASE WatchedFiles
  <2>1. inbound' \in Seq(FromClient)
    BY <1>7, TakenFacts DEF WatchedFiles
  <2> QED
    BY <1>7, <2>1 DEF WatchedFiles, replace, ServerTypes, OpenDocs, Open, clientVars, exitVars
<1>8. CASE Request
  <2> DEFINE fails == Open(Head(inbound).uri) /\ documents[Head(inbound).uri].text \in Unresolvable
  <2>1. /\ inbound' \in Seq(FromClient) /\ Head(inbound).id \in 1..MaxMessages
        /\ reported' = (reported \/ fails)
        /\ output' = Append(output, Response(Head(inbound).id, fails /\ ~reported))
    BY <1>8, TakenFacts, ClientFields DEF Request, Write
  <2> HIDE DEF fails
  <2>2. (fails /\ ~reported) \in BOOLEAN /\ reported' \in BOOLEAN
    BY <2>1
  <2>3. Response(Head(inbound).id, fails /\ ~reported) \in ToClient
    BY <2>1, <2>2, ResponseIsMessage
  <2>4. output' \in Seq(ToClient)
    BY <2>1, <2>3 DEF ServerTypes
  <2> QED
    BY <1>8, <2>1, <2>2, <2>4 DEF Request, ServerTypes, OpenDocs, Open, clientVars, exitVars
<1>9. CASE Shutdown \/ EndOfInput
  <2>1. /\ inbound' \in Seq(FromClient) /\ after' = Head(inbound)
        /\ after' \in FromClient /\ after'.type \in {"shutdown", "eof"}
    BY <1>9, TakenFacts DEF Shutdown, EndOfInput, FlushPending
  <2> QED
    BY <1>9, <2>1 DEF Shutdown, EndOfInput, FlushPending, ServerTypes, OpenDocs, Open,
                      clientVars, exitVars
<1>10. CASE AfterFlush
  <2>1. output' \in Seq(ToClient)
    <3>1. CASE after.type = "shutdown"
      <4>1. after.id \in 1..MaxMessages
        BY <1>10, <3>1, ClientFields DEF AfterFlush, ServerTypes
      <4>2. Response(after.id, FALSE) \in ToClient
        BY <4>1, ResponseIsMessage
      <4> QED
        BY <1>10, <3>1, <4>2, WriteTyped DEF AfterFlush, ServerTypes
    <3> QED
      BY <1>10, <3>1 DEF AfterFlush, ServerTypes
  <2> QED
    BY <1>10, <2>1 DEF AfterFlush, ServerTypes, OpenDocs, Open, clientVars
<1>11. CASE Exit
  <2>1. inbound' \in Seq(FromClient)
    BY <1>11, TakenFacts DEF Exit
  <2> QED
    BY <1>11, <2>1 DEF Exit, ServerTypes, OpenDocs, Open, clientVars
<1>12. CASE Malformed
  <2>1. inbound' \in Seq(FromClient)
    BY <1>12, TakenFacts DEF Malformed
  <2>2. output' \in Seq(ToClient)
    <3>1. Response(Absent, FALSE) \in ToClient
      BY ResponseIsMessage
    <3> QED
      BY <1>12, <3>1, WriteTyped DEF Malformed, ServerTypes
  <2> QED
    BY <1>12, <2>1, <2>2 DEF Malformed, ServerTypes, OpenDocs, Open, clientVars
<1> QED
    BY <1>1, <1>2, <1>3, <1>4, <1>5, <1>6, <1>7, <1>8, <1>9, <1>10, <1>11, <1>12 DEF Main

(* The steps of the main loop that leave a document as it is and the roots *)
(* as they are.                                                            *)
LEMMA OtherSteps ==
    ASSUME Main, ~BeginPublish, ~DidOpen, ~DidChange, ~DidClose
    PROVE  UNCHANGED <<documents, roots>> /\ job' = NoJob
BY DEF Main, TakeDue, FinishPublish, WatchedFiles, Request, Shutdown, EndOfInput, FlushPending,
       AfterFlush, Exit, Malformed, Taken, AtLoop

LEMMA MainJob ==
    ASSUME ServerInv, Main
    PROVE  JobOK'
<1>1. CASE BeginPublish
  <2> DEFINE u == FirstOf(todo)
             message == job'.message
  <2>1. PICK note \in BOOLEAN : message = Publication(Replaced(u, Report(u)), note)
    BY <1>1, BeginFacts
  <2>2. /\ u \in OpenDocs /\ u \in Docs /\ Report(u) \in Groups
        /\ roots' = [roots EXCEPT ![u] = Report(u)]
        /\ job'.uri = u /\ job'.expected = documents[u] /\ documents' = documents
    BY <1>1, BeginFacts DEF BeginPublish, OpenDocs
  <2> HIDE DEF u
  <2>3. /\ message \in ToClient /\ Mentions(message, u)
        /\ \A f \in DOMAIN Replaced(u, Report(u)) : \A r \in Docs :
              roots'[r][f] \subseteq Replaced(u, Report(u))[f]
    BY <2>1, <2>2, ReplacedFacts DEF ServerInv, ServerTypes
  <2>4. message.markers = Replaced(u, Report(u))
    BY <2>1 DEF Publication
  <2>5. OpenDocs' = OpenDocs
    BY <2>2 DEF OpenDocs, Open
  <2> QED
    BY <2>2, <2>3, <2>4, <2>5 DEF JobOK
<1>2. CASE DidOpen \/ DidChange \/ DidClose
    BY <1>2 DEF DidOpen, DidChange, DidClose, Taken, AtLoop, JobOK
<1> QED
    BY <1>1, <1>2, OtherSteps DEF JobOK

LEMMA MainClosed ==
    ASSUME ServerInv, Main
    PROVE  ClosedOK'
<1>1. CASE BeginPublish
    BY <1>1, BeginFacts DEF BeginPublish, ServerInv, ServerTypes, ClosedOK, Open, OpenDocs
<1>2. CASE DidOpen
  <2>1. Head(inbound).uri \in Docs /\ Head(inbound).state # Absent
    BY <1>2, TakenFacts, ClientFields, LspAssumption DEF DidOpen, ServerInv
  <2> QED
    BY <1>2, <2>1 DEF DidOpen, ServerInv, ServerTypes, ClosedOK, Open
<1>3. CASE DidChange
  <2>1. Head(inbound).uri \in Docs /\ Head(inbound).state # Absent
    BY <1>3, TakenFacts, ClientFields, LspAssumption DEF DidChange, ServerInv
  <2> QED
    BY <1>3, <2>1 DEF DidChange, ServerInv, ServerTypes, ClosedOK, Open
<1>4. CASE DidClose
  <2>1. Head(inbound).uri \in Docs
    BY <1>4, TakenFacts, ClientFields DEF DidClose, ServerInv
  <2> QED
    BY <1>4, <2>1 DEF DidClose, Contribute, ServerInv, ServerTypes, ClosedOK, Open
<1> QED
    BY <1>1, <1>2, <1>3, <1>4, OtherSteps DEF ServerInv, ClosedOK, Open

LEMMA SameReport ==
    ASSUME UNCHANGED documents
    PROVE  OpenDocs' = OpenDocs /\ \A u : Report(u)' = Report(u)
BY DEF OpenDocs, Open, Report, Errors

(* Every open document is to be checked.                                   *)
LEMMA AllDue ==
    ASSUME OpenDocs' \subseteq deadlines'
    PROVE  CheckedOrDue'
BY DEF CheckedOrDue

LEMMA MainChecked ==
    ASSUME ServerInv, Main
    PROVE  CheckedOrDue'
<1>1. CASE BeginPublish
  <2> DEFINE u == FirstOf(todo)
  <2>1. /\ u \in Docs /\ Report(u) \in Groups
        /\ roots' = [roots EXCEPT ![u] = Report(u)]
        /\ documents' = documents /\ todo' = todo \ {u} /\ deadlines' = deadlines
    BY <1>1, BeginFacts DEF BeginPublish, OpenDocs
  <2>2. OpenDocs' = OpenDocs /\ \A v : Report(v)' = Report(v)
    BY <2>1, SameReport
  <2> HIDE DEF u
  <2> SUFFICES ASSUME NEW v \in OpenDocs, v \notin todo' \cup deadlines', NEW f \in OpenDocs
               PROVE  roots'[v][f] = Report(v)[f]
    BY <2>2, Zenon DEF CheckedOrDue
  <2>3. v \in Docs
    BY DEF OpenDocs
  <2>4. CASE v = u
    BY <2>1, <2>3, <2>4 DEF ServerInv, ServerTypes
  <2>5. CASE v # u
    BY <2>1, <2>3, <2>5 DEF ServerInv, ServerTypes, CheckedOrDue
  <2> QED
    BY <2>4, <2>5
<1>2. CASE DidOpen
  <2>1. Head(inbound).uri \in Docs
    BY <1>2, TakenFacts, ClientFields DEF DidOpen, ServerInv
  <2>2. OpenDocs' \subseteq deadlines'
    BY <1>2, <2>1 DEF DidOpen, replace, affected_document_uris, ServerInv, ServerTypes, OpenDocs, Open
  <2> QED
    BY <2>2, AllDue
<1>3. CASE DidChange
  <2> DEFINE m == Head(inbound)
  <2>1. m.uri \in Docs /\ m.state # Absent
    BY <1>3, TakenFacts, ClientFields, LspAssumption DEF DidChange, ServerInv
  <2>2. CASE Open(m.uri)
    <3>1. OpenDocs' \subseteq deadlines'
      BY <1>3, <2>1, <2>2
         DEF DidChange, replace, affected_document_uris, ServerInv, ServerTypes, OpenDocs, Open
    <3> QED
      BY <3>1, AllDue
  <2>3. CASE ~Open(m.uri)
    <3>1. /\ documents' = documents /\ roots' = roots /\ todo' = todo
          /\ deadlines' = deadlines
      BY <1>3, <2>3 DEF DidChange, replace
    <3>2. OpenDocs' = OpenDocs /\ \A v : Report(v)' = Report(v)
      BY <3>1, SameReport
    <3> QED
      BY <3>1, <3>2 DEF ServerInv, CheckedOrDue
  <2> QED
    BY <2>2, <2>3
<1>4. CASE DidClose
  <2> DEFINE u == Head(inbound).uri
  <2>1. /\ u \in Docs /\ todo' = {} /\ todo = {}
        /\ documents' = [documents EXCEPT ![u] = Absent]
        /\ deadlines' = deadlines \ {u}
        /\ roots' = [roots EXCEPT ![u] = NoGroups]
    BY <1>4, TakenFacts, ClientFields DEF DidClose, cancel, Contribute, ServerInv
  <2> HIDE DEF u
  <2>2. ASSUME NEW v \in OpenDocs' PROVE v \in OpenDocs /\ v # u /\ documents'[v] = documents[v]
    BY <2>1 DEF ServerInv, ServerTypes, OpenDocs, Open
  <2>3. ASSUME NEW v \in OpenDocs', NEW f \in OpenDocs' PROVE Report(v)'[f] = Report(v)[f]
    BY <2>2, <2>3 DEF Report, Errors, OpenDocs, Open, Files
  <2> SUFFICES ASSUME NEW v \in OpenDocs', v \notin todo' \cup deadlines', NEW f \in OpenDocs'
               PROVE  roots'[v][f] = Report(v)'[f]
    BY Zenon DEF CheckedOrDue
  <2>4. roots'[v] = roots[v] /\ v \notin todo \cup deadlines
    BY <2>1, <2>2 DEF ServerInv, ServerTypes
  <2>5. roots[v][f] = Report(v)[f]
    BY <2>2, <2>4 DEF ServerInv, CheckedOrDue
  <2> QED
    BY <2>3, <2>4, <2>5
<1>5. CASE ~BeginPublish /\ ~DidOpen /\ ~DidChange /\ ~DidClose
  <2>1. UNCHANGED <<documents, roots>>
    BY <1>5, OtherSteps
  <2>2. OpenDocs' = OpenDocs /\ \A v : Report(v)' = Report(v)
    BY <2>1, SameReport
  <2>3. todo \cup deadlines \subseteq todo' \cup deadlines'
    BY <1>5 DEF Main, TakeDue, FinishPublish, WatchedFiles, replace, Request, Shutdown,
                EndOfInput, FlushPending, AfterFlush, Exit, Malformed, Taken, AtLoop
  <2> QED
    BY <2>1, <2>2, <2>3 DEF ServerInv, CheckedOrDue
<1> QED
    BY <1>1, <1>2, <1>3, <1>4, <1>5

(* What a step of the main loop does to the queue and to document u.       *)
Handles(u) ==
    \/ UNCHANGED <<inbound, documents>>
    \/ /\ inbound # <<>> /\ inbound' = Tail(inbound)
       /\ About(Head(inbound), u) => Agree(Result(Head(inbound)), documents'[u])
       /\ ~About(Head(inbound), u) => documents'[u] = documents[u]

LEMMA MainHandles ==
    ASSUME ServerInv, Main, NEW u \in Docs
    PROVE  Handles(u) /\ UNCHANGED latest
<1> UNCHANGED latest
    BY DEF Main, TakeDue, BeginPublish, FinishPublish, DidOpen, DidChange, DidClose, WatchedFiles,
           Request, Shutdown, EndOfInput, FlushPending, AfterFlush, Exit, Malformed
<1>1. CASE DidOpen
  <2>1. Head(inbound).uri \in Docs /\ Head(inbound).type = "open" /\ inbound # <<>>
        /\ inbound' = Tail(inbound)
    BY <1>1, TakenFacts, ClientFields DEF DidOpen, ServerInv
  <2> QED
    BY <1>1, <2>1 DEF DidOpen, Handles, About, Agree, Result, ServerInv, ServerTypes
<1>2. CASE DidChange
  <2> DEFINE m == Head(inbound)
  <2>1. /\ m.uri \in Docs /\ m.state # Absent /\ m.type = "change"
        /\ inbound # <<>> /\ inbound \in Seq(FromClient) /\ inbound' = Tail(inbound)
        /\ documents' = IF Open(m.uri) /\ ~Outdated(m)
                        THEN [documents EXCEPT ![m.uri] = m.state] ELSE documents
    BY <1>2, TakenFacts, ClientFields, LspAssumption DEF DidChange, ServerInv
  <2> HIDE DEF m
  <2>2. CASE m.uri = u
    <3>1. About(m, u)
      BY <2>1, <2>2 DEF About
    <3>2. Follows(m, documents[u])
      BY <2>1, <3>1, HeadFollows DEF m, ServerInv, QueueOK
    <3>3. Open(u) /\ (~StaleChanges => ~Outdated(m))
      BY <2>1, <2>2, <3>2 DEF Follows, Open, Outdated
    <3>4. Agree(Result(m), documents'[u])
      BY <2>1, <2>2, <3>3 DEF Agree, Result, Open, ServerInv, ServerTypes
    <3> QED
      BY <2>1, <3>1, <3>4 DEF Handles, m
  <2>3. CASE m.uri # u
    BY <2>1, <2>3 DEF Handles, About, m
  <2> QED
    BY <2>2, <2>3
<1>3. CASE DidClose
  <2>1. Head(inbound).uri \in Docs /\ Head(inbound).type = "close" /\ inbound # <<>>
        /\ inbound' = Tail(inbound)
    BY <1>3, TakenFacts, ClientFields DEF DidClose, ServerInv
  <2> QED
    BY <1>3, <2>1 DEF DidClose, Handles, About, Agree, Result, ServerInv, ServerTypes
<1>4. CASE BeginPublish \/ FinishPublish \/ TakeDue \/ AfterFlush
    BY <1>4 DEF BeginPublish, FinishPublish, TakeDue, AfterFlush, Handles
<1>5. CASE WatchedFiles \/ Request \/ Shutdown \/ EndOfInput \/ Exit \/ Malformed
    BY <1>5 DEF WatchedFiles, Request, Shutdown, EndOfInput, FlushPending, Exit, Malformed,
                Taken, Handles, About
<1> QED
    BY <1>1, <1>2, <1>3, <1>4, <1>5 DEF Main

LEMMA MainQueue ==
    ASSUME ServerInv, Main
    PROVE  QueueOK'
<1> SUFFICES ASSUME NEW u \in Docs PROVE Chain(inbound', documents'[u], latest'[u], u)
    BY DEF QueueOK
<1>1. Handles(u) /\ UNCHANGED latest
    BY MainHandles
<1>2. Chain(inbound, documents[u], latest[u], u) /\ inbound \in Seq(FromClient)
    BY DEF ServerInv, ServerTypes, QueueOK
<1>3. CASE inbound # <<>> /\ inbound' = Tail(inbound)
           /\ (About(Head(inbound), u) => Agree(Result(Head(inbound)), documents'[u]))
           /\ (~About(Head(inbound), u) => documents'[u] = documents[u])
  <2>1. Chain(Tail(inbound), documents'[u], latest[u], u)
    BY <1>2, <1>3, TailIsChain
  <2> QED
    BY <1>1, <1>3, <2>1
<1> QED
    BY <1>1, <1>2, <1>3 DEF Handles

LEMMA MainInv ==
    ASSUME ServerInv, Main
    PROVE  ServerInv'
BY MainTypes, MainJob, MainClosed, MainChecked, MainQueue DEF ServerInv

(* The reader notes a message that may follow what it has seen.            *)
LEMMA ObserveInv ==
    ASSUME ServerInv, NEW m \in FromClient, Observe(m),
           UNCHANGED <<markers, notified, mainVars, output>>,
           \A u \in Docs : About(m, u) => Follows(m, latest[u])
    PROVE  /\ ServerInv'
           /\ \A u \in Docs : latest'[u] = IF About(m, u) THEN Result(m) ELSE latest[u]
<1>1. UNCHANGED <<markers, notified, documents, deadlines, todo, job, after, roots, reported,
                  shutdown_requested, running, output>>
    BY DEF mainVars
<1>2. inbound' = Append(inbound, m) /\ inbound \in Seq(FromClient) /\ inbound' \in Seq(FromClient)
    BY DEF Observe, ServerInv, ServerTypes
<1>3. /\ latest' \in [Docs -> States \cup {Absent}]
      /\ \A u \in Docs : latest'[u] = IF About(m, u) THEN Result(m) ELSE latest[u]
  <2>1. CASE m.type \in {"open", "change"}
    BY <2>1, ClientFields DEF Observe, About, Result, ServerInv, ServerTypes
  <2>2. CASE m.type = "close"
    BY <2>2, ClientFields DEF Observe, About, Result, ServerInv, ServerTypes
  <2>3. CASE m.type \notin {"open", "change", "close"}
    BY <2>3 DEF Observe, About, ServerInv, ServerTypes
  <2> QED
    BY <2>1, <2>2, <2>3
<1>4. ServerTypes'
    BY <1>1, <1>2, <1>3 DEF ServerInv, ServerTypes, OpenDocs, Open
<1>5. JobOK' /\ ClosedOK'
    BY <1>1 DEF ServerInv, JobOK, ClosedOK, OpenDocs, Open
<1>6. CheckedOrDue'
  <2>1. OpenDocs' = OpenDocs /\ \A u : Report(u)' = Report(u)
    BY <1>1, SameReport
  <2> QED
    BY <1>1, <2>1 DEF ServerInv, CheckedOrDue
<1>7. ASSUME NEW u \in Docs PROVE Chain(inbound', documents'[u], latest'[u], u)
  <2>1. Chain(inbound, documents[u], latest[u], u)
    BY DEF ServerInv, QueueOK
  <2>2. About(m, u) => Follows(m, latest[u]) /\ Agree(Result(m), latest'[u])
    BY <1>3 DEF Agree
  <2>3. ~About(m, u) => latest'[u] = latest[u]
    BY <1>3
  <2>4. Chain(Append(inbound, m), documents[u], latest'[u], u)
    BY <1>2, <2>1, <2>2, <2>3, AppendIsChain
  <2> QED
    BY <1>1, <1>2, <2>4
<1> QED
    BY <1>3, <1>4, <1>5, <1>6, <1>7 DEF ServerInv, QueueOK

(* The client receives what was written first.                             *)
LEMMA ShowInv ==
    ASSUME ServerInv, output # <<>>, Show(Head(output)), output' = Tail(output),
           UNCHANGED <<latest, inbound, mainVars>>
    PROVE  ServerInv'
<1>1. UNCHANGED <<latest, inbound, documents, deadlines, todo, job, after, roots, reported,
                  shutdown_requested, running>>
    BY DEF mainVars
<1>2. output \in Seq(ToClient) /\ Head(output) \in ToClient /\ output' \in Seq(ToClient)
    BY DEF ServerInv, ServerTypes
<1>3. markers' \in Groups /\ notified' \in BOOLEAN
    BY <1>2, ServerFields DEF Show, Groups, ServerInv, ServerTypes
<1>4. ServerTypes'
    BY <1>1, <1>2, <1>3 DEF ServerInv, ServerTypes, OpenDocs, Open
<1>5. JobOK' /\ ClosedOK' /\ QueueOK'
    BY <1>1 DEF ServerInv, JobOK, ClosedOK, QueueOK, OpenDocs, Open
<1>6. CheckedOrDue'
  <2>1. OpenDocs' = OpenDocs /\ \A u : Report(u)' = Report(u)
    BY <1>1, SameReport
  <2> QED
    BY <1>1, <2>1 DEF ServerInv, CheckedOrDue
<1> QED
    BY <1>4, <1>5, <1>6 DEF ServerInv

LEMMA InitInv ==
    ASSUME Init
    PROVE  ServerInv
<1>1. ServerTypes
  <2>1. NoGroups \in Groups
    BY DEF NoGroups, Groups
  <2>2. /\ documents \in [Docs -> States \cup {Absent}] /\ latest \in [Docs -> States \cup {Absent}]
        /\ markers \in Groups /\ roots \in [Docs -> Groups]
    BY <2>1 DEF Init
  <2>3. inbound \in Seq(FromClient) /\ output \in Seq(ToClient)
    BY DEF Init
  <2> QED
    BY <2>2, <2>3 DEF Init, ServerTypes
<1>2. JobOK /\ ClosedOK /\ CheckedOrDue
    BY DEF Init, JobOK, ClosedOK, CheckedOrDue, Open, OpenDocs
<1>3. ASSUME NEW u \in Docs PROVE Chain(inbound, documents[u], latest[u], u)
  <2>1. Len(inbound) = 0 /\ documents[u] = Absent /\ latest[u] = Absent
    BY DEF Init
  <2> QED
    BY <2>1 DEF Chain, Agree
<1> QED
    BY <1>1, <1>2, <1>3 DEF ServerInv, QueueOK

-----------------------------------------------------------------------------
(* The client.                                                             *)

ClientTypes ==
    /\ editor \in [Docs -> States \cup {Absent}]
    /\ sent \in 0..MaxMessages
    /\ \A u \in Docs : editor[u] # Absent => editor[u].version \in 1..sent

(* What one message of the client means for document u.                    *)
Says(m, u) ==
    /\ About(m, u) => Follows(m, editor[u]) /\ Agree(Result(m), editor'[u])
    /\ ~About(m, u) => editor'[u] = editor[u]

LEMMA ClientSays ==
    ASSUME ClientTypes, MayStillSend, NEW m \in ClientMessages \cup StaleMessages, EditorAfter(m),
           sent' = IF m.type \in Ended THEN MaxMessages ELSE sent + 1
    PROVE  ClientTypes' /\ m \in FromClient /\ \A u \in Docs : Says(m, u)
<1>1. MaxMessages \in Nat /\ sent \in Nat /\ sent + 1 \in 1..MaxMessages
    BY LspAssumption DEF MayStillSend, ClientTypes
<1>2. sent' \in 0..MaxMessages /\ sent' >= sent
    BY <1>1
<1>3. ASSUME NEW u \in Docs, editor[u] # Absent
      PROVE  editor[u] \in States /\ editor[u].version \in 1..sent
    BY <1>3 DEF ClientTypes
<1>4. CASE \E u \in Docs, t \in Texts :
              /\ editor[u] = Absent
              /\ m = [type |-> "open", uri |-> u, state |-> [version |-> 1, text |-> t]]
  <2>1. PICK u \in Docs, t \in Texts :
              /\ editor[u] = Absent
              /\ m = [type |-> "open", uri |-> u, state |-> [version |-> 1, text |-> t]]
    BY <1>4
  <2> DEFINE s == [version |-> 1, text |-> t]
  <2>2. s \in States /\ s.version = 1 /\ s # Absent
    BY <1>1, LspAssumption DEF States, Versions
  <2>3. m.type = "open" /\ m.uri = u /\ m.state = s /\ m \notin StaleMessages
    <3>1. m.type = "open" /\ m.uri = u /\ m.state = s
      BY <2>1
    <3>2. \A x \in StaleMessages : x.type = "change"
      BY DEF StaleMessages
    <3> QED
      BY <3>1, <3>2
  <2>4. m \in FromClient
    BY <2>1, <2>2 DEF FromClient
  <2> HIDE DEF s
  <2>5. editor' = [editor EXCEPT ![u] = s] /\ sent' = sent + 1
    BY <2>3 DEF EditorAfter, Ended
  <2>6. ClientTypes'
    BY <1>1, <1>2, <2>2, <2>5 DEF ClientTypes
  <2>7. \A v \in Docs : Says(m, v)
    BY <2>2, <2>3, <2>5 DEF Says, About, Follows, Agree, Result, ClientTypes
  <2> QED
    BY <2>4, <2>6, <2>7
<1>5. CASE \E u \in Docs, t \in Texts :
              /\ editor[u] # Absent
              /\ m = [type |-> "change", uri |-> u,
                      state |-> [version |-> editor[u].version + 1, text |-> t]]
  <2>1. PICK u \in Docs, t \in Texts :
              /\ editor[u] # Absent
              /\ m = [type |-> "change", uri |-> u,
                      state |-> [version |-> editor[u].version + 1, text |-> t]]
    BY <1>5
  <2> DEFINE s == [version |-> editor[u].version + 1, text |-> t]
  <2>2. /\ s \in States /\ s # Absent
        /\ s.version = editor[u].version + 1 /\ editor[u].version \in 1..sent
    BY <1>1, <1>3, <2>1, LspAssumption DEF States, Versions
  <2>3. m.type = "change" /\ m.uri = u /\ m.state = s
    BY <2>1
  <2>4. m \in FromClient
    BY <2>1, <2>2 DEF FromClient
  <2>5. m \notin StaleMessages
    <3> SUFFICES ASSUME NEW w, NEW z,
                        m = [type |-> "change", uri |-> w,
                             state |-> [version |-> editor[w].version - 1, text |-> z]]
                 PROVE  FALSE
      BY DEF StaleMessages
    <3>1. w = u /\ m.state.version = editor[u].version - 1
      BY <2>3
    <3>2. editor[u].version + 1 = editor[u].version - 1
      BY <2>2, <2>3, <3>1
    <3> QED
      BY <1>1, <2>2, <3>2
  <2> HIDE DEF s
  <2>6. editor' = [editor EXCEPT ![u] = s] /\ sent' = sent + 1
    BY <2>3, <2>5 DEF EditorAfter, Ended
  <2>7. ClientTypes'
    BY <1>1, <1>2, <2>2, <2>6 DEF ClientTypes
  <2>8. ~(s.version < editor[u].version)
    BY <1>1, <2>2
  <2>9. \A v \in Docs : Says(m, v)
    BY <2>1, <2>2, <2>3, <2>6, <2>8 DEF Says, About, Follows, Agree, Result, ClientTypes
  <2> QED
    BY <2>4, <2>7, <2>9
<1>6. CASE m \in StaleMessages
  <2>1. PICK u \in Docs, t \in Texts :
              /\ StaleChanges /\ editor[u] # Absent
              /\ m = [type |-> "change", uri |-> u,
                      state |-> [version |-> editor[u].version - 1, text |-> t]]
    BY <1>6 DEF StaleMessages
  <2> DEFINE s == [version |-> editor[u].version - 1, text |-> t]
  <2>2. s \in States /\ s # Absent
    BY <1>1, <1>3, <2>1, LspAssumption DEF States, Versions
  <2>3. m.type = "change" /\ m.uri = u /\ m.state = s
    BY <2>1
  <2>4. m \in FromClient
    BY <2>1, <2>2 DEF FromClient
  <2> HIDE DEF s
  <2>5. editor' = editor /\ sent' = sent + 1
    BY <1>6, <2>3 DEF EditorAfter, Ended
  <2>6. ClientTypes'
    BY <1>1, <1>2, <2>5 DEF ClientTypes
  <2>7. \A v \in Docs : Says(m, v)
    BY <2>1, <2>2, <2>3, <2>5 DEF Says, About, Follows, Agree, Result
  <2> QED
    BY <2>4, <2>6, <2>7
<1>7. CASE \E u \in Docs : m = [type |-> "close", uri |-> u]
  <2>1. PICK u \in Docs : m = [type |-> "close", uri |-> u]
    BY <1>7
  <2>2. m.type = "close" /\ m.uri = u /\ m \in FromClient
    BY <2>1 DEF FromClient
  <2>3. editor' = [editor EXCEPT ![u] = Absent] /\ sent' = sent + 1
    BY <2>2 DEF EditorAfter, Ended
  <2>4. ClientTypes'
    BY <1>1, <1>2, <2>3 DEF ClientTypes
  <2>5. \A v \in Docs : Says(m, v)
    BY <2>2, <2>3 DEF Says, About, Follows, Agree, Result, ClientTypes
  <2> QED
    BY <2>2, <2>4, <2>5
<1>8. CASE \/ \E u \in Docs : m = [type |-> "request", uri |-> u, id |-> sent + 1]
           \/ m = [type |-> "shutdown", id |-> sent + 1]
           \/ \E k \in {"watched"} \cup Ended : m = [type |-> k]
  <2>1. m \in FromClient /\ m.type \notin {"open", "change", "close"}
    BY <1>1, <1>8 DEF FromClient, Ended
  <2>2. editor' = editor
    BY <2>1 DEF EditorAfter
  <2>3. ClientTypes'
    BY <1>1, <1>2, <2>2 DEF ClientTypes
  <2>4. \A v \in Docs : Says(m, v)
    BY <2>1, <2>2 DEF Says, About
  <2> QED
    BY <2>1, <2>3, <2>4
<1> QED
    BY <1>4, <1>5, <1>6, <1>7, <1>8 DEF ClientMessages

-----------------------------------------------------------------------------
(* The server on its own.                                                  *)

LspInv ==
    /\ ServerInv /\ ClientTypes
    /\ \A u \in Docs : Agree(latest[u], editor[u])

LEMMA SendInv ==
    ASSUME LspInv, NEW m \in ClientMessages \cup StaleMessages, Send(m)
    PROVE  LspInv'
<1>1. ClientTypes' /\ m \in FromClient /\ \A u \in Docs : Says(m, u)
    BY ClientSays DEF Send, LspInv
<1>2. \A u \in Docs : About(m, u) => Follows(m, latest[u])
    BY <1>1, FollowsAgree DEF Says, LspInv
<1>3. /\ ServerInv'
      /\ \A u \in Docs : latest'[u] = IF About(m, u) THEN Result(m) ELSE latest[u]
    BY <1>1, <1>2, ObserveInv DEF Send, LspInv
<1>4. \A u \in Docs : Agree(latest'[u], editor'[u])
    BY <1>1, <1>3 DEF Says, LspInv
<1> QED
    BY <1>1, <1>3, <1>4 DEF LspInv

LEMMA LspStep ==
    ASSUME LspInv, [Next]_vars
    PROVE  LspInv'
<1>1. CASE Main
  <2>1. UNCHANGED <<editor, sent, latest>>
    BY <1>1 DEF Main, TakeDue, BeginPublish, FinishPublish, DidOpen, DidChange, DidClose,
                WatchedFiles, Request, Shutdown, EndOfInput, FlushPending, AfterFlush, Exit,
                Malformed, clientVars
  <2> QED
    BY <1>1, <2>1, MainInv DEF LspInv, ClientTypes
<1>2. CASE Receive
  <2>1. ServerInv'
    BY <1>2, ShowInv DEF Receive, LspInv
  <2> QED
    BY <1>2, <2>1 DEF Receive, LspInv, ClientTypes
<1>3. CASE UNCHANGED vars
  <2>1. UNCHANGED <<editor, sent, markers, notified, latest, inbound, documents, deadlines, todo,
                    job, after, roots, reported, shutdown_requested, running, output>>
    BY <1>3 DEF vars, clientVars, mainVars
  <2>2. OpenDocs' = OpenDocs /\ \A u : Report(u)' = Report(u)
    BY <2>1, SameReport
  <2>3. ServerTypes' /\ JobOK' /\ CheckedOrDue' /\ ClosedOK' /\ QueueOK'
    BY <2>1, <2>2 DEF LspInv, ServerInv, ServerTypes, JobOK, CheckedOrDue, ClosedOK, QueueOK, Open
  <2> QED
    BY <2>1, <2>3 DEF LspInv, ServerInv, ClientTypes
<1> QED
    BY <1>1, <1>2, <1>3, SendInv DEF Next, Rest

(* The reader and the main loop, however their steps interleave: the queue *)
(* between them carries each document from what the main loop knows to     *)
(* what the reader saw, and every open document is checked or due.         *)
THEOREM LspInvariant == Spec => []LspInv
<1>1. Init => LspInv
  <2> SUFFICES ASSUME Init PROVE LspInv
    OBVIOUS
  <2>1. ClientTypes /\ \A u \in Docs : Agree(latest[u], editor[u])
    BY LspAssumption DEF Init, ClientTypes, Agree
  <2> QED
    BY <2>1, InitInv DEF LspInv
<1>2. LspInv /\ [Next]_vars => LspInv'
    BY LspStep
<1> QED
    BY <1>1, <1>2, PTL DEF Spec

LEMMA TypesFollow ==
    ASSUME ServerInv, ClientTypes
    PROVE  TypeOK
<1>1. job = NoJob \/ job.uri \in Docs
    BY DEF ServerInv, JobOK, OpenDocs
<1>2. after.type \in {"nothing", "shutdown", "eof"}
    BY DEF ServerInv, ServerTypes, Nothing
<1>3. deadlines \subseteq {u \in Docs : documents[u] # Absent} /\ todo \subseteq Docs
    BY DEF ServerInv, ServerTypes, OpenDocs, Open
<1> QED
    BY <1>1, <1>2, <1>3 DEF TypeOK, ServerInv, ServerTypes, ClientTypes

(* The maps of the reader and of the main loop stay well formed, and only  *)
(* an open document has a deadline.                                        *)
THEOREM LspTypeCorrect == Spec => []TypeOK
<1>1. LspInv => TypeOK
    BY TypesFollow DEF LspInv
<1> QED
    BY <1>1, LspInvariant, PTL

LEMMA CurrentFollows ==
    ASSUME ServerInv
    PROVE  ReportsAreCurrent
<1> SUFFICES ASSUME Quiet, running, NEW u \in OpenDocs, NEW f \in OpenDocs
             PROVE  roots[u][f] = Report(u)[f]
    BY DEF ReportsAreCurrent
<1>1. todo = {} /\ deadlines = {}
    BY DEF Quiet, AtLoop
<1> QED
    BY <1>1 DEF ServerInv, CheckedOrDue

(* No edit is left unchecked: when the main loop has handled everything,   *)
(* what it last concluded about the open documents is what a check of the  *)
(* present buffers would say.                                              *)
THEOREM ReportsAreCurrentHolds == Spec => []ReportsAreCurrent
<1>1. LspInv => ReportsAreCurrent
    BY CurrentFollows DEF LspInv
<1> QED
    BY <1>1, LspInvariant, PTL

(* At rest the main loop and the client agree on the documents.            *)
LEMMA AgreeAtRest ==
    ASSUME LspInv, inbound = <<>>, NEW u \in Docs
    PROVE  Agree(documents[u], editor[u])
<1>1. Silent(inbound, u, 1, Len(inbound))
    BY DEF Silent
<1>2. Agree(documents[u], latest[u])
    BY <1>1 DEF LspInv, ServerInv, QueueOK, Chain
<1> QED
    BY <1>2 DEF LspInv, Agree

(* A document that the client has closed contributes no marker, even if    *)
(* the client repeats outdated changes.                                    *)
THEOREM ClosedContributeNothingHolds == Spec => []ClosedContributeNothing
<1>1. ASSUME LspInv, Quiet, running, NEW u \in Docs, editor[u] = Absent PROVE roots[u] = NoGroups
  <2>1. Agree(documents[u], editor[u])
    BY <1>1, AgreeAtRest DEF Quiet
  <2> QED
    BY <1>1, <2>1 DEF Agree, LspInv, ServerInv, ClosedOK, Open
<1>2. LspInv => ClosedContributeNothing
    BY <1>1 DEF ClosedContributeNothing
<1> QED
    BY <1>2, LspInvariant, PTL

-----------------------------------------------------------------------------
(* Every error is shown.                                                   *)

Settled(u) ==
    /\ documents[u].text \in Bad \ Unresolvable
    /\ u \notin todo \cup deadlines /\ job.uri # u
    /\ Silent(inbound, u, 1, Len(inbound))

(* A document that was checked and has not changed since: its error is     *)
(* shown, or will be by what is on its way to the client.                  *)
ErrorsShown ==
    \A u \in OpenDocs : Settled(u) => Displayed(output, markers[u], u, documents[u].text)

(* The error of a checked document is among what its root reports.         *)
LEMMA ErrorReported ==
    ASSUME ServerInv, NEW u \in OpenDocs, documents[u].text \in Bad \ Unresolvable,
           u \notin todo \cup deadlines
    PROVE  documents[u].text \in roots[u][u]
<1>1. roots[u][u] = Report(u)[u]
    BY DEF ServerInv, CheckedOrDue
<1>2. Report(u)[u] = {documents[u].text} \cap Bad
    BY DEF Report, Errors, OpenDocs, Files
<1> QED
    BY <1>1, <1>2

LEMMA SilentTail ==
    ASSUME NEW q \in Seq(FromClient), q # <<>>, NEW u, ~About(Head(q), u),
           Silent(Tail(q), u, 1, Len(Tail(q)))
    PROVE  Silent(q, u, 1, Len(q))
<1> SUFFICES ASSUME NEW k \in 1..Len(q) PROVE ~About(q[k], u)
    BY DEF Silent
<1>1. CASE k = 1
    BY <1>1
<1>2. CASE k # 1
  <2>1. k - 1 \in 1..Len(Tail(q)) /\ Tail(q)[k - 1] = q[k]
    BY <1>2
  <2> QED
    BY <2>1 DEF Silent
<1> QED
    BY <1>1, <1>2

(* The steps of the main loop, by what they do for an open document that   *)
(* is settled after them.                                                  *)
LEMMA SettledBefore ==
    ASSUME ServerInv, Main, ~FinishPublish, NEW u \in OpenDocs', Settled(u)'
    PROVE  u \in OpenDocs /\ Settled(u) /\ documents'[u] = documents[u]
<1>1. u \in Docs /\ Open(u)'
    BY DEF OpenDocs
<1>2. Absent \notin Docs /\ job.uri \in Docs \cup {Absent} /\ NoJob.uri = Absent
    BY LspAssumption DEF NoJob, ServerInv, JobOK, OpenDocs
<1>3. ASSUME NEW type, Taken(type), ~About(Head(inbound), u)
      PROVE  Silent(inbound, u, 1, Len(inbound)) /\ job.uri # u /\ todo = {}
  <2>1. /\ inbound \in Seq(FromClient) /\ inbound # <<>> /\ inbound' = Tail(inbound)
        /\ job = NoJob /\ todo = {}
    BY <1>3, TakenFacts DEF ServerInv
  <2>2. Silent(Tail(inbound), u, 1, Len(Tail(inbound)))
    BY <2>1 DEF Settled
  <2> QED
    BY <1>1, <1>2, <1>3, <2>1, <2>2, SilentTail
<1>4. CASE BeginPublish
    BY <1>1, <1>2, <1>4, BeginFacts DEF BeginPublish, OpenDocs, Open, Settled
<1>5. CASE TakeDue \/ AfterFlush
    BY <1>1, <1>2, <1>5 DEF TakeDue, AfterFlush, AtLoop, OpenDocs, Open, Settled
<1>6. CASE DidOpen
  <2>1. Head(inbound).uri \in Docs
    BY <1>6, TakenFacts, ClientFields DEF DidOpen, ServerInv
  <2>2. u \in deadlines'
    BY <1>1, <1>6, <2>1 DEF DidOpen, replace, affected_document_uris, ServerInv, ServerTypes,
                            OpenDocs, Open
  <2> QED
    BY <2>2 DEF Settled
<1>7. CASE DidChange
  <2> DEFINE m == Head(inbound)
  <2>1. CASE Open(m.uri)
    <3>1. u \in deadlines'
      BY <1>1, <1>7, <2>1 DEF DidChange, replace, affected_document_uris, ServerInv, ServerTypes,
                              OpenDocs, Open
    <3> QED
      BY <3>1 DEF Settled
  <2>2. CASE ~Open(m.uri)
    <3>1. UNCHANGED <<documents, deadlines, todo>> /\ Taken("change")
      BY <1>7, <2>2 DEF DidChange, replace
    <3>2. ~About(Head(inbound), u) /\ Open(u)
      BY <1>1, <2>2, <3>1 DEF About, Open
    <3>3. Silent(inbound, u, 1, Len(inbound)) /\ job.uri # u
      BY <1>3, <3>1, <3>2
    <3> QED
      BY <1>1, <3>1, <3>2, <3>3 DEF Settled, OpenDocs
  <2> QED
    BY <2>1, <2>2
<1>8. CASE DidClose
  <2> DEFINE c == Head(inbound).uri
  <2>1. /\ c \in Docs /\ documents' = [documents EXCEPT ![c] = Absent]
        /\ deadlines' = deadlines \ {c} /\ todo' = todo /\ Taken("close")
    BY <1>8, TakenFacts, ClientFields DEF DidClose, cancel, ServerInv
  <2>2. u # c /\ documents'[u] = documents[u]
    BY <1>1, <2>1 DEF Open, ServerInv, ServerTypes
  <2>3. ~About(Head(inbound), u)
    BY <2>2 DEF About
  <2>4. Silent(inbound, u, 1, Len(inbound)) /\ job.uri # u /\ todo = {}
    BY <1>3, <2>1, <2>3
  <2> QED
    BY <1>1, <2>1, <2>2, <2>4 DEF Settled, OpenDocs, Open
<1>9. CASE WatchedFiles
    BY <1>1, <1>9 DEF WatchedFiles, replace, OpenDocs, Open, Settled
<1>10. CASE Request \/ Shutdown \/ EndOfInput \/ Exit \/ Malformed
  <2>1. \E type \in {"request", "shutdown", "eof", "exit", "malformed"} :
            Taken(type) /\ Head(inbound).type = type
    BY <1>10 DEF Request, Shutdown, EndOfInput, Exit, Malformed, Taken
  <2>2. ~About(Head(inbound), u)
    BY <2>1 DEF About
  <2>3. Silent(inbound, u, 1, Len(inbound)) /\ job.uri # u /\ todo = {}
    BY <1>3, <2>1, <2>2
  <2>4. UNCHANGED documents /\ deadlines \subseteq deadlines' \cup todo'
    BY <1>10 DEF Request, Shutdown, EndOfInput, FlushPending, Exit, Malformed
  <2> QED
    BY <1>1, <2>3, <2>4 DEF Settled, OpenDocs, Open
<1> QED
    BY <1>4, <1>5, <1>6, <1>7, <1>8, <1>9, <1>10 DEF Main

(* What a step writes has the error of a settled document, if it mentions  *)
(* the document.                                                           *)
LEMMA MainWrites ==
    ASSUME ServerInv, Main, ~FinishPublish, NEW u \in OpenDocs, u \in OpenDocs', Settled(u)
    PROVE  \/ UNCHANGED output
           \/ \E m \in ToClient : /\ Write(m)
                                  /\ Mentions(m, u) => documents[u].text \in m.markers[u]
<1>1. u \in Docs /\ Open(u) /\ Open(u)'
    BY DEF OpenDocs
<1>2. CASE DidChange
  <2> DEFINE w == Head(inbound).uri
             m == Publication([f \in {w} |-> {Saved}], FALSE)
  <2>1. CASE Open(w)
    BY <1>2, <2>1 DEF DidChange
  <2>2. CASE ~Open(w)
    <3>1. Write(m) /\ w # u /\ w \in Docs
      BY <1>1, <1>2, <2>2, TakenFacts, ClientFields DEF DidChange, ServerInv
    <3>2. {w} \in SUBSET Files /\ [f \in {w} |-> {Saved}] \in Lists({w})
      BY <3>1 DEF Files, Lists, Items
    <3>3. m \in ToClient
      BY <3>2, PublicationIsMessage
    <3>4. ~Mentions(m, u)
      BY <3>1 DEF Publication, Mentions
    <3> QED
      BY <3>1, <3>3, <3>4
  <2> QED
    BY <2>1, <2>2
<1>3. CASE DidClose
  <2> DEFINE c == Head(inbound).uri
             m == Publication(Replaced(c, NoGroups), FALSE)
  <2>1. Write(m) /\ c \in Docs /\ c # u /\ NoGroups \in Groups
    BY <1>1, <1>3, TakenFacts, ClientFields
       DEF DidClose, ServerInv, ServerTypes, Open, NoGroups, Groups
  <2> HIDE DEF c
  <2>2. /\ m \in ToClient
        /\ \A f \in DOMAIN Replaced(c, NoGroups) : \A r \in Docs :
              [roots EXCEPT ![c] = NoGroups][r][f] \subseteq Replaced(c, NoGroups)[f]
    BY <2>1, ReplacedFacts DEF ServerInv, ServerTypes
  <2>3. m.markers = Replaced(c, NoGroups)
    BY DEF Publication
  <2>4. [roots EXCEPT ![c] = NoGroups][u] = roots[u]
    BY <1>1, <2>1 DEF ServerInv, ServerTypes
  <2>5. documents[u].text \in roots[u][u]
    BY ErrorReported DEF Settled
  <2>6. Mentions(m, u) => documents[u].text \in m.markers[u]
    BY <1>1, <2>2, <2>3, <2>4, <2>5 DEF Mentions
  <2> QED
    BY <2>1, <2>2, <2>6
<1>4. CASE Request \/ AfterFlush \/ Malformed
  <2>1. UNCHANGED output \/ \E id, note : Write(Response(id, note))
    BY <1>4 DEF Request, AfterFlush, Malformed
  <2>2. ASSUME NEW id, NEW note, Write(Response(id, note)), output' \in Seq(ToClient)
        PROVE  Response(id, note) \in ToClient
    <3>1. output' = Append(output, Response(id, note)) /\ output \in Seq(ToClient)
      BY <2>2 DEF Write, ServerInv, ServerTypes
    <3>2. Len(output') = Len(output) + 1 /\ output'[Len(output) + 1] = Response(id, note)
      BY <3>1
    <3> QED
      BY <2>2, <3>1, <3>2
  <2>3. ASSUME NEW id, NEW note PROVE ~Mentions(Response(id, note), u)
    BY DEF Response, Mentions
  <2>4. output' \in Seq(ToClient)
    BY MainTypes DEF ServerTypes
  <2> QED
    BY <2>1, <2>2, <2>3, <2>4
<1> QED
    BY <1>2, <1>3, <1>4
       DEF Main, TakeDue, BeginPublish, DidOpen, WatchedFiles, Shutdown, EndOfInput,
           FlushPending, Exit

LEMMA MainShown ==
    ASSUME ~StaleChanges, ServerInv, ErrorsShown, Main
    PROVE  ErrorsShown'
<1>1. UNCHANGED <<markers, latest>> /\ output \in Seq(ToClient)
    BY DEF Main, TakeDue, BeginPublish, FinishPublish, DidOpen, DidChange, DidClose,
           WatchedFiles, Request, Shutdown, EndOfInput, FlushPending, AfterFlush, Exit,
           Malformed, clientVars, ServerInv, ServerTypes
<1> SUFFICES ASSUME NEW u \in OpenDocs', Settled(u)'
             PROVE  Displayed(output', markers[u], u, documents'[u].text)
    BY <1>1 DEF ErrorsShown
<1>2. CASE ~FinishPublish
  <2>1. u \in OpenDocs /\ Settled(u) /\ documents'[u] = documents[u]
    BY <1>2, SettledBefore
  <2>2. Displayed(output, markers[u], u, documents[u].text)
    BY <2>1 DEF ErrorsShown
  <2>3. CASE UNCHANGED output
    BY <2>1, <2>2, <2>3
  <2>4. CASE ~UNCHANGED output
    <3>1. PICK m \in ToClient : Write(m) /\ (Mentions(m, u) => documents[u].text \in m.markers[u])
      BY <1>2, <2>1, <2>4, MainWrites
    <3>2. Displayed(Append(output, m), markers[u], u, documents[u].text)
      BY <1>1, <2>2, <3>1, AppendDisplays
    <3> QED
      BY <2>1, <3>1, <3>2 DEF Write
  <2> QED
    BY <2>3, <2>4
<1>3. CASE FinishPublish
  <2>1. /\ UNCHANGED <<inbound, documents, deadlines, todo>> /\ job # NoJob
        /\ IF IsCurrent(job.uri, job.expected) THEN Write(job.message) ELSE UNCHANGED output
    BY <1>3 DEF FinishPublish
  <2>2. /\ u \in OpenDocs /\ u \in Docs /\ u \notin todo \cup deadlines
        /\ documents[u].text \in Bad \ Unresolvable
        /\ Silent(inbound, u, 1, Len(inbound))
    BY <2>1 DEF OpenDocs, Open, Settled
  <2>3. documents[u].text \in roots[u][u]
    BY <2>2, ErrorReported
  <2>4. /\ job.message \in ToClient /\ Mentions(job.message, job.uri)
        /\ job.expected = documents[job.uri]
        /\ Mentions(job.message, u) => documents[u].text \in job.message.markers[u]
    BY <2>1, <2>2, <2>3 DEF ServerInv, JobOK, Mentions
  <2>5. job.uri # u => Displayed(output, markers[u], u, documents[u].text)
    BY <2>2 DEF ErrorsShown, Settled
  <2>6. job.uri = u => IsCurrent(job.uri, job.expected)
    <3>1. Agree(documents[u], latest[u])
      BY <2>2 DEF ServerInv, QueueOK, Chain
    <3> QED
      BY <2>4, <3>1 DEF IsCurrent, Agree
  <2>7. CASE IsCurrent(job.uri, job.expected)
    <3>1. Displayed(Append(output, job.message), markers[u], u, documents[u].text)
      BY <1>1, <2>4, <2>5, AppendDisplays
    <3> QED
      BY <2>1, <2>7, <3>1 DEF Write
  <2>8. CASE ~IsCurrent(job.uri, job.expected)
    BY <2>1, <2>5, <2>6, <2>8
  <2> QED
    BY <2>7, <2>8
<1> QED
    BY <1>2, <1>3

LEMMA ShowShown ==
    ASSUME ServerInv, ErrorsShown, output # <<>>, Show(Head(output)), output' = Tail(output),
           UNCHANGED <<latest, inbound, mainVars>>
    PROVE  ErrorsShown'
<1>1. UNCHANGED <<inbound, documents, deadlines, todo, job>> /\ output \in Seq(ToClient)
    BY DEF mainVars, ServerInv, ServerTypes
<1> SUFFICES ASSUME NEW u \in OpenDocs', Settled(u)'
             PROVE  Displayed(Tail(output), markers'[u], u, documents[u].text)
    BY <1>1 DEF ErrorsShown
<1>2. u \in OpenDocs /\ u \in Files /\ Settled(u)
    BY <1>1 DEF OpenDocs, Open, Settled, Files
<1>3. Displayed(output, markers[u], u, documents[u].text)
    BY <1>2 DEF ErrorsShown
<1>4. markers'[u] = IF Mentions(Head(output), u) THEN Head(output).markers[u] ELSE markers[u]
    BY <1>2 DEF Show, Mentions
<1> QED
    BY <1>1, <1>3, <1>4, TailDisplays

LEMMA ObserveShown ==
    ASSUME ServerInv, ErrorsShown, NEW m \in FromClient, Observe(m),
           UNCHANGED <<markers, notified, mainVars, output>>
    PROVE  ErrorsShown'
<1>1. UNCHANGED <<documents, deadlines, todo, job, markers, output>>
    BY DEF mainVars
<1>2. inbound' = Append(inbound, m) /\ inbound \in Seq(FromClient)
    BY DEF Observe, ServerInv, ServerTypes
<1> SUFFICES ASSUME NEW u \in OpenDocs', Settled(u)'
             PROVE  Displayed(output, markers[u], u, documents[u].text)
    BY <1>1 DEF ErrorsShown
<1>3. Silent(inbound, u, 1, Len(inbound))
  <2>1. Silent(inbound', u, 1, Len(inbound'))
    BY DEF Settled
  <2>2. Len(inbound') = Len(inbound) + 1 /\ \A k \in 1..Len(inbound) : inbound'[k] = inbound[k]
    BY <1>2
  <2> QED
    BY <1>2, <2>1, <2>2 DEF Silent
<1> QED
    BY <1>1, <1>3 DEF ErrorsShown, Settled, OpenDocs, Open

(* When everything has been handled, the client shows the error in every   *)
(* document that has one: no race of edits, checks and deadlines loses the *)
(* diagnostics of the last edit, for a client that never repeats an        *)
(* outdated change.                                                        *)
THEOREM EveryErrorShownHolds ==
    ASSUME ~StaleChanges
    PROVE  Spec => []EveryErrorShown
<1>1. Init => ErrorsShown
    BY DEF Init, ErrorsShown, OpenDocs, Open
<1>2. LspInv /\ ErrorsShown /\ [Next]_vars => ErrorsShown'
  <2> SUFFICES ASSUME LspInv, ErrorsShown, [Next]_vars PROVE ErrorsShown'
    OBVIOUS
  <2>1. CASE Main
    BY <2>1, MainShown DEF LspInv
  <2>2. CASE Receive
    BY <2>2, ShowShown DEF Receive, LspInv
  <2>3. ASSUME NEW m \in ClientMessages \cup StaleMessages, Send(m) PROVE ErrorsShown'
    <3>1. m \in FromClient
      BY <2>3, ClientSays DEF Send, LspInv
    <3> QED
      BY <2>3, <3>1, ObserveShown DEF Send, LspInv
  <2>4. CASE UNCHANGED vars
    BY <2>4 DEF vars, clientVars, mainVars, ErrorsShown, Settled, OpenDocs, Open
  <2> QED
    BY <2>1, <2>2, <2>3, <2>4 DEF Next, Rest
<1>3. ASSUME LspInv, ErrorsShown, Quiet, running, NEW u \in Docs, editor[u] # Absent,
             editor[u].text \in Bad \ Unresolvable
      PROVE  editor[u].text \in markers[u]
  <2>1. /\ inbound = <<>> /\ output = <<>> /\ todo = {} /\ deadlines = {} /\ job.uri = Absent
    BY <1>3 DEF Quiet, AtLoop, NoJob
  <2>2. documents[u] = editor[u]
    BY <1>3, <2>1, AgreeAtRest DEF Agree
  <2>3. u \in OpenDocs /\ Settled(u)
    BY <1>3, <2>1, <2>2, LspAssumption DEF OpenDocs, Open, Settled, Silent
  <2>4. Displayed(output, markers[u], u, documents[u].text)
    BY <1>3, <2>3 DEF ErrorsShown
  <2> QED
    BY <2>1, <2>2, <2>4 DEF Displayed, Unmentioned
<1>4. LspInv /\ ErrorsShown => EveryErrorShown
    BY <1>3 DEF EveryErrorShown
<1> QED
    BY <1>1, <1>2, <1>4, LspInvariant, PTL DEF Spec

-----------------------------------------------------------------------------
(* What the server owes.                                                   *)

Some(q, S) == \E i \in 1..Len(q) : q[i] \in S

LEMMA SomeAppend ==
    ASSUME NEW M, NEW q \in Seq(M), NEW m \in M, NEW S
    PROVE  Some(Append(q, m), S) <=> Some(q, S) \/ m \in S
<1> DEFINE p == Append(q, m)
           n == Len(q)
<1>1. n \in Nat /\ Len(p) = n + 1 /\ p[n + 1] = m /\ \A k \in 1..n : p[k] = q[k]
    OBVIOUS
<1> HIDE DEF p
<1>2. Some(p, S) <=> Some(q, S) \/ m \in S
    BY <1>1 DEF Some
<1> QED
    BY <1>2 DEF p

LEMMA SomeTail ==
    ASSUME NEW M, NEW q \in Seq(M), q # <<>>, NEW S
    PROVE  Some(q, S) <=> Head(q) \in S \/ Some(Tail(q), S)
<1> DEFINE p == Tail(q)
           n == Len(q) - 1
<1>1. /\ n \in Nat /\ Len(p) = n /\ Len(q) = n + 1 /\ Head(q) = q[1]
      /\ \A k \in 1..n : p[k] = q[k + 1]
    OBVIOUS
<1> HIDE DEF p, n
<1>2. ASSUME Some(q, S) PROVE q[1] \in S \/ Some(p, S)
  <2>1. PICK i \in 1..(n + 1) : q[i] \in S
    BY <1>1, <1>2 DEF Some
  <2>2. CASE i # 1
    <3>1. i - 1 \in 1..n /\ p[i - 1] = q[i]
      BY <1>1, <2>2
    <3> QED
      BY <1>1, <2>1, <3>1 DEF Some
  <2> QED
    BY <2>1, <2>2
<1>3. ASSUME Some(p, S) PROVE Some(q, S)
  <2>1. PICK i \in 1..n : p[i] \in S
    BY <1>1, <1>3 DEF Some
  <2>2. i + 1 \in 1..(n + 1) /\ q[i + 1] = p[i]
    BY <1>1
  <2> QED
    BY <1>1, <2>1, <2>2 DEF Some
<1>4. q[1] \in S => Some(q, S)
    BY <1>1 DEF Some
<1> QED
    BY <1>1, <1>2, <1>3, <1>4 DEF p

Concerning(u) == {m \in FromClient : About(m, u)}
Mentioning(u) == {m \in ToClient : Mentions(m, u)}
Asks(m, id) == m.type \in {"request", "shutdown"} /\ m.id = id
Asking(id) == {m \in FromClient : Asks(m, id)}
Replying(id) == {m \in ToClient : m.type = "response" /\ m.id = id}

LEMMA SilentIsNone ==
    ASSUME NEW q \in Seq(FromClient), NEW u
    PROVE  Silent(q, u, 1, Len(q)) <=> ~Some(q, Concerning(u))
BY DEF Silent, Some, Concerning

(* The server is on the way to publish something about u.                  *)
WillPublish(u) ==
    \/ Some(inbound, Concerning(u))
    \/ u \in todo \cup deadlines \/ job.uri = u
    \/ Some(output, Mentioning(u))

(* The server is on the way to answer request id.                          *)
WillReply(id) ==
    \/ Some(inbound, Asking(id)) \/ Asks(after, id)
    \/ Some(output, Replying(id))

(* What was written stays until it is received.                            *)
LEMMA WriteKeeps ==
    ASSUME ServerInv, NEW m, Write(m), output' \in Seq(ToClient)
    PROVE  m \in ToClient /\ \A S : Some(output', S) <=> Some(output, S) \/ m \in S
<1>1. output \in Seq(ToClient) /\ output' = Append(output, m)
    BY DEF Write, ServerInv, ServerTypes
<1>2. Len(output') = Len(output) + 1 /\ output'[Len(output) + 1] = m
    BY <1>1
<1>3. m \in ToClient
    BY <1>1, <1>2
<1> QED
    BY <1>1, <1>3, SomeAppend

LEMMA OutputKept ==
    ASSUME ServerInv, Main, NEW S, Some(output, S)
    PROVE  Some(output', S)
<1>1. output' \in Seq(ToClient)
    BY MainTypes DEF ServerTypes
<1>2. UNCHANGED output \/ \E m : Write(m)
    BY DEF Main, TakeDue, BeginPublish, FinishPublish, DidOpen, DidChange, DidClose, WatchedFiles,
           Request, Shutdown, EndOfInput, FlushPending, AfterFlush, Exit, Malformed
<1> QED
    BY <1>1, <1>2, WriteKeeps

LEMMA MainWillPublish ==
    ASSUME ~StaleChanges, ServerInv, Main, NEW u \in Docs, WillPublish(u)
    PROVE  WillPublish(u)'
<1>1. output' \in Seq(ToClient) /\ inbound \in Seq(FromClient)
    BY MainTypes DEF ServerInv, ServerTypes
<1>2. CASE Some(output, Mentioning(u))
    BY <1>2, OutputKept DEF WillPublish
<1>3. ASSUME NEW m, Write(m), Mentions(m, u) PROVE WillPublish(u)'
    BY <1>1, <1>3, WriteKeeps DEF Mentioning, WillPublish
<1>4. ASSUME NEW type, Taken(type), ~About(Head(inbound), u)
      PROVE  Some(inbound, Concerning(u)) => Some(inbound', Concerning(u))
    BY <1>1, <1>4, SomeTail, TakenFacts DEF Concerning, ServerInv
<1>5. NoJob.uri # u
    BY LspAssumption DEF NoJob
<1>6. CASE TakeDue
    BY <1>2, <1>5, <1>6 DEF TakeDue, AtLoop, WillPublish
<1>7. CASE BeginPublish
    BY <1>2, <1>5, <1>7, BeginFacts DEF BeginPublish, WillPublish
<1>8. CASE FinishPublish
  <2>1. CASE job.uri # u
    BY <1>2, <1>8, <2>1 DEF FinishPublish, WillPublish
  <2>2. CASE job.uri = u /\ IsCurrent(job.uri, job.expected)
    BY <1>3, <1>8, <2>2 DEF FinishPublish, ServerInv, JobOK
  <2>3. CASE job.uri = u /\ ~IsCurrent(job.uri, job.expected)
    <3>1. job.expected = documents[u]
      BY <1>8, <2>3 DEF FinishPublish, ServerInv, JobOK
    <3>2. ~Agree(documents[u], latest[u])
      BY <2>3, <3>1 DEF IsCurrent, Agree
    <3>3. ~Silent(inbound, u, 1, Len(inbound))
      BY <3>2 DEF ServerInv, QueueOK, Chain
    <3>4. Some(inbound, Concerning(u))
      BY <1>1, <3>3, SilentIsNone
    <3> QED
      BY <1>8, <3>4 DEF FinishPublish, WillPublish
  <2> QED
    BY <2>1, <2>2, <2>3
<1>9. CASE DidOpen
  <2>1. Taken("open") /\ deadlines \cup {Head(inbound).uri} \subseteq deadlines'
        /\ UNCHANGED <<todo, job>>
    BY <1>9 DEF DidOpen, replace, affected_document_uris
  <2>2. CASE About(Head(inbound), u)
    BY <2>1, <2>2 DEF About, WillPublish
  <2>3. CASE ~About(Head(inbound), u)
    BY <1>2, <1>4, <2>1, <2>3 DEF WillPublish
  <2> QED
    BY <2>2, <2>3
<1>10. CASE DidChange
  <2> DEFINE w == Head(inbound).uri
  <2>1. /\ Taken("change") /\ deadlines \subseteq deadlines' /\ UNCHANGED <<todo, job>>
        /\ Open(w) => w \in deadlines'
        /\ ~Open(w) => Write(Publication([f \in {w} |-> {Saved}], FALSE))
    BY <1>10 DEF DidChange, replace, affected_document_uris
  <2>2. CASE About(Head(inbound), u) /\ Open(w)
    BY <2>1, <2>2 DEF About, WillPublish
  <2>3. CASE About(Head(inbound), u) /\ ~Open(w)
    <3>1. Mentions(Publication([f \in {w} |-> {Saved}], FALSE), u)
      BY <2>3 DEF Mentions, Publication, About
    <3> QED
      BY <1>3, <2>1, <2>3, <3>1
  <2>4. CASE ~About(Head(inbound), u)
    BY <1>2, <1>4, <2>1, <2>4 DEF WillPublish
  <2> QED
    BY <2>2, <2>3, <2>4
<1>11. CASE DidClose
  <2> DEFINE c == Head(inbound).uri
  <2>1. /\ Taken("close") /\ deadlines' = deadlines \ {c} /\ UNCHANGED <<todo, job>>
        /\ Write(Publication(Replaced(c, NoGroups), FALSE)) /\ Head(inbound).type = "close"
    BY <1>11 DEF DidClose, cancel, Taken
  <2>2. CASE c = u
    <3>1. NoGroups \in Groups
      BY DEF NoGroups, Groups
    <3>2. Mentions(Publication(Replaced(u, NoGroups), FALSE), u)
      BY <3>1, ReplacedFacts DEF ServerInv, ServerTypes
    <3> QED
      BY <1>3, <2>1, <2>2, <3>2
  <2>3. CASE c # u
    BY <1>2, <1>4, <2>1, <2>3 DEF WillPublish, About
  <2> QED
    BY <2>2, <2>3
<1>12. CASE WatchedFiles \/ Request \/ Shutdown \/ EndOfInput \/ Exit \/ Malformed
  <2>1. \E type \in {"watched", "request", "shutdown", "eof", "exit", "malformed"} :
            Taken(type) /\ Head(inbound).type = type
    BY <1>12 DEF WatchedFiles, Request, Shutdown, EndOfInput, Exit, Malformed, Taken
  <2>2. ~About(Head(inbound), u)
    BY <2>1 DEF About
  <2>3. todo \cup deadlines \subseteq todo' \cup deadlines' /\ UNCHANGED job
    BY <1>12 DEF WatchedFiles, replace, Request, Shutdown, EndOfInput, FlushPending, Exit,
                 Malformed, Taken, AtLoop
  <2> QED
    BY <1>2, <1>4, <2>1, <2>2, <2>3 DEF WillPublish
<1>13. CASE AfterFlush
    BY <1>2, <1>13 DEF AfterFlush, WillPublish
<1> QED
    BY <1>6, <1>7, <1>8, <1>9, <1>10, <1>11, <1>12, <1>13 DEF Main

LEMMA MainWillReply ==
    ASSUME ServerInv, Main, NEW id, WillReply(id)
    PROVE  WillReply(id)'
<1>1. output' \in Seq(ToClient) /\ inbound \in Seq(FromClient)
    BY MainTypes DEF ServerInv, ServerTypes
<1>2. CASE Some(output, Replying(id))
    BY <1>2, OutputKept DEF WillReply
<1>3. ASSUME NEW note, Write(Response(id, note)) PROVE WillReply(id)'
  <2>1. Response(id, note) \in ToClient
    BY <1>1, <1>3, WriteKeeps
  <2>2. Response(id, note) \in Replying(id)
    BY <2>1 DEF Replying, Response
  <2> QED
    BY <1>1, <1>3, <2>2, WriteKeeps DEF WillReply
<1>4. CASE AfterFlush
  <2>1. CASE Asks(after, id)
    BY <1>3, <1>4, <2>1 DEF AfterFlush, Asks, ServerInv, ServerTypes
  <2>2. CASE ~Asks(after, id)
    BY <1>2, <1>4, <2>2 DEF AfterFlush, WillReply
  <2> QED
    BY <2>1, <2>2
<1>5. CASE TakeDue \/ BeginPublish \/ FinishPublish
    BY <1>2, <1>5 DEF TakeDue, BeginPublish, FinishPublish, WillReply
<1>6. CASE \E type : Taken(type)
  <2>1. /\ inbound # <<>> /\ inbound' = Tail(inbound) /\ after = Nothing
        /\ Head(inbound) \in FromClient
    BY <1>6, TakenFacts DEF ServerInv
  <2>2. Some(inbound, Asking(id)) => Asks(Head(inbound), id) \/ Some(inbound', Asking(id))
    BY <1>1, <2>1, SomeTail DEF Asking
  <2>3. ~Asks(after, id)
    BY <2>1 DEF Asks, Nothing
  <2>4. CASE ~Asks(Head(inbound), id)
    BY <1>2, <2>2, <2>3, <2>4 DEF WillReply
  <2>5. CASE Asks(Head(inbound), id)
    <3>1. CASE Request
      BY <1>3, <2>5, <3>1 DEF Request, Asks
    <3>2. CASE Shutdown
      BY <2>5, <3>2 DEF Shutdown, FlushPending, WillReply
    <3>3. Request \/ Shutdown
      <4>1. Head(inbound).type \in {"request", "shutdown"}
        BY <2>5 DEF Asks
      <4>2. AtLoop
        BY <1>6 DEF Taken
      <4>3. ~BeginPublish /\ ~FinishPublish /\ ~AfterFlush
        BY <4>2 DEF AtLoop, BeginPublish, FinishPublish, AfterFlush
      <4>4. ~TakeDue
        <5>1. Len(Tail(inbound)) # Len(inbound)
          BY <1>1, <2>1
        <5> QED
          BY <2>1, <5>1 DEF TakeDue
      <4>5. ~DidOpen /\ ~DidChange /\ ~DidClose /\ ~WatchedFiles /\ ~EndOfInput /\ ~Exit /\ ~Malformed
        BY <4>1 DEF DidOpen, DidChange, DidClose, WatchedFiles, EndOfInput, Exit, Malformed, Taken
      <4> QED
        BY <4>3, <4>4, <4>5 DEF Main
    <3> QED
      BY <3>1, <3>2, <3>3
  <2> QED
    BY <2>4, <2>5
<1> QED
    BY <1>4, <1>5, <1>6 DEF Main, DidOpen, DidChange, DidClose, WatchedFiles, Request, Shutdown,
                            EndOfInput, Exit, Malformed

-----------------------------------------------------------------------------
(* The supervisor.                                                         *)

Ending == {m \in FromClient : m.type \in Ended}
EndsAtLast(q) == \A i \in 1..Len(q) : q[i].type \in Ended => i = Len(q)

LEMMA EndsAppend ==
    ASSUME NEW q \in Seq(FromClient), NEW m \in FromClient, ~Some(q, Ending)
    PROVE  EndsAtLast(Append(q, m))
<1> DEFINE p == Append(q, m)
           n == Len(q)
<1>1. n \in Nat /\ Len(p) = n + 1 /\ \A k \in 1..n : p[k] = q[k] /\ p[k] \in FromClient
    OBVIOUS
<1> HIDE DEF p
<1>2. EndsAtLast(p)
    BY <1>1 DEF EndsAtLast, Some, Ending
<1> QED
    BY <1>2 DEF p

LEMMA EndsTail ==
    ASSUME NEW q \in Seq(FromClient), q # <<>>, EndsAtLast(q)
    PROVE  EndsAtLast(Tail(q)) /\ (Head(q).type \in Ended => Tail(q) = <<>>)
<1> DEFINE p == Tail(q)
           n == Len(q) - 1
<1>1. /\ n \in Nat /\ Len(p) = n /\ Len(q) = n + 1 /\ Head(q) = q[1]
      /\ \A k \in 1..n : p[k] = q[k + 1]
    OBVIOUS
<1>2. p \in Seq(FromClient)
    OBVIOUS
<1> HIDE DEF p, n
<1>3. ASSUME NEW i \in 1..n, p[i].type \in Ended PROVE i = n
  <2>1. i + 1 \in 1..(n + 1) /\ q[i + 1].type \in Ended
    BY <1>1, <1>3
  <2>2. i + 1 = n + 1
    BY <1>1, <2>1 DEF EndsAtLast
  <2> QED
    BY <1>1, <2>2
<1>4. ASSUME q[1].type \in Ended PROVE p = <<>>
  <2>1. 1 = n + 1
    BY <1>1, <1>4 DEF EndsAtLast
  <2> QED
    BY <1>1, <1>2, <2>1
<1> QED
    BY <1>1, <1>3, <1>4 DEF EndsAtLast, p

(* Nothing follows the message that ends the session.                      *)
EndIsLast ==
    /\ EndsAtLast(to_worker) /\ EndsAtLast(inbound)
    /\ Some(to_worker, Ending) => sent = MaxMessages
    /\ Some(inbound, Ending) => sent = MaxMessages /\ to_worker = <<>>
    /\ after.type = "eof" \/ ~running =>
          sent = MaxMessages /\ inbound = <<>> /\ to_worker = <<>>
    /\ ~running => after = Nothing

LEMMA MainEnd ==
    ASSUME ServerInv, EndIsLast, Main, UNCHANGED <<sent, to_worker>>
    PROVE  EndIsLast'
<1>1. CASE TakeDue \/ BeginPublish \/ FinishPublish
    BY <1>1 DEF TakeDue, BeginPublish, FinishPublish, EndIsLast, exitVars
<1>2. CASE AfterFlush
    BY <1>2 DEF AfterFlush, EndIsLast, Nothing
<1>3. ASSUME NEW type, Taken(type)
      PROVE  /\ EndsAtLast(inbound') /\ (type \in Ended => inbound' = <<>>)
             /\ Some(inbound', Ending) => Some(inbound, Ending)
             /\ type \in Ended => Some(inbound, Ending)
             /\ after = Nothing /\ running
  <2>1. /\ inbound # <<>> /\ inbound \in Seq(FromClient) /\ Head(inbound) \in FromClient
        /\ Head(inbound).type = type /\ inbound' = Tail(inbound) /\ after = Nothing /\ running
    BY <1>3, TakenFacts DEF ServerInv
  <2>2. Some(inbound, Ending) <=> Head(inbound) \in Ending \/ Some(Tail(inbound), Ending)
    BY <2>1, SomeTail
  <2>3. EndsAtLast(Tail(inbound)) /\ (Head(inbound).type \in Ended => Tail(inbound) = <<>>)
    BY <2>1, EndsTail DEF EndIsLast
  <2> QED
    BY <2>1, <2>2, <2>3 DEF Ending
<1>4. CASE DidOpen \/ DidChange \/ DidClose \/ WatchedFiles \/ Request
  <2>1. /\ \E type : Taken(type)
        /\ UNCHANGED <<after, running>>
    BY <1>4 DEF DidOpen, DidChange, DidClose, WatchedFiles, Request, exitVars
  <2>2. /\ EndsAtLast(inbound') /\ (Some(inbound', Ending) => Some(inbound, Ending))
        /\ after = Nothing /\ running
    BY <1>3, <2>1
  <2> QED
    BY <2>1, <2>2 DEF EndIsLast, Nothing
<1>5. CASE Shutdown \/ EndOfInput
  <2>1. /\ running' = running /\ after' = Head(inbound)
        /\ Taken("shutdown") \/ Taken("eof")
    BY <1>5 DEF Shutdown, EndOfInput, FlushPending, exitVars
  <2>2. CASE Taken("shutdown")
    <3>1. after'.type # "eof" /\ running'
      BY <1>3, <2>1, <2>2 DEF Taken
    <3>2. EndsAtLast(inbound') /\ (Some(inbound', Ending) => Some(inbound, Ending))
      BY <1>3, <2>2
    <3> QED
      BY <3>1, <3>2 DEF EndIsLast
  <2>3. CASE Taken("eof")
    <3>1. /\ EndsAtLast(inbound') /\ inbound' = <<>> /\ Some(inbound, Ending) /\ running
      BY <1>3, <2>3 DEF Ended
    <3> QED
      BY <2>1, <3>1 DEF EndIsLast
  <2> QED
    BY <2>1, <2>2, <2>3
<1>6. CASE Exit \/ Malformed
  <2>1. UNCHANGED after /\ (Taken("exit") \/ Taken("malformed"))
    BY <1>6 DEF Exit, Malformed
  <2>2. /\ EndsAtLast(inbound') /\ inbound' = <<>> /\ Some(inbound, Ending) /\ after = Nothing
    BY <1>3, <2>1 DEF Ended
  <2> QED
    BY <2>1, <2>2 DEF EndIsLast
<1> QED
    BY <1>1, <1>2, <1>4, <1>5, <1>6 DEF Main

(* The steps that leave the server as it is.                               *)
LEMMA SameServer ==
    ASSUME ServerInv, UNCHANGED <<markers, notified, latest, inbound, mainVars, output>>
    PROVE  ServerInv' /\ (\A u : WillPublish(u)' <=> WillPublish(u))
                      /\ (\A id : WillReply(id)' <=> WillReply(id))
<1>1. UNCHANGED <<markers, notified, latest, inbound, documents, deadlines, todo, job, after,
                  roots, reported, shutdown_requested, running, output>>
    BY DEF mainVars
<1>2. OpenDocs' = OpenDocs /\ \A u : Report(u)' = Report(u)
    BY <1>1, SameReport
<1>3. ServerTypes' /\ JobOK' /\ CheckedOrDue' /\ ClosedOK' /\ QueueOK'
    BY <1>1, <1>2 DEF ServerInv, ServerTypes, JobOK, CheckedOrDue, ClosedOK, QueueOK, Open
<1>4. (\A u : WillPublish(u)' <=> WillPublish(u)) /\ (\A id : WillReply(id)' <=> WillReply(id))
    BY <1>1 DEF WillPublish, WillReply
<1> QED
    BY <1>3, <1>4 DEF ServerInv

Keys == {Diagnostics(u) : u \in Docs} \cup {RequestKey(id) : id \in 1..MaxMessages}

SupervisorTypes ==
    /\ pending \subseteq Keys
    /\ versions \in [Docs -> Versions \cup {Absent}]
    /\ to_worker \in Seq(FromClient)
    /\ worker \in {"alive", "exited", "killed"}
    /\ hung \in BOOLEAN /\ timed_out \in BOOLEAN /\ transport_error \in BOOLEAN
    /\ returned \in {Absent, 0, 1, 124}

(* The pipe leads from what the reader saw to the client's documents.      *)
PipeOK == worker = "alive" => \A u \in Docs : Chain(to_worker, latest[u], editor[u], u)

WorkerOK ==
    /\ transport_error => worker # "alive"
    /\ worker = "exited" => ~running

(* A reply that is owed is on its way, or the session has failed.          *)
RepliesOwed ==
    \A id \in 1..MaxMessages : RequestKey(id) \in pending =>
        worker = "killed" \/ transport_error \/ Some(to_worker, Asking(id)) \/ WillReply(id)

RequestsDone == returned = 0 => \A id \in 1..MaxMessages : RequestKey(id) \notin pending

SupervisorInv ==
    /\ ServerInv /\ ClientTypes /\ SupervisorTypes /\ PipeOK /\ WorkerOK /\ EndIsLast
    /\ RepliesOwed /\ RequestsDone

LEMMA KeysDiffer ==
    ASSUME NEW u, NEW id, NEW v, NEW n
    PROVE  /\ Diagnostics(u) # RequestKey(id)
           /\ Diagnostics(u) = Diagnostics(v) => u = v
           /\ RequestKey(id) = RequestKey(n) => id = n
<1>1. Diagnostics(u).kind = "diagnostics" /\ RequestKey(id).kind = "request"
    BY DEF Diagnostics, RequestKey
<1>2. Diagnostics(u).of = u /\ Diagnostics(v).of = v /\ RequestKey(id).of = id /\ RequestKey(n).of = n
    BY DEF Diagnostics, RequestKey
<1> QED
    BY <1>1, <1>2

(* incoming(): what a message makes the client wait for.                   *)
LEMMA Registered ==
    ASSUME SupervisorTypes, NEW m \in FromClient, Register(m)
    PROVE  /\ versions' \in [Docs -> Versions \cup {Absent}] /\ pending' \subseteq Keys
           /\ \A id : RequestKey(id) \in pending' => RequestKey(id) \in pending \/ Asks(m, id)
           /\ \A u : Diagnostics(u) \in pending' => Diagnostics(u) \in pending \/ About(m, u)
<1>1. CASE m.type = "open" \/ (m.type = "change" /\ Accepted(m))
  <2>1. m.uri \in Docs /\ m.state \in States
    BY <1>1, ClientFields
  <2>2. /\ versions' = [versions EXCEPT ![m.uri] = m.state.version]
        /\ pending' = pending \cup {Diagnostics(m.uri)}
    BY <1>1 DEF Register
  <2>3. m.state.version \in Versions /\ Diagnostics(m.uri) \in Keys
    BY <2>1 DEF States, Keys
  <2>4. \A u : Diagnostics(u) \in pending' => Diagnostics(u) \in pending \/ About(m, u)
    BY <1>1, <2>2, KeysDiffer DEF About
  <2>5. \A id : RequestKey(id) \in pending' => RequestKey(id) \in pending
    BY <2>2, KeysDiffer
  <2> QED
    BY <2>1, <2>2, <2>3, <2>4, <2>5 DEF SupervisorTypes
<1>2. CASE m.type = "close"
  <2>1. /\ versions' = [versions EXCEPT ![m.uri] = Absent]
        /\ pending' = pending \ {Diagnostics(m.uri)} /\ m.uri \in Docs
    BY <1>2, ClientFields DEF Register
  <2> QED
    BY <2>1 DEF SupervisorTypes
<1>3. CASE m.type \in {"request", "shutdown"}
  <2>1. /\ pending' = pending \cup {RequestKey(m.id)} /\ UNCHANGED versions
        /\ m.id \in 1..MaxMessages
    BY <1>3, ClientFields DEF Register
  <2>2. RequestKey(m.id) \in Keys
    BY <2>1 DEF Keys
  <2>3. \A u : Diagnostics(u) \in pending' => Diagnostics(u) \in pending
    BY <2>1, KeysDiffer
  <2>4. \A id : RequestKey(id) \in pending' => RequestKey(id) \in pending \/ Asks(m, id)
    BY <1>3, <2>1, KeysDiffer DEF Asks
  <2> QED
    BY <2>1, <2>2, <2>3, <2>4 DEF SupervisorTypes
<1>4. CASE /\ ~(m.type = "open" \/ (m.type = "change" /\ Accepted(m)))
           /\ m.type \notin {"close", "request", "shutdown"}
    BY <1>4 DEF Register, SupervisorTypes
<1> QED
    BY <1>1, <1>2, <1>3, <1>4

LEMMA IncomingInv ==
    ASSUME SupervisorInv, NEW m \in ClientMessages \cup StaleMessages, Incoming(m)
    PROVE  SupervisorInv'
<1> USE DEF SupervisorInv
<1>1. /\ UNCHANGED <<markers, notified, latest, inbound, mainVars, output>>
      /\ UNCHANGED <<hung, worker, timed_out, returned>>
      /\ MayStillSend /\ returned = Absent /\ ~transport_error /\ Register(m)
      /\ EditorAfter(m)
      /\ sent' = IF m.type \in Ended THEN MaxMessages ELSE sent + 1
      /\ to_worker' = IF worker = "alive" THEN Append(to_worker, m) ELSE to_worker
      /\ transport_error' = (worker # "alive" /\ m.type # "eof")
    BY DEF Incoming, ClientSends
<1>2. ServerInv' /\ \A id : WillReply(id)' <=> WillReply(id)
    BY <1>1, SameServer
<1>3. ClientTypes' /\ m \in FromClient /\ \A u \in Docs : Says(m, u)
    BY <1>1, ClientSays
<1>4. to_worker \in Seq(FromClient) /\ to_worker' \in Seq(FromClient)
    BY <1>1, <1>3 DEF SupervisorTypes
<1>5. SupervisorTypes'
    BY <1>1, <1>3, <1>4, Registered DEF SupervisorTypes
<1>6. PipeOK'
  <2> SUFFICES ASSUME worker = "alive", NEW u \in Docs
               PROVE  Chain(Append(to_worker, m), latest[u], editor'[u], u)
    BY <1>1 DEF PipeOK
  <2>1. Chain(to_worker, latest[u], editor[u], u)
    BY DEF PipeOK
  <2>2. About(m, u) => Follows(m, editor[u]) /\ Agree(Result(m), editor'[u])
    BY <1>3 DEF Says
  <2>3. ~About(m, u) => editor'[u] = editor[u]
    BY <1>3 DEF Says
  <2> QED
    BY <1>3, <1>4, <2>1, <2>2, <2>3, AppendIsChain
<1>7. WorkerOK'
    BY <1>1 DEF WorkerOK, mainVars
<1>8. EndIsLast'
  <2>1. sent # MaxMessages
    BY <1>1, LspAssumption DEF MayStillSend, ClientTypes
  <2>2. /\ ~Some(to_worker, Ending) /\ ~Some(inbound, Ending)
        /\ after.type # "eof" /\ running
    BY <2>1 DEF EndIsLast
  <2>3. UNCHANGED <<inbound, after, running>>
    BY <1>1 DEF mainVars
  <2>4. EndsAtLast(to_worker')
    BY <1>1, <1>3, <1>4, <2>2, EndsAppend DEF EndIsLast
  <2>5. Some(to_worker', Ending) => sent' = MaxMessages
    BY <1>1, <1>3, <1>4, <2>2, SomeAppend DEF Ending
  <2> QED
    BY <2>2, <2>3, <2>4, <2>5 DEF EndIsLast
<1>9. RepliesOwed'
  <2> SUFFICES ASSUME NEW id \in 1..MaxMessages, RequestKey(id) \in pending'
               PROVE  \/ worker = "killed" \/ transport_error'
                      \/ Some(to_worker', Asking(id)) \/ WillReply(id)
    BY <1>1, <1>2 DEF RepliesOwed
  <2>1. RequestKey(id) \in pending \/ Asks(m, id)
    BY <1>1, <1>3, Registered
  <2>2. CASE Asks(m, id)
    <3>1. CASE worker = "alive"
      <4>1. m \in Asking(id)
        BY <1>3, <2>2 DEF Asking
      <4> QED
        BY <1>1, <1>3, <1>4, <3>1, <4>1, SomeAppend
    <3>2. CASE worker # "alive"
      BY <1>1, <2>2, <3>2 DEF Asks
    <3> QED
      BY <3>1, <3>2
  <2>3. CASE RequestKey(id) \in pending
    <3>1. Some(to_worker, Asking(id)) => Some(to_worker', Asking(id))
      BY <1>1, <1>3, <1>4, SomeAppend
    <3> QED
      BY <1>1, <2>3, <3>1 DEF RepliesOwed
  <2> QED
    BY <2>1, <2>2, <2>3
<1>10. RequestsDone'
    BY <1>1, LspAssumption DEF RequestsDone
<1> QED
    BY <1>2, <1>3, <1>5, <1>6, <1>7, <1>8, <1>9, <1>10

LEMMA MalformedInv ==
    ASSUME SupervisorInv, NEW m \in ClientMessages \cup StaleMessages, IncomingMalformed(m)
    PROVE  SupervisorInv'
<1> USE DEF SupervisorInv
<1>1. /\ UNCHANGED <<markers, notified, latest, inbound, mainVars, output>>
      /\ UNCHANGED <<pending, versions, to_worker, hung, timed_out, returned>>
      /\ MayStillSend /\ returned = Absent /\ EditorAfter(m)
      /\ sent' = IF m.type \in Ended THEN MaxMessages ELSE sent + 1
      /\ m.type = "malformed"
      /\ transport_error' = TRUE
      /\ worker' = IF worker = "alive" THEN "killed" ELSE worker
    BY DEF IncomingMalformed, ClientSends
<1>2. ServerInv' /\ \A id : WillReply(id)' <=> WillReply(id)
    BY <1>1, SameServer
<1>3. ClientTypes'
    BY <1>1, ClientSays
<1>4. SupervisorTypes'
    BY <1>1 DEF SupervisorTypes
<1>5. PipeOK' /\ WorkerOK' /\ RepliesOwed'
    BY <1>1 DEF PipeOK, WorkerOK, RepliesOwed, mainVars
<1>6. EndIsLast'
    BY <1>1 DEF EndIsLast, Ended, mainVars
<1>7. RequestsDone'
    BY <1>1 DEF RequestsDone
<1> QED
    BY <1>2, <1>3, <1>4, <1>5, <1>6, <1>7

LEMMA OutgoingInv ==
    ASSUME SupervisorInv, Outgoing
    PROVE  SupervisorInv'
<1> USE DEF SupervisorInv
<1>1. /\ output # <<>> /\ Show(Head(output)) /\ output' = Tail(output)
      /\ pending' = pending \ Answers(Head(output)) /\ returned = Absent
      /\ UNCHANGED <<editor, sent, latest, inbound, mainVars, versions, to_worker, hung,
                     worker, timed_out, transport_error, returned>>
    BY DEF Outgoing
<1>2. ServerInv'
    BY <1>1, ShowInv
<1>3. ClientTypes' /\ SupervisorTypes' /\ PipeOK'
    BY <1>1 DEF ClientTypes, SupervisorTypes, PipeOK
<1>4. WorkerOK' /\ EndIsLast'
    BY <1>1 DEF WorkerOK, EndIsLast, mainVars
<1>5. RepliesOwed'
  <2> SUFFICES ASSUME NEW id \in 1..MaxMessages, RequestKey(id) \in pending',
                      worker # "killed", ~transport_error, ~Some(to_worker, Asking(id))
               PROVE  WillReply(id)'
    BY <1>1 DEF RepliesOwed
  <2>1. WillReply(id) /\ RequestKey(id) \notin Answers(Head(output))
    BY <1>1 DEF RepliesOwed
  <2>2. Head(output) \notin Replying(id)
    BY <2>1 DEF Replying, Answers
  <2>3. Some(output, Replying(id)) => Some(output', Replying(id))
    BY <1>1, <2>2, SomeTail DEF ServerInv, ServerTypes
  <2>4. UNCHANGED <<inbound, after>>
    BY <1>1 DEF mainVars
  <2> QED
    BY <2>1, <2>3, <2>4 DEF WillReply
<1>6. RequestsDone'
    BY <1>1, LspAssumption DEF RequestsDone
<1> QED
    BY <1>2, <1>3, <1>4, <1>5, <1>6

(* The reader takes the first message of the pipe.                         *)
LEMMA ReadFacts ==
    ASSUME SupervisorInv, WorkerRead
    PROVE  /\ to_worker # <<>> /\ to_worker \in Seq(FromClient) /\ to_worker' = Tail(to_worker)
           /\ Head(to_worker) \in FromClient /\ Observe(Head(to_worker))
           /\ inbound \in Seq(FromClient) /\ inbound' = Append(inbound, Head(to_worker))
           /\ UNCHANGED <<clientVars, mainVars, output, pending, versions, hung, worker,
                          timed_out, transport_error, returned>>
           /\ worker = "alive" /\ running
           /\ \A u \in Docs : About(Head(to_worker), u) => Follows(Head(to_worker), latest[u])
<1>1. /\ to_worker # <<>> /\ to_worker' = Tail(to_worker) /\ Observe(Head(to_worker))
      /\ UNCHANGED <<clientVars, mainVars, output, pending, versions, hung, worker,
                     timed_out, transport_error, returned>>
      /\ worker = "alive" /\ running
    BY DEF WorkerRead
<1>2. /\ to_worker \in Seq(FromClient) /\ Head(to_worker) \in FromClient
      /\ inbound \in Seq(FromClient)
    BY <1>1 DEF SupervisorInv, SupervisorTypes, ServerInv, ServerTypes
<1>3. \A u \in Docs : About(Head(to_worker), u) => Follows(Head(to_worker), latest[u])
    BY <1>1, <1>2, HeadFollows DEF SupervisorInv, PipeOK
<1> QED
    BY <1>1, <1>2, <1>3 DEF Observe

LEMMA ReadInv ==
    ASSUME SupervisorInv, WorkerRead
    PROVE  SupervisorInv'
<1> USE DEF SupervisorInv
<1> DEFINE m == Head(to_worker)
<1>1. UNCHANGED <<editor, sent, markers, notified, mainVars, output, pending, versions, hung,
                  worker, timed_out, transport_error, returned>>
    BY ReadFacts DEF clientVars
<1>2. /\ ServerInv'
      /\ \A u \in Docs : latest'[u] = IF About(m, u) THEN Result(m) ELSE latest[u]
    BY <1>1, ReadFacts, ObserveInv
<1>3. ClientTypes'
    BY <1>1 DEF ClientTypes
<1>4. to_worker' \in Seq(FromClient)
  <2>1. to_worker # <<>> /\ to_worker \in Seq(FromClient) /\ to_worker' = Tail(to_worker)
    BY ReadFacts
  <2> QED
    BY <2>1
<1>5. SupervisorTypes'
    BY <1>1, <1>4 DEF SupervisorTypes
<1>6. PipeOK'
  <2> SUFFICES ASSUME NEW u \in Docs PROVE Chain(Tail(to_worker), latest'[u], editor[u], u)
    BY <1>1, ReadFacts DEF PipeOK
  <2>1. Chain(to_worker, latest[u], editor[u], u)
    BY ReadFacts DEF PipeOK
  <2>2. (About(m, u) => Agree(Result(m), latest'[u])) /\ (~About(m, u) => latest'[u] = latest[u])
    BY <1>2 DEF Agree
  <2> QED
    BY <2>1, <2>2, ReadFacts, TailIsChain
<1>7. WorkerOK'
    BY <1>1 DEF WorkerOK, mainVars
<1>8. \A S : /\ Some(inbound', S) <=> Some(inbound, S) \/ m \in S
             /\ Some(to_worker, S) <=> m \in S \/ Some(to_worker', S)
  <2>1. /\ to_worker # <<>> /\ to_worker \in Seq(FromClient) /\ to_worker' = Tail(to_worker)
        /\ m \in FromClient /\ inbound \in Seq(FromClient) /\ inbound' = Append(inbound, m)
    BY ReadFacts
  <2> TAKE S
  <2>2. Some(Append(inbound, m), S) <=> Some(inbound, S) \/ m \in S
    BY <2>1, SomeAppend
  <2>3. Some(to_worker, S) <=> m \in S \/ Some(Tail(to_worker), S)
    BY <2>1, SomeTail
  <2> QED
    BY <2>1, <2>2, <2>3
<1>9. EndIsLast'
  <2>1. UNCHANGED <<sent, after, running>>
    BY <1>1 DEF mainVars
  <2>2. ~Some(inbound, Ending) /\ after.type # "eof" /\ running
    BY ReadFacts DEF EndIsLast
  <2>3. EndsAtLast(inbound')
    BY <2>2, ReadFacts, EndsAppend
  <2>4. EndsAtLast(to_worker') /\ (m.type \in Ended => to_worker' = <<>>)
    BY ReadFacts, EndsTail DEF EndIsLast
  <2>5. Some(inbound', Ending) => m.type \in Ended /\ Some(to_worker, Ending)
    BY <1>8, <2>2 DEF Ending
  <2>6. Some(to_worker', Ending) => Some(to_worker, Ending)
    BY <1>8
  <2> QED
    BY <2>1, <2>2, <2>3, <2>4, <2>5, <2>6 DEF EndIsLast
<1>10. RepliesOwed'
  <2>1. ASSUME NEW id, Some(to_worker, Asking(id)) \/ WillReply(id)
        PROVE  Some(to_worker', Asking(id)) \/ WillReply(id)'
    BY <1>1, <1>8, <2>1 DEF WillReply, mainVars
  <2> QED
    BY <1>1, <2>1 DEF RepliesOwed
<1>11. RequestsDone'
    BY <1>1 DEF RequestsDone
<1> QED
    BY <1>2, <1>3, <1>5, <1>6, <1>7, <1>9, <1>10, <1>11

LEMMA WorkerMainInv ==
    ASSUME SupervisorInv, WorkerMain
    PROVE  SupervisorInv'
<1> USE DEF SupervisorInv
<1>1. Main /\ worker = "alive"
      /\ UNCHANGED <<pending, versions, to_worker, hung, worker, timed_out, transport_error, returned>>
    BY DEF WorkerMain, supervisorVars
<1>2. UNCHANGED <<editor, sent, latest>>
    BY <1>1 DEF Main, TakeDue, BeginPublish, FinishPublish, DidOpen, DidChange, DidClose,
                WatchedFiles, Request, Shutdown, EndOfInput, FlushPending, AfterFlush, Exit,
                Malformed, clientVars
<1>3. ServerInv'
    BY <1>1, MainInv
<1>4. ClientTypes' /\ SupervisorTypes' /\ PipeOK'
    BY <1>1, <1>2 DEF ClientTypes, SupervisorTypes, PipeOK
<1>5. WorkerOK'
    BY <1>1 DEF WorkerOK
<1>6. EndIsLast'
    BY <1>1, <1>2, MainEnd
<1>7. RepliesOwed'
    BY <1>1, MainWillReply DEF RepliesOwed
<1>8. RequestsDone'
    BY <1>1 DEF RequestsDone
<1> QED
    BY <1>3, <1>4, <1>5, <1>6, <1>7, <1>8

(* The steps of the main thread, and a worker that hangs or exits.         *)
LEMMA WatchInv ==
    ASSUME SupervisorInv, Hang \/ WorkerExit \/ TimeoutKill \/ Return \/ UNCHANGED allVars
    PROVE  SupervisorInv'
<1> USE DEF SupervisorInv
<1>1. UNCHANGED <<vars, pending, versions, to_worker, transport_error>>
    BY DEF Hang, WorkerExit, TimeoutKill, Kill, Return, allVars, supervisorVars
<1>2. UNCHANGED <<editor, sent, markers, notified, latest, inbound, mainVars, output,
                  after, running, shutdown_requested>>
    BY <1>1 DEF vars, clientVars, mainVars
<1>3. ServerInv' /\ \A id : WillReply(id)' <=> WillReply(id)
    BY <1>2, SameServer
<1>4. ClientTypes' /\ EndIsLast'
    BY <1>1, <1>2 DEF ClientTypes, EndIsLast
<1>5. /\ worker' \in {"alive", "exited", "killed"}
      /\ worker' = "alive" => worker = "alive"
      /\ worker = "killed" => worker' = "killed"
      /\ worker' = "exited" => worker = "exited" \/ ~running
    BY DEF Hang, WorkerExit, TimeoutKill, Kill, Return, allVars, supervisorVars, SupervisorTypes
<1>6. hung' \in BOOLEAN /\ timed_out' \in BOOLEAN
    BY DEF Hang, WorkerExit, TimeoutKill, Kill, Return, allVars, supervisorVars, SupervisorTypes
<1>7. returned' \in {Absent, 0, 1, 124}
    BY DEF Hang, WorkerExit, TimeoutKill, Kill, Return, Status, allVars, supervisorVars,
           SupervisorTypes
<1>8. SupervisorTypes'
    BY <1>1, <1>5, <1>6, <1>7 DEF SupervisorTypes
<1>9. PipeOK' /\ WorkerOK' /\ RepliesOwed'
    BY <1>1, <1>2, <1>3, <1>5 DEF PipeOK, WorkerOK, RepliesOwed
<1>10. RequestsDone'
  <2>1. CASE Return
    <3> SUFFICES ASSUME returned' = 0, NEW id \in 1..MaxMessages, RequestKey(id) \in pending
                 PROVE  FALSE
      BY <1>1 DEF RequestsDone
    <3>1. /\ worker # "alive" /\ worker # "killed" /\ ~transport_error /\ output = <<>>
      BY <2>1 DEF Return, Status
    <3>2. worker = "exited" /\ ~running
      BY <3>1 DEF SupervisorTypes, WorkerOK
    <3>3. inbound = <<>> /\ to_worker = <<>> /\ after = Nothing
      BY <3>2 DEF EndIsLast
    <3>4. ~Some(to_worker, Asking(id)) /\ ~WillReply(id)
      BY <3>1, <3>3 DEF Some, WillReply, Asks, Nothing
    <3> QED
      BY <3>1, <3>4 DEF RepliesOwed
  <2>2. CASE ~Return
    BY <1>1, <2>2 DEF Hang, WorkerExit, TimeoutKill, Kill, allVars, supervisorVars, RequestsDone
  <2> QED
    BY <2>1, <2>2
<1> QED
    BY <1>3, <1>4, <1>8, <1>9, <1>10

(* The supervisor around the worker: the pipe carries each document from   *)
(* what the worker's reader saw to what the supervisor forwarded, and each *)
(* answer that is waited for is on its way or will be produced.            *)
THEOREM SupervisorInvariant == SupervisorSpec => []SupervisorInv
<1>1. SupervisorInit => SupervisorInv
  <2> SUFFICES ASSUME SupervisorInit PROVE SupervisorInv
    OBVIOUS
  <2>1. ServerInv
    BY InitInv DEF SupervisorInit
  <2>2. ClientTypes
    BY LspAssumption DEF SupervisorInit, Init, ClientTypes
  <2>3. to_worker \in Seq(FromClient) /\ pending = {} /\ versions = [u \in Docs |-> Absent]
    BY DEF SupervisorInit
  <2>4. SupervisorTypes
    BY <2>3 DEF SupervisorInit, SupervisorTypes
  <2>5. PipeOK
    <3> SUFFICES ASSUME NEW u \in Docs PROVE Chain(to_worker, latest[u], editor[u], u)
      BY DEF PipeOK
    <3>1. Len(to_worker) = 0 /\ latest[u] = Absent /\ editor[u] = Absent
      BY DEF SupervisorInit, Init
    <3> QED
      BY <3>1 DEF Chain, Agree
  <2>6. WorkerOK /\ RepliesOwed /\ RequestsDone
    BY <2>3 DEF SupervisorInit, WorkerOK, RepliesOwed, RequestsDone
  <2>7. EndIsLast
    <3>1. Len(to_worker) = 0 /\ Len(inbound) = 0 /\ after = Nothing /\ running
      BY DEF SupervisorInit, Init
    <3> QED
      BY <3>1 DEF EndIsLast, EndsAtLast, Some, Nothing
  <2> QED
    BY <2>1, <2>2, <2>4, <2>5, <2>6, <2>7 DEF SupervisorInv
<1>2. SupervisorInv /\ [SupervisorNext]_allVars => SupervisorInv'
    BY IncomingInv, MalformedInv, OutgoingInv, ReadInv, WorkerMainInv, WatchInv
       DEF SupervisorNext, SupervisorRest
<1> QED
    BY <1>1, <1>2, PTL DEF SupervisorSpec

(* Whatever the client sends and whenever the worker hangs, exits or is    *)
(* killed, what the supervisor waits for is a document or a request that   *)
(* the client named.                                                       *)
THEOREM SupervisorTypeCorrect == SupervisorSpec => []SupervisorTypeOK
<1>1. ASSUME SupervisorInv PROVE SupervisorTypeOK
  <2>1. TypeOK
    BY <1>1, TypesFollow DEF SupervisorInv
  <2>2. ASSUME NEW p \in Keys
        PROVE  \/ p.kind = "diagnostics" /\ p.of \in Docs
               \/ p.kind = "request" /\ p.of \in 1..MaxMessages
    BY DEF Keys, Diagnostics, RequestKey
  <2>3. {hung, timed_out, transport_error} \subseteq BOOLEAN
    BY <1>1 DEF SupervisorInv, SupervisorTypes
  <2> QED
    BY <1>1, <2>1, <2>2, <2>3 DEF SupervisorTypeOK, SupervisorInv, SupervisorTypes
<1> QED
    BY <1>1, SupervisorInvariant, PTL

(* Exit status 0 means that every request was answered: an answer that is  *)
(* still on its way when the worker goes is waited for.                    *)
THEOREM SuccessMeansAnsweredHolds == SupervisorSpec => []SuccessMeansAnswered
<1>1. ASSUME SupervisorInv, returned = 0, NEW p \in pending PROVE p.kind # "request"
  <2>1. p \in Keys /\ \A id \in 1..MaxMessages : p # RequestKey(id)
    BY <1>1 DEF SupervisorInv, SupervisorTypes, RequestsDone
  <2> QED
    BY <2>1 DEF Keys, Diagnostics
<1>2. SupervisorInv => SuccessMeansAnswered
    BY <1>1 DEF SuccessMeansAnswered
<1> QED
    BY <1>2, SupervisorInvariant, PTL

-----------------------------------------------------------------------------
(* Diagnostics that the client waits for are on their way.                 *)
PublicationsOwed ==
    \A u \in Docs : Diagnostics(u) \in pending =>
        worker # "alive" \/ Some(to_worker, Concerning(u)) \/ WillPublish(u)

LEMMA OwedStep ==
    ASSUME ~StaleChanges, SupervisorInv, PublicationsOwed, [SupervisorNext]_allVars
    PROVE  PublicationsOwed'
<1> SUFFICES ASSUME NEW u \in Docs, Diagnostics(u) \in pending', worker' = "alive"
             PROVE  Some(to_worker', Concerning(u)) \/ WillPublish(u)'
    BY DEF PublicationsOwed
<1>1. to_worker \in Seq(FromClient)
    BY DEF SupervisorInv, SupervisorTypes
<1>2. ASSUME NEW m \in ClientMessages \cup StaleMessages, Incoming(m)
      PROVE  Some(to_worker', Concerning(u)) \/ WillPublish(u)'
  <2>1. /\ UNCHANGED <<markers, notified, latest, inbound, mainVars, output, worker>>
        /\ to_worker' = IF worker = "alive" THEN Append(to_worker, m) ELSE to_worker
        /\ Register(m)
    BY <1>2 DEF Incoming, ClientSends
  <2>2. WillPublish(u)' <=> WillPublish(u)
    BY <2>1, SameServer DEF SupervisorInv
  <2>3. m \in FromClient
    BY <1>2, ClientSays DEF Incoming, ClientSends, SupervisorInv
  <2>4. Diagnostics(u) \in pending \/ About(m, u)
    BY <2>1, <2>3, Registered DEF SupervisorInv
  <2>5. Some(to_worker', Concerning(u)) <=> Some(to_worker, Concerning(u)) \/ m \in Concerning(u)
    BY <1>1, <2>1, <2>3, SomeAppend
  <2> QED
    BY <2>1, <2>2, <2>3, <2>4, <2>5 DEF PublicationsOwed, Concerning
<1>3. ASSUME NEW m \in ClientMessages \cup StaleMessages, IncomingMalformed(m) PROVE FALSE
    BY <1>3 DEF IncomingMalformed
<1>4. CASE Outgoing
  <2>1. /\ output # <<>> /\ output' = Tail(output)
        /\ pending' = pending \ Answers(Head(output))
        /\ UNCHANGED <<inbound, mainVars, to_worker, worker>>
    BY <1>4 DEF Outgoing
  <2>2. Head(output) \notin Mentioning(u)
    BY <2>1 DEF Mentioning, Mentions, Answers
  <2>3. output \in Seq(ToClient)
    BY DEF SupervisorInv, ServerInv, ServerTypes
  <2>4. Some(output, Mentioning(u)) => Some(output', Mentioning(u))
    BY <2>1, <2>2, <2>3, SomeTail
  <2>5. UNCHANGED <<todo, deadlines, job>>
    BY <2>1 DEF mainVars
  <2> QED
    BY <2>1, <2>4, <2>5 DEF PublicationsOwed, WillPublish
<1>5. CASE WorkerRead
  <2>1. /\ to_worker # <<>> /\ to_worker' = Tail(to_worker)
        /\ Head(to_worker) \in FromClient /\ inbound \in Seq(FromClient)
        /\ inbound' = Append(inbound, Head(to_worker))
        /\ UNCHANGED <<mainVars, output, pending, worker>>
    BY <1>5, ReadFacts
  <2>2. Some(inbound', Concerning(u))
            <=> Some(inbound, Concerning(u)) \/ Head(to_worker) \in Concerning(u)
    BY <2>1, SomeAppend
  <2>3. Some(to_worker, Concerning(u))
            <=> Head(to_worker) \in Concerning(u) \/ Some(to_worker', Concerning(u))
    BY <1>1, <2>1, SomeTail
  <2>4. UNCHANGED <<todo, deadlines, job>>
    BY <2>1 DEF mainVars
  <2> QED
    BY <2>1, <2>2, <2>3, <2>4 DEF PublicationsOwed, WillPublish
<1>6. CASE WorkerMain
  <2>1. Main /\ UNCHANGED <<pending, to_worker, worker>>
    BY <1>6 DEF WorkerMain, supervisorVars
  <2> QED
    BY <2>1, MainWillPublish DEF SupervisorInv, PublicationsOwed
<1>7. CASE Hang \/ WorkerExit \/ TimeoutKill \/ Return \/ UNCHANGED allVars
  <2>1. UNCHANGED <<vars, pending, to_worker>> /\ worker = "alive"
    BY <1>7 DEF Hang, WorkerExit, TimeoutKill, Kill, Return, allVars, supervisorVars
  <2>2. UNCHANGED <<markers, notified, latest, inbound, mainVars, output>>
    BY <2>1 DEF vars, clientVars
  <2>3. WillPublish(u)' <=> WillPublish(u)
    BY <2>2, SameServer DEF SupervisorInv
  <2> QED
    BY <2>1, <2>3 DEF PublicationsOwed
<1> QED
    BY <1>2, <1>3, <1>4, <1>5, <1>6, <1>7 DEF SupervisorNext, SupervisorRest

(* A worker that has handled everything owes nothing, so the timeout never *)
(* kills one that is idle: every answer the supervisor waits for is        *)
(* produced, for a client that never repeats an outdated change.           *)
THEOREM NothingOwedAtRestHolds ==
    ASSUME ~StaleChanges
    PROVE  SupervisorSpec => []NothingOwedAtRest
<1>1. SupervisorInit => PublicationsOwed
    BY DEF SupervisorInit, PublicationsOwed
<1>2. SupervisorInv /\ PublicationsOwed /\ [SupervisorNext]_allVars => PublicationsOwed'
    BY OwedStep
<1>3. ASSUME SupervisorInv, PublicationsOwed, worker = "alive", running, WorkerAtRest,
             NEW p \in pending
      PROVE  FALSE
  <2>1. /\ to_worker = <<>> /\ inbound = <<>> /\ output = <<>> /\ todo = {} /\ deadlines = {}
        /\ job.uri = Absent /\ after = Nothing
    BY <1>3 DEF WorkerAtRest, Quiet, AtLoop, NoJob
  <2>2. \A S : ~Some(to_worker, S) /\ ~Some(inbound, S) /\ ~Some(output, S)
    BY <2>1 DEF Some
  <2>3. ASSUME NEW u \in Docs PROVE p # Diagnostics(u)
    BY <1>3, <2>1, <2>2, LspAssumption DEF PublicationsOwed, WillPublish
  <2>4. ASSUME NEW id \in 1..MaxMessages PROVE p # RequestKey(id)
    <3>1. ~WillReply(id)
      BY <2>1, <2>2 DEF WillReply, Asks, Nothing
    <3> QED
      BY <1>3, <2>2, <3>1 DEF SupervisorInv, RepliesOwed, WorkerOK
  <2> QED
    BY <1>3, <2>3, <2>4 DEF SupervisorInv, SupervisorTypes, Keys
<1>4. SupervisorInv /\ PublicationsOwed => NothingOwedAtRest
    BY <1>3 DEF NothingOwedAtRest
<1> QED
    BY <1>1, <1>2, <1>4, SupervisorInvariant, PTL DEF SupervisorSpec

=============================================================================
