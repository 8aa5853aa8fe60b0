# Verification of zlang-hdl

TLA+ models of the parts of ZLang HDL in which several things happen at once:
the crossings, streams, credit links, arbiters, request ledgers, registers and
rule schedules that the compiler generates, the language server, the process
that supervises it and the caches below it, the runs of a verification bundle,
and the publication of results and manifests. TLC checks them on small
instances; TLAPS proves every safety property that a passing run checks, for
every value of the constants.

`PROJECT.json` lists the components, the runs, the source lines behind each
definition, the hazards and the theorems.

## 1. The system

ZLang HDL is a compiler for a hardware description language. Most of its lines
(parser, semantic analysis, intermediate representation, optimizer, printing of
SystemVerilog) translate sequentially from one immutable structure to another.
State, concurrency and failure are found in the following parts.

| Part | State | Operations | Interacts with | What is hard | What makes it correct |
|---|---|---|---|---|---|
| Asynchronous FIFO (`async_fifo.py`, `simulation_cdc.py`, `backend/systemverilog/cdc.py`) | pointers, Gray pointers, synchronizers, `full`, prefetched beat, memory | an edge of either clock or of both, reset | the two designs it joins | unrelated clocks, stale and skewed pointer copies, resets released at different times | a bounded queue; no cell read while written; a stalled beat holds; progress |
| Handshake crossing (same files) | two toggles, four synchronizer flops, held payload | as above | as above | the payload is not synchronized | a one-word queue; at most one toggle under way |
| Level and pulse crossings (same files) | two flops; toggle, three flops | as above | as above | pulses faster or slower than the destination | no pulse lost or made up; a still level arrives |
| Packet arbiter (`simulation_packet.py`, `backend/systemverilog/packet.py`) | grant, owner, priority | clock edge, reset | packet sources, destination | packets broken into, starvation, wrap at a count that is no power of two | contiguous packets, held beats, bounded bypass |
| Language server (`lsp/server.py`, `lsp/diagnostic_publication.py`) | documents, deadlines, latest texts, contributions of each root | reader thread; main loop with one handler per message | editor, compiler | edits during a check, closing, imports, shutdown | latest texts checked, errors shown, retired markers cleared |
| Supervisor (`lsp/supervisor.py`) | what the client waits for, versions, the worker's fate | incoming and outgoing threads, watchdog | editor, language server | hangs, exits with output in the pipe, broken pipes | healthy worker not killed, hung one killed, exit status truthful |
| Formal artifact provider (`formal_artifact_provider.py`, `common/atomic_io.py`, `common/content_cache.py`) | LRU, flights, diagnostics; the cache directory | `memoize`, `clear_memory` | threads of `candidate_equivalence`, other processes | single flight, failure of the leader, kill during publication, damaged entries | one flight, nobody left waiting, only decisive values kept, no torn entry |
| Credit interfaces (`simulation_credit.py`, `simulation_vc_credit.py`, `simulation_protocol_shared.py`) | a counter of credits at the sender, one of words at the receiver, per channel | clock edge, reset, failing check | sender's and receiver's logic | both ends count at once, limits, register width | no credit lost or made up; a check fails only for a real mistake |
| Request/response (`simulation_request_response.py`, `simulation_protocol_hierarchy.py`) | outstanding counts; ledger of identifiers | clock edge, reset | requester, responder, FIFOs between | counting at each end by its own transfers, removal and reuse of a slot in one cycle | responses answer the right requests; no slot lost |
| Elastic and ready/valid (`simulation_elastic.py`, `simulation_ready_valid.py`, `simulation_protocol_adapters.py`) | buffer, stage flags, schedule state, credits | clock edge, reset | wired end to end | stalls, bubbles, retire and capture at one edge, a ring of waits | the whole chain is a bounded queue and flows |
| Control and status registers (`simulation_csr.py`, `backend/systemverilog/csr.py`) | sticky, pulse and rw fields, post-accept events | clock edge with an access | driver program, hardware | hardware sets what software clears | no event forgotten, each command taken once |
| Rule scheduler (`ir/state.py`, `selection_lowering.py`, `simulation_edge_lowering.py`) | FIFO occupancies, registers | clock edge: search, fire functions, commit | SystemVerilog and native simulation | two algorithms that must agree; legality that smaller selections do not inherit | the best legal selection, both ways; FIFOs stay in range |
| Verification bundle (`verification_bundle_execution.py`) | work directory lease, job results, result cache, report | staged run on a pool | solvers, other processes | failing and skipped jobs, vacuity, kills, damaged cache | a report claims only what is so |
| Build publication (`build_publication.py`) | manifest and files | validate, rename, validate again, remove | users, other builds | edits and kills between the steps | a manifest at rest is true of its files |
| Tooling session (`tooling_session.py`, `incremental_workspace.py`) | semantic snapshots, compilation sessions | `semantic_snapshot`, refresh, clear | language server, file system | files that change during a check | an answer is of files of its own time |
| Parser, semantic analysis, IR, optimizer, scheduling, CLI, native simulation, editor extension, standard library | none that is shared, or external | | | size | not modelled (section 7) |

## 2. Modules

| Module | Models | Extends / instantiates |
|---|---|---|
| `BoundedQueue` | the abstract specification of a ready/valid crossing or stream | |
| `AsyncFifo`, `MCAsyncFifo` | the asynchronous FIFO | `INSTANCE BoundedQueue` |
| `AsyncFifoProofs` | its theorems | `AsyncFifo`, `NumberProofs` |
| `Handshake` | the handshake crossing | `INSTANCE BoundedQueue` |
| `WireCrossings` | level and pulse crossings | |
| `WireCrossingsProofs` | its theorems | `WireCrossings` |
| `PacketArbiter` | the packet arbiter | |
| `StreamChain` | buffer, elastic region and credit adapters, composed | `INSTANCE BoundedQueue` |
| `StreamProofs` | the theorems about both | `PacketArbiter`, `StreamChain`, `NumberProofs` |
| `CreditLink` | credit and virtual-channel credit endpoints, composed | |
| `RequestResponse` | requester and responder, composed; out-of-order ledger | |
| `CsrBlock` | control and status registers with a driver | |
| `InterfaceProofs` | the theorems about credits, requests and registers | `CreditLink`, `RequestResponse`, `CsrBlock`, `NumberProofs` |
| `MCLinks` | runs the eight protocols above | all of them |
| `LinksProofs` | the theorems about the handshake, and about the eight as `MCLinks` composes them | `MCLinks`, `StreamProofs`, `InterfaceProofs`; `INSTANCE AsyncFifoProofs`, `WireCrossingsProofs` |
| `RuleScheduler` | the scheduler of rules | |
| `ArtifactProvider`, `MCArtifactProvider` | formal artifact provider | |
| `VerificationRun` | staged verification of a bundle | |
| `Publication` | publication of a build manifest | |
| `ToolingSession` | snapshot cache over compilation sessions | |
| `MCFlows` | runs the five parts above | all of them |
| `FlowProofs` | the theorems about the five parts, and about them as `MCFlows` composes them | `MCFlows`, `NumberProofs` |
| `LspServer`, `MCLspServer` | language server and its client | |
| `Supervisor`, `MCSupervisor` | supervisor composed with the worker | `LspServer` |
| `LspProofs` | the theorems about server and supervisor | `Supervisor`, `NumberProofs` |
| `NumberProofs` | least elements, induction and recursion up to a bound, powers of two and division by them | |

Definitions keep the names of the source. An operator whose comment begins with
"Mutant" is a plausible mistake in the definition that follows it; with the
mistake in place TLC refutes the property listed with it in `PROJECT.json`.

### Crossings

A step is an edge of one clock, of the other, or of both at once. In a
simultaneous edge each bit of a multi-bit pointer that is being sampled is
taken before or after its change, independently (`Sampled`). A metastable flop
is taken to settle to either value. The equations of `AsyncFifo` are one
operator per entry of `build_async_fifo_controller`, which the simulator and
the SystemVerilog emitter share; `SourceRegisters` and `DestinationRegisters`
are the two `always_ff` blocks, with their synchronous reset branch.

Reset: both domains of a crossing "participate in a coordinated reset episode"
(`docs/hierarchy-protocols.md:452`).
In the models the two resets are asserted together, neither is released before
both domains have had an edge, and they are released in either order, any
number of edges apart (`AssertReset`, `ReleaseSource`, `ReleaseDestination`,
`cleared`). Conditioning of asynchronous resets is not modelled. `delivered`
(FIFO, handshake) and `owed`, `steady`, `settled` (wires) are history
variables.

### Packet arbiter

`Edge` is a clock edge with what the sources offer and whether the destination
is ready. Sources keep the rule that `_PacketStallTracker` checks: a refused
beat is offered again, unchanged. The payload is the name of its source.
`offered`, `transferred`, `under_way` and `bypassed` are history variables.

### Streams

`StreamChain` wires the stores of one clock domain end to end: a buffered
connection, an elastic region (the pipeline whose stages advance together, or
the temporal schedule that shares a multiplier over several cycles),
`rv_to_credit`, and `credit_to_rv` with its buffer. `ChainEdge` is one edge of
all of them: each is given what the next makes of this cycle, as the
combinational wires do. `build` chooses between the two backends, which differ
when a FIFO is asked for what it cannot do: SystemVerilog ignores the request,
native simulation refuses the edge (`refused`) and commits nothing. A product
of a word stands for the word, and a sum of products of different words is
`Garbled`. The refinement maps the contents of all stores, in order, to a
`BoundedQueue`.

### Credit link and request/response

`CreditLink` connects the counters of a sender and a receiver by wires, for one
channel or several that share the wires. Counters have the width of their
registers. `held` is a history variable, the words sent and not given back; a
return of a credit that is not owed is an input the receiver's logic may make,
and `LinkAlarm` is the check that then fails.

`RequestResponse` has an in-order requester and responder, connected by wires
or FIFOs, and the out-of-order requester with its ledger of slots, whose
responder may err. As in the code, each end counts at its own transfers, so that
a request that waits in the FIFO is outstanding for the requester and unknown to
the responder; `docs/hierarchy-protocols.md` counts differently (section 6).

### Control and status registers

`CsrBlock` has one field of each kind that has state: a sticky w1c field with
either priority, a pulse field on command wires, and a rw field with a
post-accept event. One access and any set of hardware events share an edge. The
driver (read, clear what was read, then command) is external; it is the use
that the w1c policy exists for.

### Rule scheduler

For every state of the FIFOs and every set of rules that ask to fire,
`SelectionExact` compares three things: the selection found by the search of
`select_action_groups`, the fire function of each rule that
`selection_regions_for_transition` derives, and the definition: the legal
selection that no other legal selection precedes by priority. `conditional`
chooses between the two ways the code treats a rule's actions. `SchedulerEdge`
then lets the FIFOs do what fires, unchecked, as the code does.

### Verification, publication, tooling

`VerificationRun`: a process takes the lease of the work directory, runs the
jobs of the bounded stage in any order, looks each up in the result cache
first, revises vacuous passes, and goes on to the proof stage only when every
safety job passed. Processes are killed, entries damaged. Solvers are external
and truthful, or give up.

`Publication`: one root source, one generated file, the manifest. A build writes
the generated file, takes its digest from the file (`RecordRtl`), and validates
the two files before and after the rename. `validate_published_file_map` goes
through the files in the order of their logical paths, `backends/...` before
`sources/root.zhl`, so that the generated file is compared first, both times.
Users edit both files, builds share the paths and may be killed. `owner`,
`killed` and `touched` are history variables that say which windows the second
validation can close: a change after the last look at a file cannot be noticed
(for the generated file that look is `RecheckRtl`, so that an edit during the
recheck of the source is not noticed; for the source it is `RecheckSource`), a
killed build cannot clean up, and a build removes only what it believes its own.

`ToolingSession`: a request looks for an entry by signature (`Lookup`,
`LookupHit`), then by fingerprint (`HashFiles`, `RehashHit`), and computes
otherwise, through the incremental session. That compares its own fingerprint
(`Reuse`, `SetAside`) and if need be discovers the workspace: the names, all
files, all files once more, the imported ones once more (`Discover`,
`LoadSources`, `ValidateGraph`, `Resolve`). The session that was set aside is kept
after all if the same imported files and names were found (`KeepOld`). A session
keeps what it has made, its product or the exception of its first check, and
gives it again without looking at the files (`Make`). Each reading of all
signatures, of all digests or of the names is a step, and files and names change
between any two. `seen` has the imported files and the names since the request.

### Language server

The reader thread (`Observe`) notes the newest text and queues the message; the
main loop takes deadlines (`TakeDue`), computes a publication (`BeginPublish`),
and after that writes or drops it (`FinishPublish`), so that the reader may run
between the two. Each handler is an action. All deadlines have the same delay,
and the documents of one project share one deadline, so that the scheduler is
the set of documents that have one; which of those is due is a choice.
The compiler is `Report`: the errors of a root and of what it imports.

### Supervisor

`Supervisor` extends `LspServer`: the worker's main loop is `Main`, and its
reader takes from the pipe. The worker may `Hang` in a check or a request. Time
is one assumption: a worker that makes progress answers within
`WORKER_TIMEOUT_SECONDS`, so that the timeout passes only when it has hung, or
has come to rest without answering.

### Artifact provider

Each action is one critical section of the provider's lock or one access to the
cache directory. The leader's path is `Load`, `Prepare`, `Stage`, `Replace`,
`Remember`, `Finish`, any of which may fail where the code can raise. Sessions
are killed at any point (`Crash`), files are damaged or misfiled (`Tamper`),
callers alter shared values (`Alter`).

## 3. Runs

| Run | Bounds | Shows |
|---|---|---|
| `async_fifo` | 4 words, 2 payloads | `TypeOK`, `NeverOverrun`, `NoCollision`, `StalledBeatHolds`, `ImplementsQueue`; `GrayFacts` for 4, 8, 16 and 32 words |
| `links` | handshake: 3 payloads; FIFO: 4 words, 1 payload; arbiter: 3 sources, both policies and scopes; chain: both builds and regions, 2 stages, buffer of 1, 3 credits, 2 payloads; credit: 2 credits, 2 channels, both families; requests: 3 outstanding, wires or FIFOs of 1, both orderings; registers: 2 bits, both priorities | `LinksTypeOK`, `OneWave`, `HeldWhileOffered`, `WiresExact`, `BoundedBypass`, `CreditsExact`, `LedgerExact`, `NoEventForgotten`, `ImplementsQueue`, `PacketsContiguous`, `GrantedBeatHolds`, `ChainImplementsQueue`, `CrossingsProgress`, `NoStarvation`, `ChainFlows` |
| `flows` | provider: 1 session, 2 threads, 3 recipes, LRU of 2; scheduler: 3 rules, every acyclic priority, 5 programs over 2 FIFOs of 2 and 2 registers; verification: 2 processes, a safety job and its cover; publication: 2 builds, 2 versions; tooling: 2 contents, 2 inventories, 2 writes | `FlowsTypeOK`, `OneFlight`, `NoRepeat`, `NoOrphan`, `OnlyDecisiveKept`, `SelectionExact`, `ReportsAreSound`, `RestingManifestTrue`, `SnapshotsCurrent`, `NeverTorn`, `CallsReturn` |
| `lsp_server` | 2 documents and a library, 2 texts, 4 messages | `TypeOK`, `ReportsAreCurrent`, `EveryErrorShown`, `ClosedContributeNothing`, `ComesToRest` |
| `supervisor` | 1 document, 2 texts, 4 messages | `SupervisorTypeOK`, `NothingOwedAtRest`, `SuccessMeansAnswered`, `RequestsEnd` |
| `lsp_retired`, `lsp_env`, `lsp_stale`, `supervisor_hang` | 1 document, 2 to 4 messages | violations, section 6 |
| `credit_receiver` | scalar link, 3 credits | violation, section 6 |
| `buffer_stall` | native build, 1 stage, buffer of 1 | violation, section 6 |
| `stale_snapshot` | as in `flows` | violation, section 6 |

`links` and `flows` each ask one question of several parts that do not interact
in the code: do the protocols that carry words keep them, and do the caches and
publications tell the truth. The initial state chooses the part that runs; the
others stay as they begin, in one fixed state, so that the state space is the
sum of the parts and not their product. The parts that do interact are composed
in a module: the stores of a stream in `StreamChain`, the two ends in
`CreditLink` and `RequestResponse`, hardware and driver in `CsrBlock`, worker
and supervisor in `Supervisor`.

Why the bounds are enough to see the interesting cases:

- Four words is the least depth that the FIFO accepts; the pointers wrap, the
  FIFO fills and empties, and every phase of the two clocks occurs, because
  nothing bounds the length of a behaviour. Two payloads tell words apart; the
  progress of the FIFO in `links` does not depend on them, so that one is
  enough there. The theorems cover other depths.
- The hardware parts are unbounded in time. Three sources is the least number
  that is no power of two; `bypassed` is capped at `MaxBypass`, one more than
  the bound that is claimed. Two stages are the least with a bubble between
  beats, and three credits the least number that exceeds what the pipeline can
  have under way.
- The credit link of `links` has two credits, a power of two, because the
  scalar receiver is right only for those; `credit_receiver` has three. Three
  outstanding requests let a slot be removed, reused and removed again while
  two others are pending.
- Three rules are the least for a push that is legal only with a pop of a rule
  that itself competes with a third. The programs are a pipeline, rules that
  contend for one FIFO and register, rules that pass words back and forth, and
  register writes only.
- Two processes and two builds are what it takes to overwrite each other's
  files. Two writes are enough for one before and one after each reading of a
  fingerprint, and for a file that changes and changes back. The session begins
  in one world, since worlds are only ever compared. A change is of the imported
  files, or of the other ones and the names.
- Four messages are enough for open, edit during a check, close and reopen of
  a document while another imports it; the versions and the queues are bounded
  by `MaxMessages`.
- Three recipes, one for each way in which an entry is guarded, contend for an
  LRU of two, so that entries are evicted while flights are under way. One
  session is enough: what another does to the cache directory is among what
  `Tamper` may do at any moment, and sessions share nothing else. The theorems
  cover any number of threads.

## 4. Fairness

- Crossings: both clocks run; a reset that is asserted is released; the
  destination does not refuse a beat for ever (`WF` of an edge with ready).
  These are assumptions about the surrounding design, not about the crossing.
- Arbiter: the destination takes beats and packets end (`SF`, since the offer
  may change with the grant), a reset ends.
- Stream: the clock runs, a reset ends, and the sink is ready again and again
  (`WF` of an edge with a ready sink).
- What these parts owe is stated in the form []<>(nothing waits, or it is
  offered, or a reset). What waits stays until then, so that this says no less
  than that each wait leads to an offer, and TLC checks it faster.
- Language server and supervisor: every thread that can run does. Nothing
  says that a hung worker resumes.
- Artifact provider: threads run, and `prepare()` comes back or raises, as the
  tools that it calls have timeouts. Nothing is assumed of crashes.

## 5. Proofs

| Module | Theorem | States |
|---|---|---|
| `AsyncFifoProofs` | `GrayCodesSafe` | Gray codes are distinct, survive skewed sampling, and half a turn is the two top bits, for every depth |
| | `TypeCorrect`, `NeverOverrunHolds`, `NoCollisionHolds`, `StalledBeatAlwaysHolds`, `FifoIsQueue` | every property of `async_fifo`, for every depth: the invariants, the action property, and the refinement of the queue of `Depth` words |
| `LinksProofs` | `TypeCorrect`, `OneWaveHolds`, `HeldWhileOfferedHolds`, `StalledBeatAlwaysHolds`, `HandshakeIsQueue` | of the handshake: the invariants, the action property, and the refinement of the one-word queue, for every payload set |
| | `LinksImplementParts` | a behaviour of the links is one of each part that shares nothing with the others |
| | `LinksTypeCorrect`, `LinksWiresExact`, `LinksSafe`, `LinksCreditsExact` | every safety property of `links`, of its own specification: the invariants, the action properties and the two refinements |
| `WireCrossingsProofs` | `WireTypeCorrect`, `WiresExactHolds` | no pulse lost or made up, a still level arrives, for every interleaving of clocks and resets |
| `StreamProofs` | `ArbiterTypeCorrect`, `BoundedBypassHolds`, `PacketsContiguousHolds`, `GrantedBeatIsHeld` | for any number of sources, each policy and scope |
| | `ChainTypeCorrect`, `ChainIsQueue` | the types and the refinement of the bounded queue, for all depths, stages and capacities, in either build and with either region |
| `InterfaceProofs` | `LinkTypeCorrect` | the counters stay within their registers, for every capacity, a power of two or not |
| | `CreditsExactHolds` | the accounting of credits and the exactness of the checks, for every capacity and any channels: on virtual channels, or if the capacity is a power of two |
| | `LedgerExactHolds`, `RequestTypeCorrect` | for any number outstanding, any FIFO depths and any identifiers |
| | `CsrTypeCorrect`, `NoEventForgottenHolds` | for fields of any width and either priority |
| `FlowProofs` | `OneFlightHolds`, `NoOrphanHolds`, `ProviderTypeCorrect`, `NoRepeatHolds`, `OnlyDecisiveKeptHolds`, `NeverTornHolds` | every safety property of the provider, for all sessions, threads and recipes |
| | `RestingManifestTrueHolds` | for any number of builds that share the paths, with the files validated in the code's order |
| | `ReportsAreSoundHolds` | for any number of processes and any bundle |
| | `ToolingTypeCorrect`, `SnapshotsCurrentHolds` | for any roots, contents, inventories, writes and bound of the cache, with sessions that keep what they have made |
| | `SchedulerTypeCorrect`, `SelectionAlwaysExact` | for any number of rules, any program, any priorities without a cycle, any FIFOs, depth and registers |
| | `FlowsImplementParts`, `FlowsTypeCorrect`, `FlowsSafe` | a behaviour of the flows is one of each part, and so every safety property of `flows` holds of its own specification |
| `LspProofs` | `LspTypeCorrect`, `ReportsAreCurrentHolds`, `ClosedContributeNothingHolds`, `EveryErrorShownHolds` | for any documents, texts, imports and number of messages |
| | `SupervisorTypeCorrect`, `SuccessMeansAnsweredHolds`, `NothingOwedAtRestHolds` | the same, and the worker may hang, exit or be killed at any moment |

*Asynchronous FIFO.* `NeverOverrun` is not inductive: a writer that is not full
may push, and whether that is safe depends on the stale copy that `full` was
computed from. The inductive invariant `Inv` adds that every Gray register
holds the code of a pointer (`Coded`), that the reset episode is coordinated,
and `Working`: going round the circle of `2 * Depth` positions from the
writer's oldest copy of the read pointer through its newer copy, the reader,
the reader's two copies of the write pointer to the writer is at most `Depth`
steps, and fewer than `Depth` unless `full`. Each edge moves some of the five
marks forward without passing the next one (`Advance`); `WorkingStep` and
`EdgeStep` carry this through the registers. `NoCollision` follows because a
word that may be fetched lies strictly behind the reader's copy of the writer,
which is less than `Depth` behind a writer that may write. For the queue
(`FifoIsQueue`) the words lie in the memory from the reader's pointer to the
writer's: a push writes a cell that is none of theirs and adds one at the end
(`PutAppends`), a read moves on by one (`TakeTails`), and the word the
destination takes is the head because `read_data` was fetched from a cell that
has not been written since.

What remains is what the crossing asks of Gray codes, `GrayFacts`
(`GrayCodesSafe`). Two pointers of one code have the same top bit, and then the
same next bit, and so on downwards, so that they agree (`GrayInjective`). An
increment changes one bit of the code: below the lowest zero of the pointer
every bit is one and becomes zero, above it nothing changes, and a code bit is
the sum of two neighbours (`IncrementOneApart`); at the wrap only the top bit
differs (`WrapOneApart`). If two codes differ in one bit, a word sampled bit by
bit from them is one of the two (`OneApartSampled`). Adding `Depth` changes the
top bit of the pointer and so the two top bits of the code (`GrayHalfWay`). All
of it rests on how `2^n` doubles and how division by it halves
(`NumberProofs`). The only assumptions are `DepthAssumption` (a power of two,
at least 4, which the source enforces) and `ZeroAssumption`. TLC evaluates
`GrayFacts` for depths 4, 8, 16 and 32 as well (`MCAsyncFifo`).

*Handshake.* `Inv` is `OneWave` with the types and the reset discipline: of the
five places on the way request, two flops, acknowledge, two flops, at most one
separates different values. Ready means that none does, valid that the one is
just before the acknowledge, so that they exclude each other. The refinement
maps a toggle under way to a queue of one word.

*Artifact provider.* `OneFlight` and `NoOrphan` are inductive together with the
types of the tables (`FlightInv`): that a waiter's leader works needs the table
to name only working threads, and that the table may be cleared by `Finish`
needs that nobody else leads that recipe. `ProviderInv` adds the memory: a
recipe that the memory has is nobody's flight, because the leader remembers and
leaves the table in an order that the lock makes indivisible for the others;
the LRU keeps its bound; and what a leader holds from the moment it was loaded
or prepared is a decisive value of its own recipe. `NeverTorn` is an action
property: of the steps of a publication only `Replace` changes the published
file, and it does so by a complete one.

*Level and pulse crossings.* `WireInv` counts the changes along the toggle, its
three flops and the pulse the destination sees now: outside a reset episode
that number is `owed`. A level that was still for two destination edges is in
both flops.

*Packet arbiter.* `BoundedBypass` is not inductive: how often a source may
still be passed over depends on where the priority pointer stands. `LineMoves`
bounds the sum of `bypassed` of a source and its place in line, counted round
from the pointer; every grant to another source moves the pointer to just after
that source, which is nearer. `PacketsContiguous` needs that the source of the
packet under way holds the grant (`OpenPacketIsGranted`), and
`GrantedBeatHolds` that a refused beat is offered again (`RefusedIsHeld`).

*Stream.* Each part that stores words is shown to move them: with what enters
at its end appended, it is what leaves at its front before what is left
(`Moves`). For a FIFO this takes the place of the pointers round its memory
(`FifoMoves`); the stages of the pipeline are a recursive function, and
induction over them is by the first stage that would fail (`UpTo`); the
temporal schedule holds one word, and both products are of it (`OneWord`).
Parts in a row compose (`TwoInARow`), and a move of at most a word at each end
is a step of the queue (`QueueStep`). `ChainInv` adds that credits and words in
the receiver are its capacity together, so that what is sent is accepted, and
that a word is only let in where one leaves the full part (`RoomForPush`).

*Credit link.* `LinkInv` says what every counter holds for the words `held`:
the sender `Capacity - held`, a virtual-channel receiver `held`, and the scalar
receiver, which counts the wrong way, `Modulus - held`. It is inductive for
every capacity, also where the checks are wrong, because `Width`, the bit length
of the capacity, makes a register that can hold it (`WidthFacts`); the types
follow (`LinkTypeCorrect`). From it the sender's check and the receiver's
underflow check fail together. The overflow check of the scalar receiver looks
for `Capacity`, which is `Modulus - Capacity` only if `Modulus = 2 * Capacity`,
that is exactly for a power of two (`PowerCapacities`). `CreditsExactHolds`
therefore has the hypothesis that there are only virtual channels or that the
capacity is a power of two (`Sound`); the run `credit_receiver` shows that it is
needed.

*Request/response.* In order, requests on their way, requests at the responder
and responses on their way back are three queues in a row; appended, they are
the outstanding requests, and both counts are lengths of parts of them. Out of
order, the slots that are in use hold distinct identifiers, and these are what
is outstanding, so that a response removes one slot and a slot freed and taken
in one cycle is not lost.

*Control and status registers.* `NoEventForgotten` is inductive with the types.
An edge takes a bit out of the status field only if the driver writes it, and
the driver then holds it, whether or not hardware raised it at that edge.

*Publication.* `ManifestUnderReview` says what is known between the rename and
the verdict: the owner of the manifest compares with the version the manifest
records; when it has compared the generated file for the second time that one
agrees, and after the verdict the source does too, as long as nothing was
touched and nobody killed.

*Verification.* The inductive invariant follows a result from the solver to the
report: the lease has one holder, entries of the cache under a key of the
present design are true, results of a process are true or not yet revised, and
the proof stage is entered only when all safety jobs of the bounded stage
passed and were revised.

*Tooling session.* `ToolingInv` dates the entries: a snapshot kept with the
present signature has the digests of the present files, since a signature is
read before the digests that are kept with it and every write of a file changes
it (`Dated`). For a request under way it says what each phase has learnt: when
the signature has matched, the imported files of the entry are among those of
the request's time (`EntryKnown`); so are the digests last read (`FilesKnown`);
the session compared is there still (`SessionKnown`); and a product that was
found in its own world is current (`ProductKnown`). A session that is used again
is current because its fingerprint is, if its product is that of the fingerprint;
one that is kept is current because the fresh one has the same product.

*Rule scheduler.* The search, the greedy choice and the two kinds of fire
functions are compared by what they have in common: each gives the best legal
selection, the one that no legal selection is ahead of (`Best`), and of two
that differ one is ahead (`OneBest`). First, priorities without a cycle leave a
rule for each round, so that the order lists every rule once (`OrderFacts`). A
selection that is settled rule by rule, with a rule selected whenever some legal
selection goes on from there, ends in the best (`ChainBest`). The formula asks
for that as it stands. The greedy choice asks only for the absence of conflicts,
which is the same if there are no FIFOs, as legality is then inherited by
smaller selections (`GreedyBest`); the guards' fire functions compare whole
groups, which is the same if there are no activation conditions. With FIFOs, the
search is followed through its branches: what goes on with a rule is ahead of
all that goes on without it (`Branches`), the search passes over a rule only if
nothing legal goes on with it, and it may leave the pushes into full FIFOs to
the end because everything else that makes a selection legal is inherited
(`TakeFewer`, `SuffixMore`). With this, `SchedulerInv` (the types, and the
absence of a cycle) is inductive: what fires is legal, so that no FIFO leaves
its range. The recursions run over `0..RuleCount`. That such a definition has a
value (`Recursion`) and can be reasoned about by induction (`UpTo`) is proved
from the least element of a set of numbers, for a set instead of the operator
that the library's induction theorems take.

*Language server.* None of the properties is inductive, since they speak of a
server at rest. `LspInv` follows each document through the queue between the
two threads. `Chain` says that the messages about a document lead, one from the
other, from the state that the main loop knows to the state that the reader
saw; so when the queue is empty the two agree. `CheckedOrDue` says that each
open document has been checked as it is now, with its imports, or has a
deadline, or is in the batch being checked; at rest nothing is due.
`ClosedOK` says that a root that is closed contributes nothing. For the
markers, `ErrorsShown` says of a document that was checked and has no message
in the queue that its error is displayed, or will be by what is on its way to
the client. If the
client repeats outdated changes the reader and the main loop agree only on
which documents are open (`Agree`): `ReportsAreCurrent` and
`ClosedContributeNothing` hold even so, `EveryErrorShown` and
`NothingOwedAtRest` have the hypothesis that it does not (`~StaleChanges`). The
run `lsp_stale` shows that it is needed.

*Supervisor.* `SupervisorInv` puts a second chain, the pipe to the worker,
before the first, and accounts for everything the supervisor waits for: the
request is in the pipe, in the worker's queue or being answered, or its answer
is in the pipe back (`RepliesOwed`); the publication is due or will be, or is
on its way (`PublicationsOwed`). Nothing follows the end of the input in either
queue (`EndIsLast`), so that a worker that exits of itself has answered all.

*The compositions.* `links` and `flows` check one specification each, in which
the part that runs is chosen at the start. The parts of `flows`, and five of
those of `links`, share no variable, and a step of one leaves the others
unchanged; so each behaviour is a behaviour of every part, and what is proved of
a part holds in the composition (`FlowsImplementParts`, `LinksImplementParts`).
The three crossings share their resets and two books. A behaviour of the FIFO is
then no behaviour of the handshake, since it moves the resets without the
handshake's registers, and `LinksInv` keeps the invariant of a crossing only
where it runs. Of a handshake that does not run it says that it rests, which
makes it an empty queue whatever the resets do. `MCLinks` takes the crossings by
`INSTANCE`, and so does `LinksProofs` with the modules of their proofs;
`SameCrossing` and `SameFifo` show that both copies define the same steps.

What is assumed: the named assumptions of the modules, which TLC evaluates on
every instance, and which say no more than the code checks or fixes: that a
depth is a power of two, a capacity positive, a mark for "absent" none of what
it stands beside, the documents listed in a sequence, the order in which URIs
are taken. `FifoAssumption` in `MCLinks` repeats for its FIFO what `AsyncFifo`
assumes. No fact of arithmetic is assumed. The facts about `2^n` come from the
library's `FS_SUBSET`, that a set of `n` elements has `2^n` subsets, whose own
proof takes the doubling of powers of two for arithmetic.

Only model-checked: all liveness (`CrossingsProgress`, `NoStarvation`,
`ChainFlows`, `CallsReturn`, `ComesToRest`, `RequestsEnd`) and deadlock freedom,
because `ENABLED` and fairness are out of the prover's reach.

## 6. Findings

- `lsp_retired`: a check whose result is dropped because of a newer edit has
  already replaced the root's contributions, so a marker on an imported file is
  never cleared.
- `lsp_env`: a failure to find a usable project counts as reported when the
  message is built, also if it is then dropped.
- `lsp_stale`: an outdated change is ignored by the main loop but recorded by
  the reader; later results for the document are dropped until its next edit.
- `supervisor_hang`: checks that the client has not asked for by an open or a
  change of that very document are not timed, and a publication for an older
  text strikes out the entry of a newer one.
- `credit_receiver`: the scalar credit receiver of native simulation counts in
  the sender's direction; with a capacity that is no power of two it reports an
  overflow after two words.
- `buffer_stall`: a buffered connection pushes whenever the source is valid, so
  that in native simulation a source that waits at a full buffer is an
  overflow.
- `stale_snapshot`: signature and fingerprint are read after the check; a file
  that changes in between has its new digest kept with the old product.
- `links` (`LedgerExact`): the requester counts a request when its FIFO takes it
  and the responder counts down at its own response transfer, while
  `docs/hierarchy-protocols.md:259-261` says that buffered, unaccepted requests
  are not outstanding and that the ledger moves on the responder's side of a
  request and the requester's side of a response. The property that holds states
  the code's rule, in which `request_buffer` is part of what is outstanding; that
  equality is what contradicts the document.

`PROJECT.json` quotes the lines that say otherwise.

Two more consequences of the same readings are in the model of the tooling
session, and no property is broken by them. A file that changes between the
discovery of a workspace and its fingerprint leaves a session whose first check
fails and which keeps that failure: the retry finds the session again, and so
does every request until a file or the text changes. And a session that is kept
for its unaffected closure gets the fingerprint that was compared before the
discovery, which after a change there and back is that of other files.

`SnapshotsCurrent` therefore excepts answers from an entry that was recorded
with a fingerprint of other files than its own (`request.own`), and
`RestingManifestTrue` excepts what comes after the last look at each file, which
for the generated file is before the last look at the source.

## 7. Not modelled

- Parser, semantic analysis, intermediate representation, optimizer, pipeline
  scheduling, target mapping, printing: sequential translations from one
  immutable structure to another, whose state space is the set of programs.
  They are nearly all of the 169 827 lines of the implementation. A model of
  them would be a copy of their equations, so that most lines of this program
  stay outside any faithful model, and the share that the models stand for is
  a few percent.
- Native simulation: a plan is handed to a runtime that is shipped as a binary.
- External provers and synthesis tools, the editor, the standard library.
- Asynchronous reset conditioning; statistics of the artifact provider; the
  answers to editor queries; wording of diagnostics.
- Of the tooling session: the caches of declarations, symbols, workspace indexes
  and parsed files; the removal of an imported module, after which every analysis
  fails. The eviction of a session from its LRU is `DropSession`, between
  requests.
- Of the language server: a project whose manifest cannot be read, for which an
  edit schedules only the edited document. No check reports anything then, and
  the change that repairs the manifest schedules all documents.
- Of the verification bundle: the direct (unstaged) proof run, the bundle files
  and their codec.
- Of the scheduler: the decision diagrams, which are taken for the functions
  that they represent, and the limits on their size.
- Of the protocols: aggregate connections of several interfaces, which are
  wiring; of the registers: unbound, ro and wo fields, pre-accept events and
  split views, which hold no state or are special cases of the fields modelled.
- Two builds that publish to one path, one of which removes the manifest of the
  other: the model has the step (`Unlink`), but nothing in the code or its
  documents says what is meant to happen, so that no property is stated.

## 8. Plan

The models of the plan are written, every safety property that a passing run
checks is proved, of the part that it is about and of the specification that
the run checks, and no assumption is left that the code does not make. Liveness
stays with TLC: the provers have no rule for `ENABLED`. A part that is added
would begin with the hazards of section 7 that have no property.
