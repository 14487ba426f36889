# Phasor: TLA+ models and proofs

Phasor runs JavaScript tasks as modules of a Fluxor graph. A task is an image
(verified bytecode) that arrives on a stream; an isolate builds a realm, runs the
image in bounded slices, asks the outside for things by frames on a call port, and
publishes a result, a diagnostic and an exit status. A router takes those frames to
adapters for time, entropy, storage, files, sockets, HTTP and WebSocket; other modules
compile, link and evaluate, and a shell does all of it in a session. Everything is a
bounded table or buffer, everything happens in `module_step`, and every step rebuilds
the machine from what the last one saved.

This directory holds models of the parts of that system where an order of events, or a
long sequence of legal operations, decides whether it is right; the TLC runs that check
them on small instances; and TLAPS proofs of what holds for every size. Paths below are
relative to `src/`, and in the lists of findings to `src/modules/common/` or
`src/modules/app/`.

## Inventory

| Component | State | Operations | What makes it correct |
|---|---|---|---|
| Capability table, `binding.rs` | descriptors with an in-flight count, pending calls, resources with generations, the next identifier, the saved part of it | admit, set_snapshot, begin, complete, open, resolve, release, save, restore | counts and table agree; identifiers are not reissued while outstanding; a handle names only its own resource |
| Outgoing calls, `vm/host.rs`, `phasor_isolate` | outbox, argument buffer, port staging | host_call, stage_payload, adopt, staging at a step's end, push | each call leaves once, with its own arguments |
| Job queue, `job.rs` | a ring: head, length, slots | push, pop, save, restore | first in, first out, whatever the head |
| Promises, `promise.rs`, `vm/host.rs` | state, value and reactions; the job queue | then, await, resolve, reject, jobs, completions | settle once, no reaction lost or repeated, in order |
| Isolate, `phasor_isolate` | phase, image, realm stage, seed, machine, outcome, ports | module_step, module_drain, control | only whole images run; calls settle once; silence times out; the outcome leaves, status last |
| Host router, `phasor_host_router`, `wire.rs` | outstanding slots, partial records, staged frames | module_step | one answer per call taken, whole records, no waiting on itself |
| Heap and collector, `heap.rs`, `gc.rs` | arena, slots with generations and marks, worklist, compactor | allocate, retire, shade, mark, compact | the reachable is kept, the rest reclaimed, stale handles name nothing |
| Adapters, `phasor_time` ... `phasor_ws` | sleepers, open objects and files, connections, an exchange, links; held calls | module_step of each, over a provider | every call answered once, with its own bytes; what was opened is closed |
| Shell, `phasor_shell` | a session: grants, seed, surface, task, lines, outputs | module_step | own answers, surface before program, grants narrowed first, output in order, an end |
| Compiler, linker, edge, evaluator | staged streams, a registry and a walk, ports | module_step | whole programs run; imports before importers; the outcome is told |
| Lowering, verifier, interpreter | code under construction; a frame | statement by statement; instruction by instruction | what is lowered is admitted, and does what the statement means |
| Module evaluation, `vm/modules.rs` | status, error and gate of each module | import, import.defer, use, settle | bodies once, after their imports; every import settles |
| Generators, `vm/coroutines.rs` | a suspended frame, queued requests | next, throw, return, await | requests answered in turn, as the body says |
| Objects, collections, buffers | property tables, hidden arrays, bytes and views | the operations of programs | language invariants kept across operations that nest in each other |
| Names, `vm/names.rs`, `lower/references.rs` | global records; environment chains | declare, resolve, assign, delete, eval, with | a name is what scoping says |
| Classes and private names | frames, this, brands, fields; scopes of private names | new, super(), arrows; #x | this once, fields once, the right class |
| Dynamic source, `vm/eval.rs` | one set of registers, frames | eval, Function, evalScript | the source answers the call that asked |
| Regular expressions, `regexp.rs` | program, choices, undo log, fuel | compile, match, the natives above | what is found is what the pattern means |
| Numbers, `softfloat.rs`, `value.rs`, `numeric.rs`, `dtoa.rs`, `bigint.rs` | per call only | arithmetic, conversions, reading and writing | the result is the mathematics, rounded once |
| Policy, grants, replay, front end, library | per call only | pure functions | not modelled, below |

How they interact. The isolate owns the machine, whose `host_call` takes a slot of the
capability table, puts a record in the outbox and its arguments in a buffer; the end of
the step stages both for the call port. The router takes frames from that port, gives
each a slot and an adapter, and sends completions back. An adapter asks its provider and
holds the call while that says "not yet". A completion frees the pending slot and settles
a promise, whose reactions become jobs the next `run_jobs` runs. Program code runs in
slices between which a collection may stay open. The kernel schedules modules and owns the
channels, byte streams that may take or give part of a record.

What is hard in it: bytes that arrive in pieces; answers that come late, twice or never;
buffers that fill between two related writes; state that survives a step and state that
does not; slices that stop program code anywhere; conversions that run the program in the
middle of an operation; registers shared by operations that nest; a collector that moves
cells; and stopping, at any of these moments. PROJECT.json lists each at its line.

## Modules

Calls and the task:

* **Bindings** - `Bindings` of binding.rs, one action per method that
  writes; `answered`, `releases` and `issued` are history. The identifier saturates at
  `RequestMax`, a generation wraps at `GenerationCount`.
* **CallStaging** - the way of a call's record and arguments to the port. A byte is a cell that
  knows the call it was written for. `strained` records the two situations in which
  the code is known to go wrong (below). **BindingsProofs** proves of this module and the
  one above.
* **Fifo** - what a job queue promises. The ring of job.rs, which implements it over the
  module's own slots, is the last section of Promises.
* **Promises** - promise.rs, the promise half of vm/host.rs and the settling natives, under any
  program, over the bounded Fifo that the ring implements. **PromisesProofs** proves of both
  queues and of this.
* **Isolate**, **IsolateProofs** - module_step with its four phases. The parts of `advance` are operators
  from a machine state to the set of machine states they may leave, and AdvanceStep takes
  them in the code's order. Time is not counted: `stop` stands for a cancel or a passed
  deadline.
* **Heap**, **HeapProofs** - heap.rs and gc.rs. The arena is known by its headers: what lies at an aligned
  address is the cell whose header was written there last, or bytes that are no header, so
  a copy that ran over a cell would be seen. One turn of the marking or compacting loop is
  an action. The worklist is a set: which listed cell is next is any.
* **HostRouter**, **RouterProofs** - the router's module_step in its order: take, correlate, push, finish,
  over streams of cells shorter than a record. The isolate and the adapters are environment
  actions; adapters answer in any order, twice, late, to nothing and under wrong traces.

Adapters. **AdapterPort** is what all share: a stream of calls, a buffer of completions,
and the helpers of wire.rs. **SampleAdapters** (time and entropy), **StorageAdapters**
(store and fs), **NetAdapter**, **HttpAdapter** and **WsAdapter** give each adapter's whole
`module_step` as one action over its state record; `env` is the provider, which
says anything it may at any point. A byte knows the connection, exchange or file it
belongs to and its place there.

Commands. **Shell** is the shell's module_step over one session. **Linker** is the
registry and the depth-first walk of link.rs, a loop iteration a step; **LinkerProofs** proves
of it. **Pipeline**
composes compiler or linker, isolate and edge over channels, stepped once a round in graph
order; `early` is a platform whose channels report a hang-up before the producer has
written; **PipelineProofs** proves of it. **Evaluator** is phasor_eval, byte by byte.

Language. **Lowering** says what a statement means, by structure, as events and a
completion; is lower/*.rs over emit.rs as far as control goes; and holds the verifier's
admission of what that writes. **Machine** runs it: the machine's events must be those of
the meaning. **ModuleGraph** is dynamic and deferred import. **Generators** is one
generator under any requests.

Runtime. **Regexp** is the regular expression compiler and matcher, with a meaning of
patterns that uses nothing of either. **Objects** is property tables, arrays,
mapped arguments and proxies. **Scripts** and **Scoping** are names at the top level and in
functions. **Collections** is Map and Set over hidden arrays, **KeyedStore** the finite map
they implement; the proofs stand in Collections itself. **Buffers** is array buffers and views
around conversions that run the program. **Classes** is construction and private names. **Evals** is dynamic source and the registers it is kept in.

**Numbers** is arithmetic in integers: doubles on a target without a unit for them
(softfloat.rs), what the language does with doubles (value.rs and the roots and powers of
numeric.rs) and the limbs of BigInt (bigint.rs). Its widths are constants - bits of the
fraction, the exponent, a machine word and a limb - so that a run goes through every pattern of
a small format with the same shifts, sticky bits and carries. **Numerals** reads decimal text
(numeric.rs, value.rs) and writes it (dtoa.rs, vm/natives/numbers.rs), and asks BigInt what
vm/bigints.rs asks. A behaviour of it is one computation; its last section says, in fractions of
integers and with nothing of the code, what each answer should be.

Suites. **MCBindings**, **MCPromises**, **MCIsolate**, **MCAdapters**, **MCPipeline**,
**MCLanguage** and **MCRuntime** give the constants their values. Each checks several
components that share no state: a variable `part` (or `adapter`), chosen at the start, says
which one a behaviour is of, and the variables of the others stand still. A component with
theorems is extended by its suite, so that the run checks the very definition the theorem
states; a property of another is the component's, conditioned on the part. Heap is run
directly.

Mutant operators (definitions that differ from the code the way a bug would) stand before
the definition they replace and are used nowhere else.

## Runs

| Run | Parts and bounds, and why they are enough |
|---|---|
| bindings | table: bindings with limits 1 and 2, two pending slots, one resource slot, identifiers to 4 - a full table, a binding at its limit while the table has room, saturation, a slot taken again. staging: four calls of 0 to 2 cells, buffers of 3 and 5 cells - one, two or none fit |
| promises | ring: capacity 3, each head meets each length. promises: three (symmetric), two reactions, two settling calls, a queue of two that overflows |
| isolate | two realm stages, two seed words, two modules. calls: a mapped image, two calls, two answers, one staged frame, one silent step of patience, outputs of two cells through ports of one, wired and as an event loop, the seed always given. image: 0 to 3 cells for a buffer of 2, from each source and of each kind, the seed given, refused or answered astray; no calls |
| heap | three slots, cells of 2 and 4 units in an arena of 8, a worklist of one: overlapping moves, overflow, reuse of a slot; one retirement |
| adapters | three calls each, tables of one or two, a completion buffer of three cells (four for store and fs, with payloads of two, so that a read can come short or want less than a chunk), room for one frame of ws, no quota and a quota of one: every table is full in some state, every provider says "not yet", fails or hangs up at every point |
| commands | shell: nine sessions that between them take every path of the command line, with grants, calls, prints, lines and large or absent surfaces. linker: every stream of up to three modules with up to two imports, stacks that suffice and do not. pipeline: sources of 0 to 3 cells for a buffer of 2, three outcomes, early hang-ups or none. evaluator: every text of up to four bytes and two longer ones, a width of 15. router: two calls, one slot, one frame of staging, channels shorter than a record, one stray answer |
| language | frame: every exit under up to two of nineteen statements, every outcome of every event up to five. modules: ten shapes of three modules, each body ending in each way, two imports. generator: bodies of two steps of every kind, three requests |
| runtime | collections: three keys, two walkers. objects: seven worlds. regexp: about five thousand uses. scripts: four of eleven scripts in any order. names: five places with evals, with statements and deletes. buffers: four nested operations, two buffers, three views. classes: four families, four frames. privates: three nested classes. evals: two sources, a stack of three frames, two realms. numbers: doubles of four bits of fraction and four of exponent - all 512 patterns converted and written, and pairs of those around every edge of fraction and exponent under the arithmetic, the orders and the shifts; limbs of four bits, two to a value, so that work overflows a value and then the work's own room; texts of up to a few characters in every shape the readers tell apart |
| promise_fate | FollowsFate, violated: two promises |
| isolate_stop | StopEnds, violated: no call at all |
| innermost_handler | RunsAsWritten, violated by one program of two nested try statements |
| class_fields | OwnFieldsOnce, violated by one class over another |

Deadlock is checked of the isolate, which should always have a step. The other
runs hold parts that may stop when their bounds on calls, steps or scripts are used up.

What the runs show. Where a property of a run is a conjunction, its parts are named in the
component's module, each with a comment of its own:

* bindings - CountsAgree, AnsweredOnce, HandleNamesItsResource; CarriedWithArguments
  (CarriedOnce, ArgumentsFollow and the bounds of the buffers).
* promises - IsFifo, SettlesOnce; ReactionsRun (ReactionsKept, OrderKept, PassesThrough).
* isolate - WholeImageRuns, SettledOnce, ExitIsLast, SilentCallsEnd; PhasesEnd (staging ends,
  and an outcome that is reached is published).
* heap - CellsKept (HandleNamesItsCell, ReachableKept, CountsAgree), GarbageReclaimed,
  CollectionEnds.
* adapters - AnsweredOnceEach; OwnBytes (what is written and read is the program's own, whole
  and in order); HandlesKept (what a provider has open is what the adapter has in use, for the
  call that asked); HeldAsAsked (what is held is asked again as the same call, over the same
  payload and before anything else, and what is read goes on from where it ended; nothing is
  asked before its grant or against a read-only deployment, and each adapter keeps its own
  rule of a quota. Two exceptions are in the formulas, each a finding below: the length a held
  readAt of fs comes back with, and connects of net that are out at the same time).
* commands - SessionInOrder of the shell (OwnAnswers, WholeSeedOrNone, SurfaceFirst,
  NarrowedFirst, PrintedInOrder, ExitTold); LinkedInOrder (ImportsComeFirst, ClosureWhole,
  EntryIsTheRoot, FailedIsNotLinked); EdgeTellsTheOutcome (with WholeProgramRuns and
  CompiledRuns); EvaluatesTheSum (with PrefixIsNoSource); OneAnswer of the router (ToldOnce,
  RecordsWhole and the sizes); CommandsEnd (the session ends or is
  stranded on a promise nothing can settle, a finding below; the edge ends); TakenIsTold.
* language - LoweredAsWritten (LoweredIsAdmitted, RunsAsWritten, ResolvedInItsScope);
  EvaluatedInOrder (RunOnce, OnlyWhatWasAsked, DependenciesBegin, CycleSharesError,
  FirstSettlesLast); AnsweredInTurn (AnsweredAsAsked, SettledInTurn); NobodyWaits (every
  import settles, no request is left).
* runtime - NeverTwice and ImplementsKeyedStore of collections; ObjectsSound (ChainsEnd,
  KeysAsAdded, ForInSeesVisible, WritesAgree, ReadsBack, LengthCoversIndices) and
  FixedStaysFixed (with ClosedStaysClosed); FoundAsMeant (with ReplacedAsMeant and
  PiecesMakeSubject, and for numbers AnsweredAsMeant); NamesAsScoped (NoNameTwice, RefusedLeavesNothing, VariablesAsScoped,
  ResolvesAsScoped, MethodsKept) and NamesKept (LexicalsStay, StrictNeverCreates,
  PreparedWritesItsName, ConstantsKept, ThisBoundOnce); BytesKept (WritesInsideViews,
  ImmutableKept, ResizeKeeps); ConstructedOnce (ThisAgrees, ParentsFirst,
  AnswersToNewTarget, OwnFieldsOnce, BrandedOnce); AnswersItsCall (with RealmOfItsMaker and
  BuiltForItsClass).

The type invariants of Bindings, of the job ring and of Collections, RequestsDistinct, ArraysAgree and
the order of a collection are proved and in no run.

Several of these hold only outside a situation the code is known to handle otherwise; the
property's comment names it, and it is listed below. The worlds, programs and families of
the suites are chosen so for the same reason where it is the program that decides.

In the commands run the isolate waits longer for an image (12 rounds) than the compiler
for a source (4), for its sources include an empty one. Both are parameters of a graph; with
the defaults, which are equal, an isolate behind an early channel gives up on the image of an
empty source in the round its compiler begins to work, and CompiledRuns fails.

Fairness. Fluxor steps every module for ever, so module_step of the isolate, the router,
the shell and the command modules is weakly fair, as are the readers and writers at the
other end of their channels, which are modules too. Where TLC would have to evaluate
ENABLED of a whole step this is stated as "in the end idle, or again and again a step". The
router's TakenIsTold assumes besides that adapters answer, and the shell's half of CommandsEnd that
the clock and the entropy source do, and that the terminal hangs up in the end; nothing is
assumed of who answers the isolate's calls. In the language run, what a module or a
generator awaits settles in the end and jobs run. A collection has finitely many slices (WF
of AdvanceStep in Isolate; shown of Heap by CollectionEnds from WF of Collect).
Program code is not assumed to end.

## Proofs

`BindingsProofs`, of the table, for every size of the three tables, every limit and every set of names:

* TypeCorrect, by one step per action, from lemmas on updating one entry of a table.
* CountsCorrect. CountsAgree is not inductive: the save of a table must be no older
  than the table it is adopted into (SaveAgrees), and a live call must name an
  admitted binding (LiveAdmitted), or Admit would reset a count that pending calls
  still stand behind. Begin and Complete add and remove one element of LiveOn.
* RequestsCorrect and AnsweredOnceCorrect, from RequestsBelow: below saturation, every
  identifier outstanding or answered is less than the counter.
* HandlesCorrect, from GenerationCounts (a slot's generation is its number of releases,
  modulo) and IssuedAgrees (what an issued handle says of its slot while it is current).

`PromisesProofs`, of the queue: TypeCorrect and RingIsFifo, for every capacity, zero included, and any
set of jobs. The refinement maps the ring to the sequence from its head; it rests on two
lemmas on wrapping positions: they are in range, and two offsets below the capacity have
different positions.

`Collections`, for every set of keys and values and any number of walkers:
TypeCorrect; ArraysCorrect (one length, no key twice); OrderCorrect (no operation reorders
what it keeps); NeverTwiceCorrect (no walker meets a member again while it stays), which
needs SeenBehind: every member a walker has met and that is still there lies below its
index, because a removal moves later members down and never up; and StoreCorrect: the
arrays implement KeyedStore, each operation mapping to a put, a removal, a clear or nothing.

`IsolateProofs`, for images of every length, every buffer, graph, size of the tables and
number of calls and answers: TypeCorrect, CallsSettleOnce, ExitStatusIsLast and
OnlyWholeImagesRun. AdvanceStep is a composition of operators from a machine to the machines
it may leave, so what each keeps is a lemma about MachineInv, a predicate of a machine, and
the step's lemma composes them; in it every call that was made is outstanding or settled
once. WholeImageRuns is not inductive: it needs ImageInv, that the cells of an image not over
its size are staged, on the stream or still to come, and that a stream that was written to
hangs up only after its last. ExitIsLast needs that nothing is written before the outcome is
there, so that no length changes under what was written (OutputInv).

`PromisesProofs`, for any number of promises, reactions and attempts and every size of the
queue: EveryReactionRuns (ReactionsKept, OrderKept, PassesThrough and the types) and
PromisesSettleOnce. The invariant says where each reaction is and who may settle what it
derives:

* Core. What waits on a promise was attached to it and waits in that order; what is queued is
  the job of a reaction to a promise that has settled, with its outcome; per promise, what ran
  comes before what is queued, and both keep the order of attachment. Settling moves a whole
  list of waiting reactions behind the queue, which keeps that order only because no reaction
  of a promise that is pending is queued yet.
* Placed and Emptied, while no push has been refused: a reaction waits if its promise is
  pending and is otherwise queued or has run. It is here that a queue without room loses
  reactions, and the premise of ReactionsKept is the code's own: the task then ends.
* OwnDerived and Passed. The promise a reaction derives is its own, and until the reaction has
  run no job, no other reaction, no function the program holds and no call names it; so what a
  reaction without a handler passes on is what the derived promise settles with, and stays.

TLC checked that invariant, on three promises and on a queue of one, before it was proved.
FollowsFate is the property that is false (promise_fate).

`RouterProofs`: CallsAnsweredOnce, for any number of calls and every size of the table, the
buffers and the channels. None of its three parts is inductive, for the table's slots depend
on what was read, and what is read on where the cells of a record are. The invariant:

* Line. What a reader has, what its stream holds and what is still to be written, one behind
  the other, are whole records but for the front. A move along the line changes nothing in
  it, so it is stated of the line and of no single buffer; TakenRecord then says that what a
  reader takes from the front is one whole record, and what is left is a line again.
* CallsOk. The isolate's line ascends in its requests and holds none the router has taken, so
  a call is read once, for all the pieces it came in.
* Answered. A request that was taken has one slot or was told once, and one that was not has
  neither. Correlate frees the slot in the step that stages the answer; that the answer finds
  room is the guard RoomToAnswer, without which a reply would free the slot for nothing.

A step of the router is a composition of six operators, each with a lemma that it keeps the
invariant (Good); the actions of the isolate and the adapters move or lengthen one line.
Its premise PayloadsFit, that no payload is over the profile's bound, is needed: the code
cuts one that is and reads the rest as the next frame (Findings).

TLC checked this invariant too before it was proved.

`HeapProofs`: CellsAreKept, that is CellsKept (TypeOK, CountsAgree, HandleNamesItsCell and
ReachableKept), for every size of the table, the arena, the worklist, the header and the
cells and every bound on generations, before, during and after a collection. What
heap.rs relies on and no variable says is the shape of the arena:

* LayoutInv. The cells lie one behind the other (Tiles), from 0 to what is used, or while
  cells move, in two runs: those that have their place, up to compact_write, and those not
  read yet, from compact_read on. Each slot in use points at the cell that was allocated with
  it, and with no slot retired by hand each cell has such a slot. A cell that moves down
  overwrites what is below compact_read and nothing else, which is why no header of a cell
  not yet read is lost; the arithmetic is that of multiples of the header (AlignUp, AlignPast).
* Issues. What the machine or a cell holds was issued, a generation that was issued is not
  past its slot's, and is before it where the slot is free; so no handle is issued twice
  before its slot's generation is worn out.
* Kept and Tricolour. A set of handles that holds the roots and all its cells hold (Closed)
  resolves, and while cells move is black. While marking, a black cell names no white one,
  so that with no grey slot left the black ones are such a set, whether or not the worklist
  had room for them. Sets that are closed hold what is reachable: the recursion of
  ReachableIn is unfolded from its finite approximations (Iterated).
* Counts. Freeing takes one from the count and pulls the hint back (Freeing); where a
  generation is worn out a stale handle may free a slot twice, and CountsAgree says nothing.

TLC checked this invariant too, on the bounds of the heap run.

`BindingsProofs`, of the way to the port: CallsCarried, that is CarriedWithArguments (StagingTypeOK, CarriedOnce
and ArgumentsFollow), for every size of the outbox, the buffers and the arguments and any
number of calls. That a frame is followed by its own arguments is decided when they are
written, and seen when they leave; the invariant carries it over:

* Placed. Within a step the arguments of the records that wait lie behind each other, each
  from where the last one's end. Before a call they end at payload_length, or the table is
  full: host_call stages the bytes before it asks for a slot, so a refused call leaves bytes
  behind that no record names, and only a call begun after it in the same step would find
  its own at the wrong offset. None is, for answers come between steps.
* Whole. The cells on the port are calls of a frame and all of its arguments, no call twice;
  what a step stages behind them keeps them so (Coupled), by induction along the outbox
  (StagedWhole), and what the port takes changes nothing in it (CarriageMoves).
* Shared. The calls framed and the calls that wait are the calls made, none of them both.
* What waits past a step has no arguments, or the state is strained: the next step attaches
  the buffer afresh and its offsets begin at 0.

The types hold in strained states too: Staging takes no more room than Needed, which Fits
asked for. The local functions of Offset and Staging are unfolded from their finite
approximations (BuiltUp). TLC checked this invariant before, on the bounds of the bindings
run.

`LinkerProofs`: LinkedInOrderCorrect, that is LinkedInOrder (ImportsComeFirst, ClosureWhole,
EntryIsTheRoot and FailedIsNotLinked), for streams of any length, with any imports, cyclic
ones and imports of oneself included, and every depth of the stack. Reachable(i), what a module leads to, is
defined without recursion, as what is in every set that is closed under imports and holds the
module's own; so a path is extended by an instance of the definition and needs no induction.
The invariant speaks of n modules and the graph g of their imports alone (WalkInv):

* Marked and Stacked. The mark of the walk, the status in the registry and the order say the
  same of a module, and those being visited are those on the stack, once each.
* Path. Each module on the stack imports the one above it, so each leads to all above it.
* Passed and Followed. What a cursor has passed is visited; and of what a module that is done
  imports, each is done before it or leads back to it. When the top is finished, an import
  that is not done is below it on the stack, and leads to it by Path. That is the only way
  a module comes before what it imports, which is what "cycles apart" says.
* Topmost. Nothing comes after a root, a module no other imports, of what lies before it, and
  when it is the last of the stream nothing comes after it at all; that gives the entry.
* Ordered. The orders are 1 to the number of modules done, one module each; when all are done
  that is a bijection of n modules, so the closure's CHOOSE is its inverse.

That FailedIsNotLinked holds is HalfLinked: a walk that fails leaves the module it could not
push in linking, and a failure before the walk leaves nothing ordered. TLC checked this
invariant too, on the bounds of the commands run.

`PipelineProofs`: EdgeTellsTheOutcomeCorrect, that is EdgeTellsTheOutcome (with WholeProgramRuns
and CompiledRuns), for every set of sources and outcomes, every size of the buffers, every
wait and every way the channels cut what is written. None of its parts is inductive: what the
edge writes depends on what crossed three channels before it. The invariant (GraphInv) is of
a record of the modules and the channels, since a round composes the steps of the
producer, the first module, the isolate and the edge, each with a lemma that it keeps the
invariant (ProducerKeeps, FirstKeeps, IsolateKeeps, EdgeKeeps, composed in RoundKeeps):

* Typed. A stream is of one kind of cell, and so known by its length.
* Reading, Imaging, Diagnosed, Telling and Resulting. Of each channel: what was written is what lies in it and
  what its reader has, and what is still to be written is left with its writer; a
  stream is closed only when nothing is left. So a reader that finds the end has the
  whole, or has overflowed, or nothing was written at all.
* InTime. That the isolate does not take "nothing was written" for the end of an image still to come
  is a count of rounds: its wait so far and the rounds the first module has left at most
  (Remaining) stay within its limit. A round lowers Remaining while the image is not begun.
* Exiting. What the edge answers is the outcome of the phase that decided it, and what it has
  told by then is that phase's diagnostic or result.

Its premise Patience is needed where channels report a hang-up early, and says nothing
elsewhere: the compiler outwaits the slowest source, and the isolate outwaits the compiler's work
on it. The code's defaults, 64 steps for both, satisfy it for a source that is not empty and
arrives and is told within about 55 rounds ("Every real producer writes within a few steps",
phasor_compile/mod.rs:128); for an empty one they do not (Findings). TLC checked the invariant
before, between the steps of the modules as well as between rounds.

Assumptions are the named ASSUMEs of the modules, or the same formulas as hypotheses
(IsolateAssumption, PromisesAssumption, RouterAssumption, PayloadsFit and Patience); TLC evaluates them
in the runs. But for PayloadsFit and Patience they bound nothing: sizes are naturals, and
NoPromise is no promise.

Only model-checked:

* Liveness: fairness and ENABLED are out of the prover's reach here. That is every property
  that ends in "End", "Ends", "Told" or "Waits".
* GarbageReclaimed: it sums the lengths of the slots in use, a fold over a set, and that the
  folds of two sets agree is an induction over data.
* LoweredAsWritten and FoundAsMeant: Lowering, Regexp and the numbers are recursive over
  statements, patterns and digits, and a module that declares a recursive operator cannot be proved about.
* The properties of the adapters, of the commands other than the router, the linker and
  the graph, and of the language and runtime parts other than collections: no proof of these has been made yet; Plan says in which order they are worth it.

## Findings

The four violation runs show code that does not do what its text says:

* promise_fate - a promise resolved with another promise can be settled otherwise
  before the adoption runs (vm/host.rs:961, against jobs.md:28).
* isolate_stop - a task that waits on a promise nothing settles is never stopped
  (phasor_isolate/mod.rs:1333, against the comment at 2191).
* innermost_handler - a throw in a try whose body returns, inside a try with a finaliser,
  goes to the outer handler (lower/functions.rs:877, against the comment at vm.rs:1406).
* class_fields - a derived class without fields of its own initialises its parent's again
  (lower/functions.rs:926, against the comment at 899).

Met while modelling, and kept out of the way of the passing properties:

* Isolate and calls. A call with arguments that waits for room past its step is forgotten,
  the arguments' length not being saved (mod.rs:1398, against 1378). Promise jobs run
  between two slices of a body (mod.rs:1334, against jobs.md:19). The quota error of a
  completion that found the job queue full is dropped (1229). Calls are answered while a
  collection is open (1365, against 1196). draw_seed waits without counting silent steps
  (547). A call staged in the step a task ends is never pushed (2395). Failures at 972,
  1281 and 1457 have no diagnostic. host.rs:1297 writes arguments at an offset read before
  their conversion, which may make a call of its own.
* Tables. binding.rs:398 wraps a generation the comment at 229 says never wraps; heap.rs:397
  saturates one but still issues the slot; heap.rs:561 frees the slot a dead header names
  though it may have been retired and taken again.
* Router. An over-long payload is cut and the rest read as the next frame (494, against 84);
  an isolate that hangs up inside a record keeps the router from finishing (553); no call
  has a timeout of the router's own (104).
* Adapters. net: a close leaves held receives, two dials can cross, a connect
  refused for want of a place is dialled all the same, a reply without room on
  the lane is dropped; the quota that stops connects
  counts every answer (phasor_net/mod.rs:453, against "Connections this adapter will open" at
  190), and connects out at the same time can exceed it. http: a close leaves held calls; narrowing to an empty list lifts the
  policy (648). ws: a close can be told before the last message (647); a
  close that finds no room for a frame is fulfilled though the provider is never told
  (phasor_ws/mod.rs:562); an open refused for want of a place among the held calls has been
  staged for the provider all the same (500), which is modelled, takes four calls and so is
  not met at the run's bounds. store: entries are
  never closed; a hang-up with a call held ends the store and fs adapters with it
  unanswered. time: a sleep is not charged to the quota. fs: a held open is answered as
  unavailable when it is asked again; a held readAt is asked again for a whole chunk
  (phasor_fs/mod.rs:757) where its first attempt asks for no more than it wants (481), so it
  can bring more bytes than the program asked for. FsReadsGoOn bounds a read that was not
  held by its length and one that was by the chunk, and holds both to the order of the file.
* Shell. One list of origins serves all grants, and net and ws do not know the method that
  narrows; a narrowing cut by its wire is not resumed; 16 bindings are fewer than the 31
  members that may be granted; calls that do not fit a wire are forgotten when another is
  staged; printed text without room is lost at the end, and an uncaught error is told before
  text printed in the same slice; the seed and the first clock reading are waited for
  without limit; an unfinished line at a hang-up is lost; the clock moves within a turn, and
  a timed-out continuation sees a stale one. A task whose value is a promise that nothing
  settles, such as `new Promise(() => {})`, runs for ever: it has no call in flight, so the
  wait for calls never applies, and the session does not end (phasor_shell/mod.rs:1508-1529).
* Commands. A failed link leaves modules ordered and has no diagnostic, and the edge exits
  0; the edge has no wait for an early hang-up and one frame buffer for two ports, the isolate's
  default wait is the compiler's and so one that an empty source outlasts, and a
  second diagnostic would hold it; a result is cut at 1024 bytes. The evaluator's overflow
  lies past its fuel.
* Lowering and verifier. Some legal programs are refused: exits across two finalisers with
  a context between, a break first in a finally's block, a for-of with its own context
  around a try that returns, nested for-of with return, `continue` to an outer of two
  labels. for-of with using: continue skips the disposal, and a disposer that throws leaves
  the iterator open. Nested holes can run a finaliser twice.
* Modules and generators. An importer of a module that has only been entered runs its body;
  a second import of a finished module settles before a pending dependency does; a body runs
  while an eager dependency is only pending; a rejected gate poisons the importer. A
  generator whose own body calls return() is revived; a running one answers its body's
  next() with done instead of a TypeError.
* Regular expressions. A negative lookahead that ran out of room counts as satisfied; a
  lookahead that backtracks or captures overwrites the outer match's choices; captures are
  not reset per iteration; loops over empty bodies spend room and fuel, and `(?:)*` is
  refused; split and the global natives ignore sticky, and sticky ones ignore lastIndex.
* Objects. Proxy invariants are not checked, a proxy in a prototype chain is not consulted,
  and defining, freezing and listing act on the proxy's own record; Reflect.set answers true
  for its own receiver; assigning length is never refused, and a sealed array's length can
  fall below its indices (vm/properties.rs:485); frozen mapped arguments change through their
  parameters; equality of descriptors is strict equality, so NaN is unlike itself.
* Names. A chain of more than 258 records loses names; functions of an eval are not checked
  against global lexicals; an indirect eval refused at its second var leaves the first, and a
  type-refused prologue leaves names half made (lower/prologues.rs:12); a deleted var still
  refuses a later let. In functions: a prepared write after a delete goes to another name's
  slot where evals and deletes meet; functions and lets bypass with and evals; a nearer
  function or let does not win (lower/references.rs:141); room for 16 eval bindings, then
  they are global (vm/names.rs:521).
* Collections and buffers. A walker skips a member when an earlier one is deleted
  (natives/collections.rs:255), an exhausted one revives when members are added, and -0 is
  kept as a key. `set` from an overlapping view copies forward; a constructor given a length
  uses the byte length read before converting it.
* Classes. super() in an arrow runs neither fields nor brands, and binds this on every frame
  of its constructor (vm/calls.rs:427); a second super() into a native replaces this before
  it throws; a class two levels above a native gets the nearer prototype (582). A static #x
  is found through the writable `constructor`; a static initialiser sees the outer #x before
  its own exists; `#m in C.prototype` is true without a brand.
* Dynamic source. A direct eval where this waits for super() throws with its source still
  asked for, which then runs in the handler (vm/calls.rs:1242); a job between the entry of a
  source and its return takes its registers; a class over Function without a constructor runs
  in whatever realm the last eval had (1012); a throw in field initialisers run at the return
  passes the handlers (vm.rs:1142).

* Numbers. Number("+0x10") is 16 (value.rs:714, against the comment above it). A negative base
  with an integral exponent past 32 bits gives NaN, and a power whose reciprocal overflows gives 0 for
  a subnormal. (100).toPrecision(5) is "100.0000"; toFixed and toPrecision round the shortest
  digits, not the value. toString in a radix divides in doubles, so it is exact to 2^53, keeps
  64 digits and drops the fraction. parseInt and parseFloat look at 128 characters. Number of a
  BigInt rounds at each limb (bigint.rs:92), and one whose result fits the work but no cell
  ends the program as out of heap instead of throwing a RangeError (vm/bigints.rs:37).

## Not modelled

* Values and arenas, layouts and codecs: accessors with no order of events.
* The front end: a grammar over text; its tables are bounded and local to a call.
* The built-in library beyond what is named above, strings, dates, JSON, digests and random
  bits: functions of their input, tested by vectors in the repository.
* Of numbers: logarithms, exponentials and trigonometry, and so powers that are not integral;
  decimals beyond the digits kept exactly (MaxDigits is not reached) and texts in a radix longer
  than a machine word.
* Reflect.deleteProperty (vm/natives/reflect.rs:58), which deletes without the trap of a proxy and
  without unmapping an index of an arguments object: Delete of Objects is the operator.
* Functions in blocks of a script (lower/prologues.rs:92): no script of Scripts has one.
* Policy, grants and register, facade: pure predicates and matchings. What the shell does
  with its grants is in Shell, and HostRouter takes the matching as the constant MethodOf.
* Replay: only probes record or play back.
* Diagnostics' text, tracing, telemetry, probes and fixtures; the Fluxor kernel, which is
  external and modelled from use.
* Within modelled components: expressions in Lowering are one event each; yield*, decorators,
  accessors as class elements, DataView, and Unicode mode of patterns are left out.

## Plan

1. Proofs, in order of use: MessagesKept of WsAdapter and StreamWhole of NetAdapter,
   which are arguments on sequences of cells like the router's; ThisBoundOnce of Classes.
2. The lifecycle of policy.rs as an abstract specification of Isolate's phases.
3. A contract of a call (made, carried, answered once or timed out) composed from
   CallStaging, HostRouter, one adapter and Isolate's timeout.
