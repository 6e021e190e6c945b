# A TLA+ model of Sandblaster

Sandblaster executes generated instructions on a processor and records what
surprises it.  This directory holds a TLA+ model of the parts of the program
whose correctness depends on the order of events, on boundary arithmetic or on
one process understanding another: the scan interface of the mobile library,
the view model of the iOS app, the search strategies and the injector's engine,
the static corpus that is built by them and scanned by them, the injector's
command line and the supervisor that runs a search in parallel processes, the
sifter that reads their lines, and the backends that execute one instruction.
TLC checks small instances; TLAPS proves the invariants of the scan interface,
the app, the engine, the supervisor, the sifter and the backends, and two
refinements, for every value of the constants.

Contents: 1 inventory, 2 modules and how they correspond to the code, 3 runs,
4 proofs, 5 findings, 6 what is not modelled, 7 plan.

## 1. Inventory

| Part | Source (under `src/`) | State | Operations | What is hard about it |
|---|---|---|---|---|
| Scan interface | `crates/mobile_ffi/src/lib.rs` | the global `SCAN` slot (scan and its thread), and per scan a `SharedState`: stop, done, error, counters, the bounded queue of lines | start, next, status, stop, each from any thread; the worker thread | two mutexes and atomic flags read at different moments; stop leaves the mutex to join; a worker waiting for room |
| iOS app | `mobile/ios-agent/.../FuzzerViewModel.swift` | running flag, poll timer, log file, findings and their file, archive, list on screen | start, stop, `drainQueue` on a timer | ticks that outlive their timer; order of writing and closing; natural end against STOP |
| Strategies | `crates/search/src/*.rs` | bytes, index or depth, started, done | `next_candidate`, `observe` | carry, wrap and bounds of a multi-byte counter; a cursor moved by feedback |
| Engine and policy | `crates/injector/src/engine.rs`, `policy.rs` | the strategy | `next_event` | skipped candidates are not observed |
| Static corpus | `crates/corpusgen/src/lib.rs`, `injector/src/ios_static_corpus.rs` | the table baked into the app | generate, look up | a search on one machine has to foresee a search on another |
| Options | `crates/injector/src/lib.rs` | the configuration | `parse_args`, the arguments of a worker | options in one word or two, repeated, rewritten as text |
| Supervisor | `crates/injector/src/main.rs`, `range.rs` | list of ranges, next range, active children | split, spawn, wait | tiling of the range, waiting in order, a child that fails |
| Sifter | `crates/cli/src/main.rs`, `core/src/anomaly.rs` | statistics, artifacts, `data/sync`, `data/tick`, `data/last` | spawn or open, read a line, record, finish, resume | partial files after a crash; resume |
| Linux backend | `crates/injector/src/linux_x86.rs` | pages, handlers, signal mode, baseline context, observation | set up, load, jump, signal handler, alarm, tear down | a signal in the wrong mode; alarm against fault; a set-up that fails half way |
| macOS, Android backends | `macos_arm64.rs`, `android_arm64.rs`, `arm64_fault.rs` | child process, pipe | fork, probe, read, wait | death of the child at any point |
| iOS backends | `ios_arm64.rs`, `ios_static_corpus.rs` | JIT page, index of compiled instructions | execute | an instruction that never ends |
| Formats, targets, cpu, disassembler, summary, TUI, scripts | various | none that survives a call | pure | - |

How they interact: the app calls the scan interface, which runs an engine in a
thread of its own; the engine asks a strategy for a candidate, applies the
policy, executes it on a backend and shows the outcome to the strategy.  The
same engine runs in the build of the app and leaves the corpus the app may
execute.  On a desktop the sifter spawns the injector with arguments made from
its own and reads its lines from a pipe; the injector runs one engine, or with
`-j` supervises injectors that do, again through arguments.  On Linux the
instruction runs in the injector itself, under a signal handler and an alarm; on
macOS and Android in a child; on iOS in the app.

What makes each part correct:

- Scan interface: one worker at a time; lines handed out once, in order; the
  budget and the capacity are kept; the end is announced only when it is final;
  status is coherent; stop returns.
- App: while running, log, batch and queue together are the lines sent, and the
  findings file has those among them; the archive offered is made of the files as
  they are; the end is noticed.
- Strategies and engine: candidates stay in the range and only grow; none is
  passed over that the strategy is there to visit; the search ends.
- Corpus: the scan it was built for finds every instruction it asks for.
- Options and supervisor: a worker searches its piece as the supervisor would;
  the pieces tile the range; success means that every piece was searched;
  together the workers report what one process would.
- Sifter: everything read and found is in the logs, whatever fails; a resumed
  search is the same search from another start and continues where the earlier
  one ended.
- Backends: an observation belongs to the instruction it is reported for;
  nothing of an execution, or of a backend that was given up, is left behind.

## 2. Modules

### ScanChannel, MobileScan, MobileScanProofs, MCMobileScan

`ScanChannel` is what the scan interface promises: at most one bounded channel
of numbered lines, filled in order by a producer that ends once, emptied in
order, closed only after the producer has ended.  The producer ends in one of two
ways: it says that it is done (`End`), or it unwinds and says nothing (`Unwind`);
only the first makes `scan_next` answer -1.

`MobileScan` is the interface itself.  A step is one access to state that two
threads share.  `guard` is the `SCAN` mutex where it is held between two steps,
`handle`/`attached` the slot and its `JoinHandle`; `stop`, `done`, `error`,
`emitted`, `skipped`, `queue` are the fields of `SharedState`, one per scan;
`qlock` is the queue mutex where `scan_next` and `scan_status` keep it between
two steps.  `wpc` is the worker's place in `run_instruction_worker` or
`run_sandbox_worker`: open the backend (with its error and its fallback to
dry-run), check the stop flag and the budget, wait for room, execute, count,
push, set done.  A worker may unwind (`ProbePanic`): the tunnel strategy indexes
past its array when all sixteen bytes of the start are specified.  `cpc` is the
place of each calling thread.  The mode "stub" is that of a sandbox scan in a
build for another target, which pushes one line and is done (`SandboxMissing`);
one build has either this or "sandbox", a behaviour of the model may have both.
Lines are numbers: the i-th executed instruction
is line i, the notice of a fallback is 0.  The worker's counters are touched by
it alone, so their updates share a step with a neighbouring access.

### MobileApp, Subsequences, OrderLemmas, MobileAppProofs

`FuzzerViewModel` on the main actor: `start`, `stop` and `drainQueue` exclude
each other, but the worker sends and ends at any moment, and a timer tick is a
task that may run after the timer was invalidated (`ticks`).  The scan is an
instance of `ScanChannel`, which `MobileScan` implements, with a worker that may
end by itself, be stopped or unwind.  `Finished` is the answer -1 of `scan_next`:
there is no scan, or it is done and drained.  After a worker unwound every answer
is 0, the drains go on and the app shows a running scan until STOP (finding 3), so
`EndNoticed` speaks of a worker that is done and of STOP only; the safety
properties hold for a worker that unwound as well.  `log` and `noted` are the lines in the log file and in
the findings file, `findings` the list the footer counts, `zip` the archive as
it was last built (lines, findings, total); `shown`/`dropped`/`executedCount`
are the trimmed list on screen.  Of a line the model knows whether it is a
finding (`FindingLines`).

`Subsequences` says what a filter leaves of a sequence: its elements at a set of
positions, in order (`At`).  `parseFinding` over a batch is that, and so is
`strip_value_flags` below.  What follows from it for any sequence is one half of
`OrderLemmas`; the other half is the order of instructions.

### InstructionBytes, BruteSearch, TunnelSearch, Engine

`InstructionBytes` has the fixed-width instruction, its byte order and the carry
of a multi-byte counter, over any `Base` and `Width` (256 and 16 in the code);
`OrderLemmas` proves that the order is one and that the carry gives the next number.
`BruteSearch` and `TunnelSearch` are the two systematic strategies with one
action per path of `next_candidate` and, for the tunnel, of `observe`.
`Engine` composes them with the random and the driven strategy and the policy:
`Ask` is the call of `next_candidate`, `Skip` and `Execute` the two halves of
`next_event`, `Fail` a backend error.  What an execution and the disassembler
report is any member of `Outcomes`.

### Corpus, EngineProofs, MCEngine

`Corpus` extends `Engine` by the life of the static corpus.  `phase` is an
ordinary search, or the build on the host followed by a scan in the app.  In the
build, `generate` runs the engine to `max_count` or to the end of the search and
appends what it executes to `baked`: a tunnel search on the macOS backend, any
other on one that always answers "clean".  `Deploy` starts an engine anew, with
the configuration of the build or, for a brute search, one of a range within it;
`ScanExecute` looks the first bytes of a candidate up in the index and executes
the last entry with them.  `replayed` is what the scan has executed.

What a processor makes of an instruction is assumed to depend on its bytes alone
and to be the same on both machines (`processor` remembers what has been seen);
the random strategy draws the same numbers from the same seed (`draws`,
`drawn`).

### SearchSpace, Options, OptionProofs, Coverage, Sweep, SweepProofs, MCSweep

`SearchSpace` is the set of candidates of a whole brute search.

`Options` is `parse_args` and the defaults: an argument is a flag, a value, or
both in one word (`Argument`); a value is a number, a name or hex digits, which
specify bytes and have zeroes behind them (`Hexed`).  `Accepted` says which
command lines are read, `ConfigOf` as what: of an option given twice the last
one, of `-X` all.  `WorkerArgs` is what a supervisor makes of its own arguments for a worker:
`strip_value_flags`, then the options of the piece with its ends as text
(`Parsed` is what such an end is read as again).  `Wanted` is the depth a search
is made with: the length of an instruction where the target has only one
(`FixedLen`), else what `-B` says.

`Coverage` is what a finite search promises whoever reads its output.  `Sweep`
is `main` of the injector (usage, a search alone, a refusal, a supervisor),
`split_search_range` (one piece a step), `run_supervisor` (spawn while fewer than
`jobs` are active, otherwise wait for the oldest), and the workers, each of which
reads the arguments made for it and is reduced to the set of candidates it has
left (`rest`); `read` is the configuration a worker was started with, and empty
before that.  `Sweep` implements `Coverage` where the command line is
`Divisible`: the arguments of the workers keep its end and its depth.

### Sifter, SifterProofs, MCSifter

`run` of the sifter: `pc` is the place in the loop over the lines and in what
follows it.  `command` is the arguments of the injector in this run, made from
the sifter's own and, in a resumed run, from `data/last` (`InjectorArgs`,
`ResumedFrom`); an injector that does not accept them ends at once.  The injector
is the sets of candidates that its processes have left (`rest`, one per leading
byte with `-j`), a pipe of `Capacity` lines, and whether one of them failed.
With `--input` there is no injector: the lines are those of a file, some of them
blank or comments (`SkipLine`) and some not packets (`RefuseLine`).  Every line
has the length executed and the verdict of the anomaly filter as the injector
happened to find them.  `fs::write` is two steps, `Truncate` and `WriteLast`,
since an interruption between them leaves an empty `data/last`; `WriteTick` is
`data/tick`; the sync log is appended to by single writes.  `Abort` is Ctrl-C or
any error.  `Resume` starts another invocation from what `data/last` says: the
bytes executed of the last line, parsed back with zeroes behind them (`Saved`);
`RefuseResume` is the error where there is nothing to resume.  `read`, `emitted`
and `tried` are history.

### LinuxProbe, ForkProbe, Backends, BackendsProofs, MCBackends

`LinuxProbe` first acquires what it needs, one thing a step: the region and its
guard page, page 0 where `-0` asks for it, the signal stack, six handlers.  A
step that fails gives back what there is, the newest first (`Undo`); at the end
`Drop` does so in the order of the fields.  Between them it executes an
instruction with one, two, ... of its bytes in front of a page that is not
executable, with page 0 zeroed before each probe.  `at` is the program counter
between the accesses that a signal may come between: alarm armed, `SIGNAL_MODE`
stored, `ud2`, the probe, back at the label, observation read, alarm dropped.
`Handle` is `native_signal_handler`; a signal in `CaptureState` moves the program
two bytes on, which is right at `ud2` and leads `astray` anywhere else.
Restoring a baseline whose frame has been left is undefined: it comes back to
the label or goes astray.  An instruction is its decoded length and the faults it
may end in; addresses are numbers, reported modulo `Wrap`.

`ForkProbe` has parent and child of one execution (`parent`, `child`), the pipe
and its open ends, the handlers and `PROBE_ACTIVE` of `arm64_fault.rs`, and the
alarm of the child.  On iOS the same machinery runs in the caller.  An
instruction is the way it ends: it falls through to the breakpoint behind it,
returns, raises a signal, or blocks.

`Backends` is the choice of `run_selected_target`: one of them per host, called
again and again.  `answer` is the observation returned, `ran` and `rang` record
whether the instruction was entered and its alarm fired.

## 3. Runs

| Run | Module | Shows |
|---|---|---|
| `mobile_scan` | MCMobileScan | types, queue and budget (`BoundsKept`), one worker, ordered stream, coherent status, final end, stop returns, `ImplementsChannel` |
| `mobile_scan_panic` | MCMobileScan | violation of `WaitMeansRunning` (finding 3) |
| `mobile_app` | MobileApp | nothing lost while running, no gap in the log and no finding missing from its file, archive made of the files, end noticed |
| `mobile_app_refused`, `mobile_app_last_batch` | MobileApp | violations of `RefusedMeansRunning` and `DoneIsLogged` (findings 1, 2) |
| `engine` | MCEngine | range, order, no gap, siblings, prefixes; a scan finds the corpus built for it; the search ends, the scan after a build included |
| `sweep` | MCSweep | tiling, bounded pool, `WorkersSearchAlike`, `ImplementsCoverage` (nothing twice, all of it on success), the supervisor ends |
| `sweep_default_end` | MCSweep | violation of `SweepComplete` (finding 4) |
| `sifter` | MCSifter | complete sync log at every moment, complete and agreeing reports at the end, a resumed injector differs in its start only, no gap after a resume, the sifter ends |
| `sifter_parallel_resume` | MCSifter | violation of `ParallelResumeLeavesNoGap` (finding 5) |
| `backends` | MCBackends | the answer belongs to the instruction and its length is right, nothing is left behind, an execution and a set-up end |
| `backends_unmapped` | MCBackends | violation of `CleanMeansRan` (finding 6) |

Bounds.

- `mobile_scan`: two calling threads, two scans, capacities of one and two,
  ranges of two candidates.  Two threads are enough for every pair of calls to
  overlap, two scans for a stop to race a newer start, a capacity of one for
  every wait for room.  The four configurations give the worker every way to
  end: budget, range, missing backend, fallback, panic, stop, and the one line of
  a sandbox scan on another target.
- `mobile_app`: scans of four lines, three of them findings, a screen of two,
  two pending ticks, so that a screen overflows twice and a tick outlives its
  timer into the next scan.
- `engine`: three byte values and four bytes, with one prefix, an opcode that
  opens a map and a map that opens another, so that every branch of `observe` is
  met; starts with none, some and all bytes specified, one of them a prefix and a
  zero so that the opcode moves while the search goes on; ends before, inside and
  after them; depths that differ from the start's length.  The corpus holds four
  entries (`MaxCount`) of two bytes: builds that end before, at and beyond it,
  brute, tunnel and random, so that scans both fit and outlast their corpus; a
  random search draws at most six numbers (`MaxDraws`).
- `sweep`: three byte values, three bytes, pieces of one and two bytes, two and
  three workers; ranges that are empty, unaligned and wider than the pool.  All of them
  are `Divisible` (`AllDivisible`), which is the hypothesis of the proofs that
  need it; `sweep_default_end` has one that is not.  The command lines are plain
  ones, ones in one word with options given twice, and ten that are refused, ask
  for help or stay in one process.  `sweep` and the sifter's runs are of a target
  without a fixed instruction length, where the depth comes from `-B`;
  `sweep_default_end` is of one with it, like ARM64.
- `sifter`: two byte values and two bytes, so a whole search has four candidates
  (or two); a pipe of one line, so the injector waits for the sifter; three
  invocations, so that a resumed run is interrupted and resumed again; seven
  configurations: starts of both spellings and none, with and without `-j`, an
  injector that refuses its arguments, an imported file and a corrupt one.
  Findings of one byte from the injector and duplicates in the file make
  different lines have the same key.
- `backends`: lengths up to three, addresses of three bits of which two are
  reported, so that an address other than the end of the page looks like it; no
  bound on the number of executions.

Deadlock is not checked: a scan may have been started `MaxScans` times, a search
comes to its end, a supervisor exits, the sifter has been invoked `MaxRuns`
times, and a backend that failed or was dropped is not called again.

Fairness.

- `MobileScan`: a thread that is running is scheduled.  The worker and the second
  locking in `stop` are given strong fairness, since other threads may take the
  same mutex again and again and the mutexes of `std` and of the operating
  systems concerned do not starve a waiter for ever.  No client need make a call.
  An execution is assumed to return; the iOS backend has no alarm, and an
  instruction that loops there blocks stop.
- `MobileApp`: the run loop fires an armed timer and runs queued tasks; a worker
  told to stop ends in one way or the other, which is `StopReturns` of
  `MobileScan`.  A worker that nobody stops need not end.
- `Corpus` (with `Engine`): `run_engine` and the app's worker go on calling
  `next_event`, and the build of the app runs to its end; nothing is assumed of
  what is observed beyond what is said of `processor`.
- `Sweep`: running processes run, and each worker's search is finite, which is
  `SearchEnds`.
- `Sifter`: its processes run; nobody need start or interrupt it.
- `Backends`: processes run and an alarm that nobody drops fires.  That is all
  that ends an instruction that blocks.

## 4. Proofs

| Module | Proves | Listed properties |
|---|---|---|
| `MobileScanProofs` | the scan interface | `TypeOK`, `BoundsKept`, `OneWorker`, `StreamInOrder`, `StatusCoherent`, `EndMeansDrained`, `ImplementsChannel` |
| `MobileAppProofs` | the app over that interface | `TypeOK`, `RunningKeepsAll`, `ArchiveIsLog` |
| `EngineProofs` | engine, brute and tunnel search, static corpus | `CorpusTypeOK`, `InRange`, `PrefixesBounded`, `BruteLeavesNoGap`, `TunnelVisitsSiblings`, `CorpusServes` |
| `SweepProofs` | supervisor and workers | `TypeOK`, `RangesTile`, `WorkersSearchAlike`, `SweepComplete`, `ImplementsCoverage` |
| `SifterProofs` | the sifter, its logs and a resumed search | `TypeOK`, `SyncIsComplete`, `DoneIsComplete`, `ResumeChangesStart`, `ResumeLeavesNoGap` |
| `BackendsProofs` | the four backends | `TypeOK`, `ObservationIsOurs`, `NothingLeft` |
| `OrderLemmas`, `OptionProofs` | lemmas | - |

None of the properties is inductive as it stands.  In each module one invariant
is (`Invariance`, `SifterInvariance`); its parts are named, there is a lemma for every action, and
the theorems follow from it.

### Scan interface

`MobileScanProofs` holds for any set of threads, any configurations with a
positive capacity and any bounds.  Assumptions: `ClientAssumption` (the mark for
a free mutex is no thread), `ConfigAssumption` (capacities are positive: the code
takes 0 for the default of 5000, `lib.rs:454`), `BoundAssumption` (the bounds are naturals).  `IInv` adds to
`TypeOK`:

- `SlotInv`: who is inside a call holds the mutex of a slot that is not empty; at
  most one thread is past the first half of stop, and it joins the scan in the
  slot; the slot holds the latest scan; only that scan's worker can be alive.
  Without the uniqueness of the joiner, two stops could clear a newer scan.
- `LineInv`: room found remains room until the line is pushed (one producer, and
  consumers only make room), the budget checked is not exceeded by the line in
  hand, and done is set only by a worker that has left its loop.
- `StreamInOrder`, which is inductive given the above.
- `ReadInv`: what a client has read of queue and flags stays true while it holds
  the queue mutex; this is what makes the separate reads of `scan_next` and
  `scan_status` safe.

For the refinement a push maps to `Send`, the pop in `scan_next` to `Take`, the
`done.store` of the worker to `End`, a panic to `Unwind`, the emptying of the slot to `Close`; all else
stutters.  The abstract buffer is the queue renumbered by the notice.

### App

`MobileAppProofs` holds for any channel capacity, screen, choice of finding lines
and bounds (`DisplayAssumption`, `AppBounds`).  `AppInv` adds to `TypeOK` and the
types of the channel (`ScanTypes`):

- `LinesInv`: lines counted, lines drained and not yet counted, and lines queued
  follow each other and are all that was sent.  The numbers have to be in it, not
  only the lengths: that the log is in order follows from what the queue holds.
- `FileInv`: the files are open exactly while the app shows a running scan, which
  then is open in the interface, and the log has every line counted; afterwards
  it is a prefix of them.
- `FindingsInv`: the findings file is what `parseFinding` finds in the log, the
  list what it finds in all that was counted.  Each drain adds a batch to both;
  that the findings of two batches are those of the first and then of the second
  is `AtConcat` of `OrderLemmas`.
- `ZipInv`: once the app shows no scan, the archive is the files.

### Engine

`EngineProofs` holds for any alphabet of two or more bytes and any length of
instructions, for any opcode map, prefixes, policy and feedback.  Assumptions:
`ByteAssumption`, `WidthAssumption`; `MapAssumption` (0 is no prefix, as in
`is_prefix`); `ConfigAssumption` and `CorpusAssumption` (types; a start that was
given is parsed, so zero behind what it specifies; the engine of an ARM64 target
has no limit of prefixes, `engine.rs:86`).  It covers the search, the
build of the corpus and the scan in the app, since they run the same engine.
`EngineInv` has, with `TypeOK` and `InRange`:

- `CursorInv`: a search that has begun has a candidate, one that has not stands
  at its start, and while it asks it is not done.
- `BruteInv`: the bytes beyond the depth are zero and the candidate is the
  counter.  So the carry, which is the next number of that depth (`CarriedIsNext`),
  leaves no gap.
- `TunnelInv`: up to the index the bytes are those of the candidate, behind it
  they are zero or will be before the next one.  `observe` may already have moved
  the index, so the two are related up to the index only.
- `PrefixInv`: a candidate has at most one prefix too many, and then the index is
  still within the bytes that may be prefixes.  `PrefixesBounded` alone says
  nothing of the index, so a step after a skip could open the byte behind a
  prefix too many.  The theorem is about starts that have no more prefixes than
  allowed themselves; from others the search backs out over them and may show one
  more.

That candidates grow and are in the range are facts of `OrderLemmas`: first
difference, transitivity, totality, carry and its wrap, from no assumption but
base and width.

`ScanIsServed` (`CorpusServes`) relates two runs of the engine to each other, the
build and the scan, of which only one is in the state.  What the other did is
kept as a set.  A `Place` is all that the next step of an engine depends on; `Then` is
the place after it; it is `Settled` when the number it draws is drawn, the
instruction it tries has its turn in the table and what the processor makes of
that is known.  A `Way` is a set of places that leads from the first to a last
one, every other settled.  `ServeInv` is `IInv` and

- `HostInv`: whose engine it is, and on what range it is set up;
- `BakedInv`: what a brute build is there to bake is in the table or comes after
  its candidate, unless the table is full;
- `WayInv`: the build has gone a way from its first place to where it is.  A scan
  with its configuration is on a way that ends where the table does, or has
  executed the whole table, cut short by max_count, or was ended by an error of
  the backend (`run_probe`) at an instruction the table has.

A step of the build adds a place to its way (`BuildGoesOn`), and what is settled
stays so (`SettledStays`).  An engine at a settled place can only go to the one
after it (`AskAlike`, `SkipAlike`, `ExecuteAlike`, one lemma for each strategy
below them), so a scan never leaves the way before its end (`ScanStays`).
The theorem has a hypothesis, `StartsFit`: no brute build starts at an instruction
longer than its depth.  The depth of the whole range and of a part of it is then
the same; from a longer start the two differ, and a scan would offer what the
build never counted to.  `MCEngine` evaluates it for the instance.

### Options and supervisor

`OptionProofs` is about any command line, without induction: of an accepted line
the places at which a field is set and the values there are kept by `\o`
(`JoinConfig`) and, for the fields whose flags are not stripped, by
`strip_value_flags` (`StripAccepted`, `StripConfig`: a flag that goes takes its
value along, and the order of what stays is kept, so the last one given remains
the last).  Together, `WorkerConfig`: what a worker reads is the supervisor's
configuration with its piece, one job and `--worker`.  Assumptions:
`NoneAssumption` (the mark for an absent value is none), `TargetAssumption`,
`SweepAssumption` (arguments are typed; a parallel search is a brute one).

`SweepInv` of `SweepProofs`:

- `StageInv`: which variables are set before, while and after the range is cut,
  and that whoever cuts has an accepted command line for a parallel search.
- `CutInv`: `MarkerInv` (the piece before the marker ends there), `PieceInv`
  (pieces lie in the range, are not empty, and their starts lose nothing when
  they become text), `OrderInv` (of two pieces the later is higher), `ChainInv`
  (one begins where the one before it ends), `ReachInv` (what is below the marker
  is in a piece).  The last one is what turns neighbours that meet into a cover
  of the range; by steps of the marker it needs no induction over pieces.
- `PoolInv`: at most `jobs` are waited for, whoever runs or failed is among them,
  and who succeeded has nothing left.
- `WorkersSearchAlike`, by `WorkerConfig`.

`CoverInv` adds what the workers do: each candidate of a piece (`Share`) is left
to its worker or tried, and nothing else is.  It rests on a hypothesis, `AllDivide`:
the end has zeroes behind what it specifies and the depth of a piece is that of
the whole.  The first is needed because `compact_hex` cuts the rest off (finding
4 is the end that has none), the second because a worker derives its depth from
its own start.  It is a condition on the command line alone; the run `sweep`
evaluates it for every line it has (`AllDivisible`), so it is met, also by ranges
that are unaligned and options given twice.  Under it success means that all was
tried (`NothingIsSkipped`), and supervisor and workers implement `Coverage`
(`SweepImplementsCoverage`): a worker's report maps to `Try`, the end of the
supervisor to the verdict, and cutting, spawning and waiting stutter.  A worker
reports the first candidate it has left, and there is one (`FirstExists`: a
nonempty set of byte arrays has one that precedes the others, by the least-number
principle, one position after the other).

### Sifter

`SifterProofs` holds for any configurations, outcomes of an execution, lines of a
file, capacity of the pipe and number of invocations that meet
`SifterAssumption` (types; a search is a brute one; the pipe has room for a line)
and those of `OptionProofs` and the byte order.  It covers the interruptions
and the resumed invocations, since these are steps like any other.  `SifterInv`
adds to `TypeOK` and `SyncIsComplete`:

- `LineInv`: what was sent is what was handled, the line in hand, and the packets
  in the pipe, in this order; a file differs only by a line that was refused.
- `SourceInv`: at the end of the input nobody has anything left and the pipe is
  empty, and behind the wait nobody failed; the place saved is a start the injector
  can be given.
- `StatsInv`: the artifacts and their number are those of the lines handled.  A
  line is the first with its key exactly if the key is no artifact yet, so a key
  that is appended to the sync log gets the place its first line has among the
  first ones (`FirstFinds`).
- `ReportInv`: a report that was written says what the statistics say, which do
  not change any more.
- `CommandInv`: `ResumeChangesStart` at any moment.  That a command line that
  names a start anew, behind options which named it before, in any spelling and
  number, is read as the same configuration with that start, is
  `StripConfig` and `JoinConfig` of `OptionProofs` again.
- `GapInv`: the lines sent go up; a candidate that was not handled is in hand, in
  the pipe, or left to the search and then behind all that was sent; and
  `data/last` is never behind it, neither while it is empty between `Truncate` and
  `WriteLast` nor in the invocation that was resumed from it.  Its hypothesis
  (`Gapless`) is that of `ResumeLeavesNoGap`.

### Backends

`BackendsProofs` holds for any instructions, faults, page end and modulus that
meet `BackendsAssumption` (the end of the page is not what a fault without an
address is reported with).  On Linux `IInv` is `LinuxInv`, elsewhere `ArmInv`:

- `HeldInv`: while a backend is set up or undone it holds the first of what it
  needs, while it executes all of it.  From this a set-up that fails half way
  leaves nothing.
- `ModeInv`: the mode is that of the place in the program, an alarm is armed only
  between arming and dropping it, a baseline is there for whoever needs it, and
  nothing has been written before the probe.
- `ProbeInv`: at the label, and once it was read, the observation is one that the
  probe under way can have (`OfProbe`): its own alarm, its first missing byte, or
  a fault of the whole instruction.  That the next probe cannot see the
  observation of the one before is what `ModeInv` is for.
- `ParentInv`, `ChildInv`: on which host parent and child can be where, and what
  of pipe, handlers and alarm is left there.
- `FoundInv`: whatever is found, in the pipe or in the exit status, is of this
  instruction, and an alarm in it is one that rang.

### Only model-checked

- Liveness: `StopReturns`, `EndNoticed`, `SearchEnds`, `SupervisorEnds`,
  `SifterEnds`, `ExecutionReturns`.  It is out of the prover's reach.
- That what the app was proved of holds over the interface as it is coded takes
  both `MobileAppProofs` and `Refinement`; the composition is not a theorem.

## 5. Findings

1. A scan that ended by itself keeps the slot: start answers -1 until somebody
   calls stop, which the app does not do and its disabled STOP button prevents.
2. `drainQueue` closes the log before it writes the lines it drained last.
3. A worker that panics never sets done, and `scan_next` answers "still running"
   for ever.  The app waits for -1, so it shows a running scan until STOP.
4. A parallel search without `-e` never tries the last candidate of a
   fixed-length target.
5. A parallel search that was interrupted is resumed from the line read last,
   and what the workers of lower ranges had left is never tried.
6. On Android an instruction whose page could not be mapped is reported as one
   that ran without a signal.

## 6. Not modelled

- The formats: the bytes of packets, logs and summaries, the reader of finished
  logs (`legacy_format.rs`), and what becomes of a corrupt byte.  A line is a
  record of what the properties tell apart; the sifter refuses or skips lines of
  an imported file as the code does.
- What is only shown: the dashboard and the recent results of the sifter, headers
  and groups of the reports, the TUI (a stub), the text of the app, its rate, its
  metadata and the bytes of its archive.
- Tables and pure functions: targets, CPU metadata, the summary, the
  disassembler (the engine takes any answer it can give), the getters of the last
  error and the last instruction, the assembly text of the corpus.
- Failures of the app's own files: `openOutputFiles` opens them with `try?`, and a
  scan whose files cannot be opened runs without (`FuzzerViewModel.swift:297`,
  304, 311); in the model they can always be created and written.
- The answer -3 to the app (`FuzzerViewModel.swift:198`): no line is as long as the
  8192 bytes it offers.  `MobileScan` has the answer (`NextTooSmall`), for callers
  with smaller buffers.
- Registers and stack of a probe: what an instruction does to memory is modelled
  for page 0 only, what it does to registers not at all.
- On iOS, mapping the JIT page and building the index of the corpus, both done
  once.
- The scripts and build files.

Behaviour that is in the models and that no run states as a property:

- the random strategy draws each byte up to and including that of the end, so it
  may offer the end itself, and anything where a byte of the start is the larger;
- a tunnel scan over a part of the range its corpus was built for may go other
  ways than the build and miss an instruction (`CorpusServes` speaks of it for the
  same range only);
- a resumed search is as deep as `Wanted` (`-B` or the fixed length) or as
  `data/last` is long: one whose depth
  came from a longer `-i` is resumed shallower (`ResumeLeavesNoGap` says so);
- every run with `--sync` empties `data/sync`, a resumed one too, and reports are
  written at a good end only, so the findings of an interrupted run are in no file
  after it was resumed;
- `--low-mem` keeps no artifact, so the final log and the findings list none
  although they count them;
- a tick that runs after the scan ended builds the archive again, by then with a
  footer that may count more findings than their file lists;
- an alarm in `CaptureState` leads the Linux backend astray or is spent before
  the probe (`ExecutionReturns` says so).

Seen in the code and outside the models: the message "Done" of the app counts
the lines on the screen (at most 300), not those executed; the corpus generator
applies the opcode and prefix blacklists of x86 to ARM64 as well and ignores
settings it cannot read.

## 7. Plan

Done: the scan interface with its abstract channel, the app on top of it, the
search core and the static corpus, options and supervisor, the sifter, the
backends from set-up to end; and proofs about all of them.

Next:

The tunnel search in parallel: `Sweep` with the engine of `Engine` as its
workers.
