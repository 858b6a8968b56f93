# Specifications of libviprs-bench

libviprs-bench measures the libviprs crate and publishes the measurements.  Its
hard part is not the measuring: it is that a number which reaches the page was
really measured, on the machine, of the commit and over the bytes it names, and
that nothing published earlier is lost on the way.  These modules specify that
part.  Every definition is translated from the source; `PROJECT.json` gives the
lines of each.

## The system

A *document* is the result of one sweep, a *run* is a document that was
admitted, sealed and filed, a *history entry* is what the page draws of a run.

    build script -> binary -> sweep (child processes) -> document
        -> check -> archive -> verify -> retrieve
        -> import into the staged history -> publish to the repository

    version matrix / report -> isolated suite -> benchmark_history.json

### Components, their state and what makes them correct

Sources are relative to the crate's `src/`; `build.rs` and `tools/` are beside it in the
repository.

| component | source | state | operations | correct when |
|---|---|---|---|---|
| provenance, emulation | `build.rs`, `provenance.rs`, `emulation.rs` | stamps compiled into the binary | stamp, probe the host, warn | what is not known is not claimed; the stamp is of what was compiled |
| storage sweep | `storage/mod.rs`, `document.rs` | cell, scenario, backend, repetition; the folded wire run; verdicts; rows | write artefacts, attest, spawn a scenario or a repetition, merge, emit rows | every sample is in the row of its metric, a failure or disagreement of any repetition shows, a verdict is of the bytes of its cell |
| attestation | `storage/attest.rs` | a verdict per backend | predict the regime, walk the root, read a sample back from both, compare | no row claims what was not observed of its own cell |
| scenarios | `storage/scenarios/` | passes, threads, chunks; a sink and a clock; a counter and a cache | walk, open, look up, decode, count, write | a sample is of what its name says: the whole walk, one phase, one operation |
| writer and pvec sweeps | `storage/writer_sweep.rs`, `pvec_sweep.rs` | schedule, the gate's budget, accounts of results and failures | locate, prepare, wait for quiet, run a child, read its archive back, make rows | every repetition is accounted for; high confidence means a quiet machine; an attested row is its contender's |
| engines sweep | `engines/` | warm-ups, rotated repetitions, one load per cell | rotate, `rows_for`, `attest_group` | as above, and nobody attests itself |
| admission, integrity | `storage/archive.rs`, `integrity.rs` | none | `admit`, `run_id`, digests, `seal`, `verify` | no refusable document is filed; what is filed stands; an edit is named |
| archive filing | `storage/archive.rs` | `<runId>.json`, `index.json`, temporary files | `archive_text`, `update_index` | append-only; the index never names what is not there; an acknowledged run is listed |
| importer | `tools/publish/import-run.mjs` | `history.json` | gate, baseline, write | entries are archived, agree on invariants, are in order, stay |
| capture pipeline | `tools/capture.py` | repository, staging directory, remote directory | settle, sweep, check, archive, verify, retrieve, import, publish | all families or none; the repository can be cited at every moment |
| heap gauge | `storage/heap.rs` | four atomics, one lock, a thread-local flag | allocate, free, `arm`, drop | windows of two threads exclude each other; live and peak are what they say |
| isolated suite | `harness.rs`, `lib.rs`, `report.rs` | references, turns, samples, scratch directories, report files | build references, run children, aggregate, score, report | engines that did other work are told; a score was compared; nothing is left behind |
| version matrix, report history | `version_matrix.rs`, `lib.rs`, `report.rs` | worktrees, target directory, history | checkout, build, identify, suite, append, drop | a snapshot is of the commit it names; a file is of one family; the exit code is true |
| replicate noise floor | `scenarios/replicate.rs`, `storage/stats.rs` | placements | schedule, estimate | a floor is of the placements |
| charts, reader contract, scalability and cross-version reports, formats, flame graphs, pin checks, scripts, images | | none or pure | | see `PROJECT.json` |

### Interactions and hard behaviours

* *Children.*  Every sweep and the matrix run their measurements in children and
  read one JSON line of their stdout.  A child may die, not spawn or print
  something else at any time.  Nothing has a deadline.
* *Hosts.*  A load that cannot be read, a translator that forges what is asked of
  it, a build script that cargo does not run again.
* *Files.*  Archive, history and repository are shared by processes that do not
  lock them.  Writes are temporary file and rename in `archive.rs` and `lib.rs`,
  in place in `import-run.mjs`, and `copyfile` in `capture.py`.  Errors and kills
  may come between any two calls.
* *Threads.*  The heap gauge is a global allocator that every thread runs at every
  allocation; the lookup curve walks on up to eight threads, any of which may
  fail or panic.
* *Long sequences.*  Re-imports, re-archiving, documents edited by hand, a capture
  over a repository that has moved on, a matrix over commits of one version in
  one target directory.

The list of hazards, each with its line and the properties that would catch it
going wrong, is `hazards` in `PROJECT.json`.

## Modules

| module | what it is |
|---|---|
| `ArchiveStore` | abstract: a set of files and a list, both append-only |
| `Archive` | `archive_text()`, `write_atomically()`, `update_index()` by system call; implements `ArchiveStore` |
| `Provenance` | operators: the stamps of the build script, the evidence and the verdict of the emulation probe, the provenance block, the warnings |
| `Paper` | the life of a document from the build to its archive entry, over `Provenance` |
| `Sweep` | `run_sweep()`, `merge()`, `rows_from_wire()`, `from_report()` |
| `Contest` | what the three sweeps of contenders share: schedule, quiet gate, accounts, rows |
| `WriterSweep`, `PvecSweep`, `Engines` | the sweeps themselves, each extending `Contest` |
| `Contests` | composes the three; their properties and their fairness |
| `Scenario` | what all scenarios share: registry, coordinate orders, warm-up and repetitions, the answer |
| `Reading`, `Opening`, `Writing` | walks and the concurrent curve; opens, lookups and requests; the write split |
| `Scenarios` | composes the three; their properties and their fairness |
| `Harness` | the isolated suite of `report` |
| `VersionMatrix` | matrices and report runs on one history |
| `Importer` | what the importer decides and computes, as operators; used by the two below |
| `Import` | the importer as a process, with the archive, the operator and git around it (`InitImport`, `NextImport`, `SpecImport`: its proofs extend `Capture` too) |
| `Capture` | `main()` of `capture.py`, composing filing and `Importer` over three copies of the files |
| `Heap` | the allocator and its windows |
| `MC...` | an instance of each for TLC |
| `Sifting` | a filter of a sequence as a recursive function, for `Importer` and `Contest` |
| `SequenceProofs` | lemmas on sequences of any length that the proofs share |
| `FilingProofs`, `HeapProofs`, `MatrixProofs`, `PublishProofs`, `SweepProofs`, `ScenarioProofs`, `ContestProofs` | theorems |

### Archive

`files` is the directory without `index.json`, `index` that file as a set of
rows (it is a sorted array whose order nothing looks at).  `pc` names the next
system call of each archiver, `rows` the copy of the index it has in hand,
`temp` its temporary file, `acked` the documents some call returned Ok for.
`ReadError`, `Crash` and `Restart` may follow any step.  `admit()`, `run_id()`
and the digests depend on the document alone, so they are constants here; they
are `Paper`'s matter.  `Restart` forgets a stray temporary file: its name has
the process id and the nanoseconds in it, so no later write meets it.  A rename
is taken as atomic and durable.

### Provenance and Paper

A tree is a branch, a commit, whether it is edited, whether its file modes
differ, and what kind of checkout it is.  A host is what is true of it and what
each source of evidence says, unreadable included.  `Stamps` is what the build
script writes, `Watched` what it asks cargo to watch: `Build` recompiles what is
there and stamps anew only if something watched has changed.  A document is a
record of what the gates and digests tell apart; `admit()` is one operator per
gate, and a digest is the value it is taken over.  `HandEdit` is one edit of each
kind the gates are there for; `TakeCopy` takes a filed document up again.
`paper.honest` and `paper.of` are history: nobody edited the document, and what
was really compiled.

### Sweep

A walk over cells, scenarios and backends, as the nested loops do it.  A
repetition says nothing (`NoWire`), declines, fails or reports series and
invariants.  A sample is the name of the metric the child measured, so that one
in the wrong row can be seen.  Times, loads and dispersion are left out; the
load of a row is `Contest`'s matter, what the child does is `Scenarios`'.

An artefact is what reading it back shows: that it opens, the two counts
`archive_shape()` takes of its root, and the bytes of the seeded sample, which is
one value and not 64 tiles.  `Attest` is `attest_artefacts()`: the writer's rule
gives the regime, the archive's root is held against it, a directory tree is
given the one predicted, and the sample is compared if both readers opened.
Three limits of the code are limits of the model: tiles outside the sample are
never compared; a directory row is attested on the bytes alone, also beside an
archive in the wrong regime; and the sample is never larger than the floor,
although the comment on `byte_equivalence()` (`storage/mod.rs`, line 508) reads as
if a profile that reads more also compares more.

### Contest and its sweeps

The nested loops over repetitions and contenders run to the end of a cell
without a branch that depends on a result, so they are a sequence of jobs.
Before each the gate sleeps or starts it; the child answers; the parent reads
back what it left, files a result or a failure in the contender's account, and
at the end of the cell turns accounts into rows.  A sample says whose it is,
which field it is, and what was left on disk.  The fields of an answer are
optional but for the times: there is no peak RSS off Linux, no heap without the
counting allocator, no size if the artefact cannot be listed, and a series has
only the repetitions that have the field.  The values of samples are left out;
what they can do to a row, lie too far apart or be too short for the clock, is
any of the sets in `Doubts`.  cpu load has the four classes the
code tells apart: calm for the gate (0), quiet for a row (1), contended (2) and
unknown.  `saw`, the two readings around a repetition, is history.  `Address` is
the arithmetic of the synthetic tile order; its multiplier and seed are reduced
to 16 bits, which is exact for zooms up to 8.

### Scenario and its scenarios

One scenario in its child.  A sample is a record of what was done while the
clock ran: the tiles looked up, the ranges fetched, the tiles in the sink and
the clock each finish fell on.  In `Reading` a pass is a chunk per thread, and
the threads interleave lookup by lookup; one may fail or panic, and the scope
joins all of them before it looks at any.  In `Opening` the reader of libviprs
is external: an open fetches its ranges, a lookup fetches the leaf it has not
got.  In `Writing` the engine may finish its sink early, twice or never, and the
boundary between the phases is where `DeferFinish` puts it.

### Harness

Per image and family: the reference pyramids; per concurrency the turns of the
engines, each a child; `aggregate()`, the equivalence gate, and a candidate
pyramid per row that is scored against the reference over a sample of tiles.  A
tile is right, wrong, corrupt or absent; a pyramid is levels of tiles.  `tmp`
is what is in the scratch directory, `orphans` (history) what killed children
left there.

### VersionMatrix

Per driver: the version it is at, the snapshot to append, the history read, the
temporary file, the binary in its target directory, the outcomes and the exit
code; shared: the history, the worktrees on disk and in git's registry.  A
binary is what it links and what its stamp says, so that a stale binary and a
stale stamp are different things.  `session` says which drivers somebody runs,
and whether one after the other.

### Importer, Import and Capture

A document is a record of what the importer's refusals tell apart; refusals that
look at the document alone are one fault.  `Importer` declares the documents and
families and what is assumed of them, and computes the history an import writes
(`Kept`: the entries of other runs captured no later, the entry, the others).
`Import` has the reads and the write
of the history as steps, and the write is two of them, so that a kill between
leaves a torn file.  Meanwhile documents are archived, and an operator commits
the history or checks the committed one out.  `Capture` has three copies of the
published files: `repo`, `staging` and `away`.  Each gate can refuse for a
reason of the document's or without one.  `publish()` is a step per `copyfile`:
`CopyDocument` writes one staged document, in any order within a family and also
one the repository already lists, then `CopyIndex`, and `CopyHistory` after all
families.  Each may raise with its target truncated, which for a document means
that it moves from `files` to `torn`.  So that a broken-off publication can tear a
document of an earlier capture is in the model, and `RepoIsCitable` says how
far that goes: an index lists only documents that are there, and the ones not
whole are those that `cut`, of some capture that broke off, names.  `archive_family()` is `Archive` seen
from outside: one archiver on a directory of its own, which `archive_serial` and
the proofs show to be an append-only store.

### Heap

`armed`, `inFlight`, `peak` and `installed` are the atomics, `lock` and `nested`
the lock and the thread-local.  Each load, store, add and maximum is a step.  A
block is one unit; `realloc` is an allocation or a free by the difference.
Accesses are taken in one order for all threads: the counters are relaxed, but
each is one variable updated by read-modify-write operations, and the windows
are armed with `SeqCst`.

## Runs

Every property of a passing run has a mutant of the code in `PROJECT.json` that
breaks it under the run's own configuration.

| run | what it shows |
|---|---|
| `archive_serial` | one archiver, four documents of which two share an identity and one is refused, faults anywhere: files are whole, rows are true, what was acknowledged is listed, documents stay, `ArchiveStore` is implemented |
| `sweep_walk` | two cells; a write scenario of two processes and a read scenario of one; series in any order or absent, invariants that may disagree, artefacts that are missing, closed, different, unreadable or in the wrong regime: the fold is right, failures and disagreements show, and rows are attested only by what was seen of their own cell |
| `contests` | the three sweeps on small profiles, over a calm, busy, contended or silent host and children that die, lose a tile, write a wrong one or cannot take a figure: repetitions are accounted for, attested rows are their contenders', high confidence means quiet, a healthy sweep is whole and only its samples' values can make a row low, and the gate lets every repetition go |
| `scenarios` | every scenario over either backend on one to eight threads, with up to two things amiss: samples are of the whole walk, requests add up, the finalize is apart from the ingest, and every pass ends |
| `paper` | every host and tree, sweeps sound or not, every hand edit: nothing translated is filed, the warnings before a sweep and the refusals after it agree, what is filed stands, an edit is refused and named |
| `harness` | the suite of either family on two images at two concurrency levels, with any one thing amiss: scores were compared, the gate's silence means equal work, nothing is left behind, turns alternate |
| `matrix` | a matrix over two commits of one version and a report run one after the other, two matrices of different families at once, and one over three commits of which the first and the last are of one version, on four kinds of history, with every git, cargo and file step failing and a kill anywhere |
| `import_serial` | six runs: clean, moved, on another filesystem, older, edited, of another family under a run id that is taken, in any order, with kills and checkouts |
| `capture_serial` | two captures one after the other, seven documents, any one copy of each breaking off: what is published is citable, complete and stays |
| `heap_threads` | two threads, two windows nested or not: exclusion, the flag, the probe, the live total, and the peak as long as nobody else allocates |
| `import_baseline`, `paper_stamp` | see Findings |

### Bounds, and why they are enough

* Two captures, two matrices: the hazards are one process's read against
  another's write, which takes two.  Of documents to file there is one pair that
  collides, one that does not, and one that is refused.
* The cells of `sweep_walk` are two of the profile's own, on either side of the
  writer's cutoff (16369 and 21851 tiles, nothing is scaled down); between them
  the artefacts fail every clause of `attest()` that they can: no cell of a profile
  has fewer tiles than the floor, and the two counts of leaves come from one walk.
* Two repetitions show every disagreement and ordering of a fold or an account,
  whose state is the accumulator and one more child; two metrics show a sample
  in the wrong row; two cells a stale verdict or input.
* `MaxFaults` counts what deviates from a quiet host and healthy children: one in
  a writer or pvec sweep and in the harness, two in an engines sweep and in a
  scenario (the first of two failing threads, a fault in the warm-up and one in
  a repetition).  A property that relates two deviations of a writer sweep is
  beyond this bound; the invariants of `contests` are proved without it.
* `Doubts` of a sweep: none, the spread of one contender's times, or everything
  that can be said of every row.  Reasons of a row depend on that row alone, so
  that other combinations show nothing new.
* `Budget` is one poll: the gate's loop has only the budget as state.  Two
  scans have a last level longer than half a tile, where vips cuts one level
  more than the library, and one is a single level of half a tile.
* `MaxLevel` is 16: `ScanAssumption` says that a scan is within half a tile by
  then, which is true of any side up to eight million pixels.
* Three tiles read of a plan of four, in three orders, on 1 to 8 threads: walks
  that divide, that leave a remainder, and that are shorter than the threads.
* Images of three levels and two: with and without a level below full resolution
  of several tiles, one with more tiles than the sample has.
* Six runs of the importer: each pair of them exercises one comparability rule.
* A host with at most one thing amiss beside what a translator shows: the gates
  are independent conditions over the block, and each must fire alone.
* `MaxChanges` two and `MaxSweeps` one: a build, a change, a build and a sweep.
* Two threads of the heap: a window of one is disturbed by the other.  Nesting two
  deep is what the flag distinguishes.
* Two versions: the second finds the binary of the first.  Three, the first and
  the third alike: a binary that would not go and a stamp that was not made anew
  meet.  `NamedForItsCore` does not hold without its last disjunct there: the
  third version builds nothing, finds the binary of the second with the stamp of
  the first, and takes it for its own.

`CHECK_DEADLOCK FALSE` is said where a run really ends: a sweep, a scenario, a
document's life, a capture and a matrix stop.

### Fairness

* `contests`: weak fairness of the gate's loop.  It is a sleep of fixed length and
  a clock that goes on; nothing is assumed of a child.  `GateEnds` is that the
  budget is a way out whatever the host says.
* `scenarios`: weak fairness of each thread's lookup and of the join.  The threads
  are of the operating system's and a lookup is a read of a local file.
  `PassEnds` is that a pass ends also if a thread failed or panicked.
* Elsewhere none.  A child, an ssh step and a cargo build are waited for without a
  deadline, so a fair scheduler does not make them end, and a liveness property
  would rest on a fairness the code does not have.

## Proofs

Each theorem is for every value of the constants; its module's ASSUMEs are what
it is proved from, and TLC evaluates them in a run.

* `FilingProofs`, the archive: `TypeCorrect`, `NeverTorn` from `WholeInv`: what a rename is
  about to move is complete, because a failed write ends the call before it.
  `IndexAlwaysSound`, `ArchiveIsAppendOnly` from `SoundInv`, assuming that
  archivers do not overlap (`Serial`) or that no two admissible documents derive
  one identity (`NoSharedIdentity`): the rename puts a copy in place, so the copy
  in hand must be right, the document must be on file when the row is made, and
  the path about to be written must be free or already right.  `AcknowledgedIsListed`
  and `Refinement` from `CompleteInv`, assuming `Serial`: nothing else changed the
  index since the copy was made.
* `FilingProofs`, the document: `NothingTranslatedIsFiled` and `FiledStandsForGood` from
  `PaperInv`: an honest document carries the probe's verdict on its host, and a
  filed one is an admitted document sealed over what it says; sealing changes
  nothing a gate or a digest looks at.  The second assumes that a record of
  digests is not None.  `WarningsAreRefusals` from `SweptInv`, which ties the
  document to the block the preview was of; each warning then has its gate.
  `EditsAreNamed` from `EditMoves`: each edit changes the part of the document
  one digest is over, and no other.
* `HeapProofs`: `WindowsExclude` from `LockInv`: a thread has its flag set exactly
  while it measures and then owns the lock; that survives a drop because the
  outermost window, and only it, carries the lock and the order to clear the
  flag.  `CountsWhileOpen` and `ProbeIsCounted` from `ArmInv` on top of it: each
  window found the counting flag up exactly if it was opened inside another, so
  that dropping it leaves the flag as the window below needs it.  `AnswersHold`
  from `LiveInv` and `PeakInv`: once the blocks on their way to the counter are
  counted it differs from what the process holds by `Owed`, which no step
  changes, so that a baseline is off by the threads that were between a block
  and its count, one each; and as long as nobody else
  allocates, the peak and what is about to become the peak are the largest value
  the counter had since the baseline.  Threads are counted, so it is assumed
  that `Thread` is finite.
* `MatrixProofs`: `WorktreesAreDropped` from `TreeInv`: a worktree is owned by the
  version at work, unless its driver was killed or its removal failed.
  `FamiliesNeverMix` from `FamilyInv`: what a driver is about to rename into place
  is of one family, also if the history has changed since it was read.
  `SnapshotsAreOfTheirCore` from `CountInv`, `KindInv` and `CoreInv`: the binary in
  a matrix's target directory links a version of its own list up to the one at
  work, is stamped for that one or an earlier, and what passed the
  identification has a stamp that version cannot be told from.  `OutcomesAreToldTrue` from `SerialInv`: while one
  driver is at work no other touches the file, so what it loaded is the history
  with its snapshot appended.  Of a history that is found it is assumed that it
  is a sequence of one family, or unreadable.
* `MatrixProofs`, the suite: `NothingStays` from `LeftInv`: outside the reference's
  root the scratch directory holds what killed children left, and inside it
  something only while there is a reference, whose drop removes the root.
  `TurnsAreTaken` from `TurnInv`: what is left of the turns is the round robin from
  some place on (`TurnsGoRound`, from what a concatenation of laps of one length is
  at any place, `IsPlace`), so that from there on two engines differ by at most one
  (`TurnsAreEven`); and the timed turns gone are at least the samples.
  `SilenceIsEquality` from `GateInv`: the gate spoke of the rows it would speak of
  now, and engines it says nothing of have the reference's grids or one tile more
  on top (`ApexIsOnTop`).  On the way it is shown that the representative of a row
  is one of its samples, for any number of them: two ranks are the median
  (`WallIs`), and one sample is nearest it.  `PassesAreEarned` from `ScoresInv`: a
  row has the verdict of its own check, and while nothing deviated the reference is
  what was planned, or libvips' extension of it.  That the check then looks at
  something is `MidLevelIs` (the level of median rank exists, by `RankIs`: in a
  finite set of numbers one has so many below it) and `SampleIs` (the first tile is
  in every sample); that what it looked at are tiles is `GridIs`.  Assumed: a list
  of sizes and the levels of a plan are not empty (`parse_sizes`), and `Null` is no
  number, verdict or reference (`NullAssumption`).
* `PublishProofs`, capture: `AllFamiliesOrNone` from `CaptureInv`, for captures in
  flight at once too: one that publishes, or broke off while it did, has a
  document for every family, because `Decide` looks at documents and not at the
  refusal list.  `RepoStaysCitable` and `PublishedIsKept`, for captures one after
  another (`SerialSpec`), from `RepoInv`, which says of the one capture at work
  how its staged files follow the repository's (`Sound`): documents, then rows,
  then the history, then the rest, each naming only what was copied before it;
  and, for torn documents, from `CopiesInv`: what was copied is there, and what is
  torn, in the repository or in a copy of it, was torn where some capture broke
  off.  Assumed (`CaptureAssumption`): documents of two families have different run
  ids, because one machine sweeps the families of a capture one after another.
* `PublishProofs`, import: `HistoryStaysTheArchives`, `EntriesNeverDisagree` and
  `ImportedIsKept` from `ImportInv`: the copy that was read and the committed
  history are whole in the same sense as the file, and the document at hand was
  admitted to the copy its entry goes into.  Both halves rest on what `Kept` makes
  of a history (`KeptKeeps`), an induction over its length.  Assumed of documents
  (`ImporterAssumption`): a family is one the config knows, a capture time is a
  number, and a torn file is neither a history nor an index.  Run ids of two
  families may be the same.
* `SweepProofs`: `AttestedByItsCell` from `VerdictInv`: once a cell has verdicts
  they are of the artefacts at hand; and from `AttestedIsObserved`: `attest()`
  leaves no reason only when both readers opened, since the floor is not zero.
  `RowsAreTheirChildren`, `DisagreementIsSeen` and `FailuresAreSeen` from
  `WalkInv`: the folded run of a key is a summary of the answers its children
  gave so far, series by series and invariant by invariant, and the rows are made
  of it.
* `ContestProofs`: `HighIsQuiet` from `QuietInv`: a repetition is filed under the
  worse of its two readings, a reading that is missing never covers a contended
  one, and the worst of an account is below 2 only if nothing in it was.  Assumed
  of readings: that they are in one of the four classes.  `AttestedRowsAreMeasured`
  from `MeasuredInv`: every repetition of an account was filed by the contender
  the account is of, and what it left passed that contender's own verdict, so
  that `verified` of an answer says of the artefact what the row will say.  On the
  way it is shown that a label names one variant (`LabelsParse`), that an archive
  `attest_archive()` accepts has no tile lost and no sampled tile wrong, that the
  pyramid libvips cuts is not longer than the planner's (`VipsCutsNoMore`), and
  that an engine that reproduces itself and agrees with one other has left one
  grid and one count of tiles (of engines nothing compares pixels).  Assumed of the cells: their tile counts are numbers, and a scan halved
  `MaxLevel` times is within half a tile; both are arithmetic with powers of two,
  which the provers do not have and TLC evaluates.  `RowsAddUpToRepetitions` from
  `AccountedInv`: of every open account the results, the failures and the jobs
  still to come are the repetitions, and the open accounts are those that have
  rows which are not skipped.  That the schedule opens them so is `TurnsW` and
  `TurnsP`: rotated by whatever amount an order is the same contenders
  (`RotationIsOrder`, a counting argument over a shift modulo their number), no two
  contenders are the same (`ContendersDiffer`), so each has its job once a lap
  (`EveryoneHasTurns`).  That a row of times lacks no sample its account has is `ReplyIsFull`
  (`ReplyIsFullP`): what a child of a mode reports holds every time of that mode's
  columns, and every field of them if nothing optional is missing.  A row that is
  shorter has the reason `reps` by its length.
  `HealthySweepsAreWhole` from `HealthyInv`: as long as nothing was spent on a
  fault, no account holds a failure or a load above 0, a child runs under 0, and
  each timed engine has what was planned of it, with its repetitions to come making
  up the number.  That the checks then turn nothing away takes what they compute; what is left to
  hold against a row is `cov` and `timer`, which no theorem is about.
  A scattered build has as many addresses as tiles: `FedIsAll`, because an odd
  multiplier tells apart any two positions below a power of two (`ScatterTells`,
  `OddKeepsPowers`, an induction over the power).  The pyramid `vips dzsave` cuts
  has as many tiles as the levels the reader asks for (`VipsCutsAsMany`: halving by
  turns is dividing by a power, and a side within a tile is one tile).  Engines that
  all did their work agree with one another (`EnginesAgree`).  Assumed: `2 ^ 0` is 1
  and each power is twice the one before, for the exponents in use; at least two
  engines, as the source fixes three; and `Null` is no grid, count or fact.
* `ScenarioProofs`: `PhasesAreApart` from `SplitInv`: nobody has finished the sink
  until the boundary, and at the boundary every tile is in it.  `AnswersAreWhole`
  from `ChildInv`: what a thread has looked up and what it still has to is its
  chunk, and the chunks, put together, are the walk, whatever the number of
  threads (`ChunksMakeTheWalk`), so that a pass all of whose threads ended is the
  walk in an order; what was kept and what is left are the repetitions.
  `EveryRequestIsCounted` from the same: an operation is counted once, after those
  before it, and the sum of the counts is the length of what the file served.
  Assumed of the plan: it is a sequence that is not empty.

Where a proof needs an induction over the length of a sequence, the definition
is a recursive function (`Sifted`) or an operator of the library that is one, and
`SequenceProofs` has the lemma: what a filter keeps and in which order, what a
concatenation of many sequences holds and how often, that the orders of a set
have each member once.  They rest on `NatInd`, the induction as a statement about
a set, from the least number not in it; the library's induction theorems, which
take an operator, cannot be used.

Every invariant and action property of the passing runs is a theorem.  Out of the
provers' reach, and only model-checked, are liveness (`GateEnds`, `PassEnds`) and
what rests on `ENABLED`; what a recursive definition computes for every input is
shown only where it is a recursive function and the fact one about a set.

## Findings

Each is a run that TLC finds violated; the quotation is in `PROJECT.json`.

* `import_baseline`: a missing baseline is refused after the refusals were looked
  at, so the run is published and the exit code is 0.
* `paper_stamp`: cargo does not run the build script again after a commit on the
  same branch or an edit of a source file, while it recompiles the library: a run
  is filed under the commit and the clean state of an earlier tree.

Where a property is checked under a condition, the condition is needed:

* `AckedIsListed` and `ImplementsStore` fail with two archivers: both read the
  index, and the later rename drops the row of the other.  `FiledIsNeverReplaced`
  fails with two archivers and a shared identity: both find the path free.
* `PublishedStays` fails with two captures in flight (`Spec` for `SerialSpec`):
  the later one publishes copies it took before the earlier published.
* `ImportedRunStays` lets one import drop an entry: that of a run of another family
  under the same run id.  Two sweeps started in one second derive one id, which is
  why archives are per family (`import-run.mjs:381`); the history has one entry for
  an id all the same (`import-run.mjs:1315`), so the later import replaces the other
  family's.  A capture sweeps its families one after another, which cannot give
  such a pair; importing by hand can.
* `AnswersAreTrue` of the peak fails when another thread allocates between the
  baseline and the store of the peak in `arm()`.
* `OutcomesAreTrue` fails with two drivers in flight on one history: the last
  rename drops what the other appended.
* `PreviewDecides` leaves out three cases in which the preview and the gates do
  part: `--provenance` warns of, and exits 1 for, a library off its main
  (`storage_aggregate_main.rs:252`, `provenance.rs:1152`), which nothing refuses;
  it warns of dirt that `--allow-dirty` then admits; and perturbing rustflags are
  refused and not warned of.

Observed while modelling, stated by no run:

* A scenario a child declined is filed as failed (`storage/mod.rs:946`), and where
  repetitions own processes one backend runs all of its own before the other
  begins (`storage/mod.rs:1130`), though the comment speaks of alternation.
* A matrix whose every child failed appends a snapshot and exits 0
  (`version_matrix.rs:685`).
* `--check` admits a document with a number outside the canonical range, which
  `--archive` then cannot file (`integrity.rs:272`): the noise floor of placements
  that agree is the residue of a rounding.
* `cpu_model()` and `fs_type_name()` answer "unknown", which the gates for an
  absent value admit (`archive.rs:193`).  A Cargo.lock that cannot be read is
  warned of as something that will be refused (`build.rs:464`), and is not.
* A binfmt entry of Rosetta counts as evidence of translation for any
  architecture (`emulation.rs:401`).
* The digest a filed document *states* decides whether a second one of its name is
  the same (`archive.rs:887`), not the digest of what it holds.
* `rows_for()` of the engines has a branch for a cell that produced and failed
  nothing, which no sequence of its callers reaches.
* In a pass of one thread a panic is not caught, and the exit status of the
  children of `first_lookup` is not looked at.

## Not modelled, and why

* Statistics and the estimator of the noise floor: floating point, which neither
  TLC nor the provers have.  `Paper` has the floor's effect on a document.
* Charts, tables, formatting: pure functions to text.  The reader contract: a text
  transformation.  Formats and flame graphs, pin checks: sequential calls into
  other libraries and comparisons of versions.
* `scalability.rs` and `cross_version.rs`: sequential measurement and tables over
  the history.
* The parsing of /proc, of mount tables and tool versions, and the command lines:
  the outcome they can have is in `Provenance` and `Paper`.
* `settle()` of `capture.py` is one step that succeeds or refuses; its arithmetic of
  the time waited is not modelled, nor are a child or an ssh step that never
  returns.  No property claims that a capture or a sweep ends.
* Container images and scripts: command lines around the binaries.

## Where the composition ends, and what is left

`Capture` composes filing and import; `Paper` composes the build, the sweep's
document and the archive's gates; `Contests` and `Scenarios` compose their parts.
`Sweep` takes from `Scenarios` that a child answers one of five things, and
`VersionMatrix` takes from `Harness` that a suite is the set of its cells.  Worth
doing next, in this order:

1. `Settle`: the loop of `settle()` and what it says it waited.
2. The children of `Sweep` as `Scenarios`, and the suite of `VersionMatrix` as
   `Harness`, by refinement.
3. An abstract publication (a repository that changes by whole captures) that
   `Capture` implements when captures neither overlap nor break off.
4. Comparability and the order of versions as operators over the history, checked
   over bounded inputs.
