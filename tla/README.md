# A TLA+ verification of replay-renderer

replay-renderer takes a path through a tree of recorded executions, splices the
recorded segments into one container, proves by re-execution that the path
replays as it was recorded, localises a divergence when it does not, and turns
the replayed frames into video. These modules model the parts whose correctness
is not plain from reading them; each is translated from the Rust source under
`crates/`, and `PROJECT.json` maps every definition to its lines.

## 1. Inventory

| Component | State it keeps | Operations | What makes it correct |
|---|---|---|---|
| `replay-verify/mock.rs`, `hv.rs` (MockHypervisor, RunBudget) | run counter, the caller's budget, the locals of two binary searches | `verify_segment`, `run_to_icount` | the divergence stays in the window; only a spent budget keeps it from being exact; the cost is logarithmic |
| `replay-verify/bisect.rs`, `report.rs` (driver) | the outcomes of phase 1, the budget, the report | `bisect` | a report always, unless the hypervisor faults; flaky replay and bad recording told apart; an EXACT report is true |
| `replay-verify/verify.rs` | the edge in hand, the last hash | `verify` | the first bad edge, one run per edge, each from its own parent; a node without a hash only stops it there |
| `replay-splice/dhilog.rs` | record counter, last icount, END seen | `parse`, `records`, `validate_structure` | accepts only sealed, ordered, complete segments; blames R4 or R5 rightly |
| `replay-splice/rules.rs`, `assemble.rs`, `error.rs` | the pass and the segment in hand, the entries | `validate`, `assemble` | the container can be replayed edge by edge; the error is the first in R1..R6 |
| `replay-encode/session.rs` | child, stdin, drainer task; three futures of one call | `spawn`, `write_frame`, `finish`, drop, `run_capture_stdout` | no pipe deadlock; errors carry the whole log; success means whole frames, or the whole output; no child outlives the session |
| `replay-encode/probe.rs` | the listing child, the smoke session, the encoder table | `probe_encoders` | hardware exactly when proven; always returns; leaves nothing running |
| `replay-encode/stills.rs`, `args.rs` | none | contact sheet, strip, argument lists | bounds of tiles and indices |
| `replay-splice/container.rs` | the file; the reader's expected offset and segments | `write`, `read` | reads back what it wrote; one encoding per container; what it accepts can be replayed; never panics |
| `replay-mockhv/guest.rs`, `writer.rs` | register, chain, icount, emission order | `GuestSim::step_to`, `fold_bytes`, `write_segment` | what is sealed is well formed; a replay recomputes its hashes and differs only from a defect on |
| `replay-mockhv/corrupt.rs` | none | damage a segment | - |
| `replay-frames` | the pack; the reader's offset and records | RFP `push`, `finish`, `read_rfp`; convert, scale, LZ4 | a render resumes only from all the frames; a torn pack keeps those before the tear |
| `replay-overlay` | the HUD's list of button events | `from_segments`, `held_at`; counter, banner, drawing | a frame shows what the guest held when it was captured |
| `replay-types`, `replayd`, `reexec-agent`, `replay-proto`, `xtask` | - | newtypes, empty crates, tooling | - |

How they interact: `assemble` checks a path with `validate` (which runs
`validate_structure` over every segment) and builds a container. `verify` calls
`verify_segment` once per edge on a shared `RunBudget`; `bisect` calls it
repeatedly with one budget of its own, then `run_to_icount`. A replay yields frames,
which go into a pack, and button events, which go into the HUD's timeline; the two
meet again when the overlay is drawn. All of this is synchronous: the callee runs
on the caller's thread. Only the encoder is concurrent: the caller's task, a
drainer task and the ffmpeg process meet in bounded pipes (in `run_capture_stdout`
three futures of one task and three pipes), and a timeout in `probe_encoders` may
drop a session at any await. What outlives a process are files: containers and
packs, which may be cut, damaged or made by another writer before they are read.

The hard behaviours are therefore: budgets running out at every point of
searches and drivers; searches at their boundaries (an event at the boundary of
two epochs, the first record, one icount left); the order of checks in
validators, where the first of several broken rules must be named; a flake that
shows in some runs and not in others; the encoder's pipes, its child dying,
hanging or going deaf, and its session being dropped; and files that end early or
lie about their lengths. `PROJECT.json` lists each at its
line under `hazards`, with the property that covers it.

## 2. Modules

| Module | Models | Runs |
|---|---|---|
| `MockHypervisor` | one `verify_segment` call | `mock`, `mock_cut` |
| `MockHypervisorProofs` | its theorems and those of `BisectDriver` | - |
| `GuestSim` | the toy guest, as operators | through `resimulation` |
| `SegmentWriter` | `write_segment` over the guest | through `resimulation` |
| `Resimulation`, `ResimulationProofs` | honest replay and probes of what `SegmentWriter` wrote (`VirtualFold`, `sim_to`) | `resimulation` |
| `SegmentTruth` | what a replay finds, for the modules that search | through `mock`, `resimulation` |
| `BisectDriver` | `bisect`, over `MockHypervisor` (EXTENDS) | `bisect`, `bisect_hash` |
| `PathCheck` | the abstract promise of path verification | through `verify` |
| `VerifyPath`, `VerifyPathProofs` | `verify`, over `MockHypervisor`; implements `PathCheck` | `verify` |
| `SegmentValidator`, `SegmentValidatorProofs` | `validate_structure` on a file revealed record by record | `structure` |
| `SplicePath`, `SpliceProofs` | `validate` and `assemble` on a path; the proofs are of `ContainerFile` too | through `splice` |
| `ContainerFile` | `write` and `read` of the `.dilog` file, over `SplicePath` (EXTENDS) | `splice` |
| `FfmpegChild` | the child process and its pipes (external) | through `session`, `capture`, `probe` |
| `EncoderSession`, `EncoderSessionProofs` | a session: caller, drainer, child; the proofs are of `EncoderProbe` too | `session` |
| `RunCapture`, `RunCaptureProofs` | `run_capture_stdout`: writer, reader, drainer, child | `capture` |
| `EncoderProbe` | `probe_encoders`, over `EncoderSession` (EXTENDS) | `probe` |
| `FramePack`, `FramePackProofs` | the `.rfp` pack: writer, accident, reader; the proofs are of `FrameOverlay` too | through `frames` |
| `FrameOverlay` | a replay that fills a pack and the HUD's timeline, over `FramePack` (EXTENDS) | `frames` |

### MockHypervisor
State is the call's locals under the code's names (`lo`, `hi`, `ea`/`eb` and
`na`/`nb` for the two pairs `a`, `b`, `firstBad`), the budget (`used`, `maxRuns`)
and `runs`. One action per budgeted run: the honest replay, an epoch probe, an
icount probe, the confirming probe; and one for each way a loop ends.

The one abstraction is of hashes, and `SegmentTruth` holds it. The guest folds
bytes into its register by a bijection, and the chain folds the register, so, collisions aside, two replays
that differ at an icount differ at every later one. A segment therefore carries
the icount `defect` at which the replayed side first differs, and a probe asks
whether that lies at or before the icount it probes. The rank of records within
an icount matters: a defect at icount D folds *after* the EPOCH_HASH record at D,
so an epoch chain at D still agrees while the chain value does not. That is why
the code's second search starts at `lo` and not `lo + 1`, and a mutant of that
line is refuted. Recordings may also be damaged: wrong epoch hashes, a wrong end
hash, a malformed EPOCH_HASH payload. Record payload faults other than that one
(an unknown canonical kind reaching the fold) are left out: R4 excludes them.

### GuestSim, SegmentWriter and Resimulation
These justify the abstraction. Here a hash is what was hashed: the register is
the sequence of the byte strings folded into it, the chain the sequence of
registers it took in at boundaries; FNV-1a and BLAKE3 are so taken to be free of
collisions. `SegmentWriter` emits the least emission by (icount, rank, tie) where
the code sorts and walks; one action per kind of emission, and `Seal` for the
header. `Resimulation` goes on from a sealed segment with one honest replay or
one probe, which as in the icount search simulates the replayed side and then
the oracle; an epoch probe is the first half of one. A script and a defect agree
as in the fixtures: `skew_at` is the `RecordedSkew`'s icount. `end_vns`,
`boundary_rip` and the byte layout are left out.

### BisectDriver
`phase` is the place in `bisect`; `outcomes` the phase-1 results; `report` what
it returns. Every call of the hypervisor is the module above, step by step, on
the same budget. Hashes are compared through a name of what was folded
(`CallOutcome`), so that two runs of a flake agree exactly when they fall into
the same period. The driver may start on a hypervisor that has run before
(`opts.before`), which shifts the flake's periods.

### PathCheck and VerifyPath
`PathCheck` settles edges one at a time: good, bad, given up, or without a state
hash to be compared with, where verification can only stop. `VerifyPath` is
`verify`: `BeginSegment` calls the hypervisor on the next edge from its parent's
snapshot; `HashMissing` is the `expect` that panics on a node whose
`attrs.state_hash` is None, before its edge is replayed; the others are the
outcomes. `verify` is checked for paths assembly would refuse too, so that what it
relies on is visible. With matching bases (rule R3) no replay is refused for its
base. R6 answers `VerifyUnsupported` to a path with a missing hash
(`rules.rs:183-195`), and `verify` relies on that: given one it panics, after the
runs of the edges above, unless the path is settled before. A hash that is there
but is not the segment's needs no rule: it is a divergence of its edge.

### SegmentValidator
The file is not chosen in advance: each step reveals a record from `Records` or
the end of the file. The checks are a tuple of outcomes in the order of the
code; the verdict is the first one broken. `seq` is compared with the counter
modulo `SeqMax + 1`, the width of u32, after the `TooMany` guard of the code:
the model shows that the guard is what makes the comparison sound. Checks on AUX
payload lengths other than END and all byte offsets are abstracted to `torn`,
`readable`, `padZero`.

### SplicePath
`stage` is the rule being run and `at` the segment, so every pass is a walk over
the whole path. The structural verdict of a segment is an input ("Ok", "R4" or
"R5"): `SegmentValidator` is the module that computes it.

### ContainerFile
It goes on where `SplicePath` ends: the container assembled is written, and read.
A file is a sequence of cells, a cell a run of bytes; header, table entries and
footer are multiples of `Align` cells as theirs are of 8 bytes, META and blobs
have any length and are padded. The footer's hash of cells is taken for the cells
themselves. Between writer and reader a file may be damaged (`Damage`: the footer
does not follow) or be another writer's (`WrittenOtherwise`: the footer is good):
a cell is changed in any field, replaced, inserted or lost. The checks of the
reader are tuples of outcomes in the order of the code, its additions are modulo
`UsizeMax + 1` and its slices checked, an overflow or a slice outside the file
being the outcome "Panic". The counts of the header have the width of `U32Max` and
are cut to it when written; a file, like any `Vec`, is no longer than half of
`UsizeMax` (`Fits`). The hash "x" and the number `UsizeMax` are what bytes of
another kind read as, and no segment has that hash. `guest_image_id`, `fps` and `log_id`, which are carried
and compared with nothing, are left out.

### FfmpegChild and EncoderSession
`FfmpegChild` grants the child what an operating system grants: it may read, log
(blocking on a full pipe), close its stdin, exit with any status or crash, at any
time. `EncoderSession` has one action for what runs between two awaits. The
caller writes, finishes, goes on after an error or drops the session when it likes;
`run_with_frames` is one of its behaviours. A caller that cancels one `write_frame`
and keeps the session, which the API allows and nothing in the repository does, is
not modelled: the half-written frame and the lost stderr handle would break
`SuccessIsWhole` and `ErrorCarriesLog`. An
error of `wait` itself (a failing system call) is left out.

### RunCapture and EncoderProbe
`RunCapture` adds a stdout to the child; an action is what the writer, the reader
or the drainer does between two awaits, and `Joined` and `Waited` are the two
awaits of the call itself. `EncoderProbe` is a caller of `EncoderSession`
(`run_with_frames` under a timeout) with the listing child before it, whose pipes
`output()` drains and which is therefore only running, or over. A timeout may fire
at any point of either; a child may hang at any point.

### FramePack and FrameOverlay
A pack is a sequence of cells again: the three of a record are 12, 4 and 12 bytes
and the four of a footer 12, 4, 12 and 21, so that a reader that misses the footer
takes for a record what the code would. `file` is what is on disk; one accident
cuts it anywhere or changes one cell. `ends` and `sound` record where each frame
ends and how much of the file is as it was written; no action reads them. A frame's
bytes may look like the footer of another pack, but not like one that hashes the
pack it is in (`HashesNoPack`): nobody has the hash of a file before the file.
A frame has fewer than 2^32 bytes: `push` casts their number to u32 (`rfp.rs:131`),
and the cut of a larger one is not modelled.
`FrameOverlay` runs the replay: PAD_SET records in the order `write_segment` gives
them, the guest's latches that are part of every snapshot, and a frame pushed at
each FRAME_MARK. `HeldAt` knows only the numbers in a frame's record.

## 3. Runs, bounds and what they show

| Run | Instance | Shows |
|---|---|---|
| `mock` | segments of 6 icounts with up to 3 epoch records (every non-decreasing list, every defect place), damaged ones, budgets 0..9 partly spent | the window holds the divergence, is exact with runs to spare, never widens; cost bound; the call returns |
| `resimulation` | segments of 4 and 5 icounts with epochs of 2, up to two events, three lists of frame marks, every skew and flake, a probe at any icount | the oracle reproduces the recording, the sides differ exactly from the defect on, the honest verdict is `SegmentTruth`'s; what is written is well formed; no step backwards |
| `mock_cut` | the writer's recordings only | *violated*: a budget spent in the epoch search can leave the divergence outside the window (finding) |
| `bisect` | 5 icounts, 4 epoch shapes, skews and flakes of period 1..3, up to 3 phase-1 runs, budgets 0..12 | no `NoBudget` escapes, classification follows the evidence, exact reports are true |
| `bisect_hash` | the same | *violated*: a divergence report whose actual hash is the recorded one (finding) |
| `verify` | paths of up to 3 edges over 5 segments, one wrong base, one wrong and one missing hash anywhere, budgets 0..4 | `VerifyPath` implements `PathCheck`; one run per edge, none to localise; adjacency |
| `structure` | seq of 3 values, files of up to 5 records, every single damage | what is accepted is well formed; a rejection names the rule broken where it is made |
| `splice` | paths of up to 3 edges with every pair of 13 faults; the files of containers of one edge with up to two edits and of two edges with one; META and blobs of 1 and 2 cells, `Align` 2, `UsizeMax` 127, `U32Max` 63 | the container is replayable, the error is the first; what is assembled is read back; what is accepted is canonical and replayable; the reader does not panic |
| `session` | frames of 2 units in a pipe of 1, a log of 3 units in a pipe of 1, a tail of 2, 2 calls | logs, wholeness, no deadlock, nothing outlives |
| `capture` | three pipes of 1 unit; input and output of up to 3 units, a log of 2, a tail of 1 | the answer is whole; the call returns unless a deaf child lives on |
| `probe` | two smoke frames of 1 unit, pipes of 1, a log of 2 | hardware exactly when proven, the probe returns, nothing outlives it |
| `frames` | packs of up to 2 frames, one kind looking like a footer; every cut, every damage of one cell; hashes that read as a length of 0, 1 or 9; two ports, 2 segments of 2 icounts, 3 button events | resuming is safe, torn packs keep their frames, the HUD shows what was held |

Why the bounds are enough: three epoch records are the fewest with a midpoint, a
left and a right half, and 6 icounts leave room for a defect before, at, between
and after them; three phase-1 runs are the fewest that differ in the middle; a
path of three has a first, an inner and a last edge; files of 5 records pass the
3-valued seq by two; pairs of faults are what an order of checks can get wrong;
ends on a boundary and off it, two events that may share an icount with
boundary, skew and frame mark are every tie the ranks decide;
frames larger than their pipe and logs larger than theirs are what blocks; lengths
that need padding and lengths that need none, two blobs so that an offset depends
on another's length, and `UsizeMax` far enough from the file's end that a length
can reach it from below and past it; two frames so that one is before and one at
or behind the accident, and lengths read from a hash that end a record before, at
and past the end of the file.
`MaxRecords`, `MaxEdges`, `MaxLog`, `MaxOut`, `MaxInput`, `MaxCalls`, `MaxEditing`,
`MaxFrames`, `MaxSegments`, `MaxIcount`, `MaxEvents` and `MaxEventsCut` are the
only bounds on steps; everything else ends by itself. `MaxEventsCut` is 0: button
events and accidents do not meet, since an accident changes no event and the frames
a reader takes from the file are compared with those pushed by `ResumeIsSafe`. Deadlock is checked in every run: each module
has an explicit stuttering step for its end, and only for that.

Each property of a passing run has a mutant: a plausible slip in a mapped
definition that TLC then catches by that property.

**Fairness.** `CallReturns`, `BisectReturns` and `ImplementsPathCheck` assume weak
fairness of the one thread that runs the call. `EncoderSession` assumes that a
runnable task is run (the tokio runtime), and of ffmpeg that it reads and logs
while it lives, exits once it has read the end of its input, and dies of SIGKILL.
It does not assume that the caller calls, that the child exits otherwise, or that
a child which closed its stdin ever exits: `FinishReturns` excepts that child,
since `finish` has no timeout, while `WriteReturns` does not, since a failed write
kills. `CaptureReturns` makes the same exception: `run_capture_stdout` has no
timeout of its own and a failed write does not kill. `EncoderProbe` assumes nothing
of ffmpeg but that it dies of SIGKILL, neither of the listing nor of the smoke
encode, and of the probe that it is run and that its timeouts fire: `ProbeReturns`
holds though both children hang for ever. Files have no fairness: they are safety.

## 4. Findings

- `mock.rs:379`: when the budget is spent in the middle of the epoch search, `lo`
  is raised to the epoch before the last bad probe although that epoch was never
  probed. The divergence can then lie below the reported window. The comment at
  line 358 says the current, wider window is kept. (`mock_cut`)
- `mock.rs:461`: `run_to_icount` replays as segment 0, where no defect is
  injected, so the fallback of `bisect` reports the recorded hash as the actual
  one. (`bisect_hash`)

Met on the way and not given a run: a missing `input_log_id` is named R3 but
raised after R6 (`assemble.rs:61`), so it is the exception in `ErrorIsTheFirst`;
`counter.rs:12-14` speaks of a clamp where line 22 multiplies; `budget_exhausted`
is true of a report made exact by the last run. The hash in a pack's footer does not
cover the footer's own count and complete flag (`rfp.rs:197`): a flipped flag is
the one damage of a single cell that makes a pack resumable which was not meant to
be, and `ResumeIsSafe` says so; its frames are all there even then.

## 5. What is proved

Assumptions: only those the modules name (`SegmentsAssumption`,
`BudgetsAssumption`, `ScriptsAssumption`, `DefectsAssumption`, `PayloadsAssumption`,
...), which say of what shape the inputs are. There is no bound on the length of
segments, paths, files, logs, scripts or pipes. Every safety property a passing run
checks is a theorem.

- `MockHypervisorProofs`. `WindowSoundness` and `Resolution` rest on an invariant
  of two parts. `Struct` ties the searches to their window: while the epoch search
  runs, `lo` is the record before `ea`, `hi` is the record `firstBad`, and
  `eb = firstBad - 1`; in the icount search `lo <= na <= nb = hi`; and the epoch
  search is cut only by a spent budget. `Truth` says of a genuine recording that
  the divergence lies in `lo..hi` during the epoch search and in `na..nb` during the
  icount search. The properties alone are not inductive: `WindowSound` does not say
  that the jump of `lo` to the record before `firstBad` is right, which holds
  because an uncut search ends with `ea = eb + 1 = firstBad`. `NoWidening` is an
  action property, from the same invariant.
  `LogarithmicCost`: `Cost` adds to the runs spent the halvings of what is left to
  search, and every probe pays for one (`HalvingPays`); that `Halvings`, a recursive
  function, is defined and monotone is shown by induction.
  Of `bisect`: `DriverInv` is the invariant of the call under way, what its runs of
  Phase 1 returned (`PhaseOneRuns`: which flake period each fell into), and what the
  report owes to them (`Reported`). From it `BudgetIsAsked`, `Classification`,
  `ExactReports`, `ReportWindows` and `UnexhaustedReports`. `PeriodsChain` is the
  step from comparing neighbouring runs to comparing all.
- `SegmentValidatorProofs`. `Walked` says of the records accepted so far what
  `AcceptedIsWellFormed` says of the whole file; `Reached` says what has been checked
  where the walk stands and where in the file the rule of a verdict is broken: by the
  header, by the last record read, or, only for R4, by the log as a whole
  (`Complete`). That `seq` equals the index needs the
  guard `count <= SeqMax` and the lemma `WrappedSmall`.
- `ResimulationProofs`, the writer. `Written` says of the records so far what the validator
  asks of a whole file; `Ahead` that everything pending comes at or after them and
  that END is pending until it is the last record. Neither the order nor "END is
  last" is inductive alone: both need that the pending emissions are inside the
  segment (`BoundaryInside`: k epochs of E icounts fit if k is at most end / E)
  and that END has the highest rank. The theorem is about the validator's own
  definition of a well formed segment, through an instance of `SegmentValidator`.
- `ResimulationProofs`, the replay. `IsRun` is the sequence of guests and folds a
  side has after each record; `RunExists` and `RunsAgree` make it *the* run. `RecInv`
  says that the recording guest is where the oracle's run over the records so far is,
  or has just made the skew that run will make before its next record; this needs
  that the skew is emitted exactly where `Due` will fold it, which is the rank of
  SKEW. `Twin` is what a fold makes of two equal guests, and every later step and
  event keeps: one register is longer by an event, and the last register of the chain
  is once a boundary has passed. `RunsApart` carries it along two runs, and
  `TwinsDiffer` reads off it that the hashes differ from the fold on and the chains
  from the boundary after it. `ReplayInv` places the simulations on their runs; the
  theorems `OracleIsTheRecording`, `DivergenceIsMonotone` and `HonestIsRight` compare
  where the runs stop. So what `SegmentTruth` assumes for the searches is proved of
  the folds. `GuestGoesForward` is by the same invariant: a fold not yet made is never
  behind the guest (`InTime`).
- `SpliceProofs`, the path. `Swept`: no segment before `at` breaks the rule of the
  current pass, and no segment any rule of an earlier one. `Stopped`: an error is of the
  segment in hand, which breaks the rule of the pass. From these, `Replayability` and `FirstError`.
- `SpliceProofs`, the file. The layout: a concatenation is where each of its parts lies
  (`Lies`), so `BodyLies` says where in a file header, META, table and every padded
  blob are, and `StoredIs` that a file of which this holds *is* what `write` makes. `Pad`
  is additive behind an aligned offset (`PadAfter`), which is why the writer may pad
  lengths and the reader offsets. The reader: `Reads` says that the header is good and
  each segment taken so far is what the file holds at its place, is one of the path's
  and follows the one before it (`Taken`); a segment accepted extends it (`TakesOne`),
  and at the end of the file it is the whole layout (`ReadsCanonical`). `FileOK`: the
  file is made of cells and is, up to a damage, a body under its own hash; a damaged
  one has no good footer (`DamageIsSeen`: one edit moves the last cells, changes them
  or leaves a body other than the one hashed). `FInv` joins these with `IInv` of the
  path, since what makes the reader accept the container assembled is that no rule was
  broken: `WroteHeader`, `WroteExtent`, `WroteContent` and `WroteEnd` go through its checks
  one by one. From `FInv`: `ReadBack`, `OneEncoding`, `AcceptedReplays`, `ReaderIsTotal`.
  Assumed: META, a JSON object of a few ids and names, is not empty and has fewer than
  2^32 bytes, and a path fewer than 2^32 edges (`write` casts both to `u32` and would cut
  what is larger); no blob is empty or longer than a `Vec`; header and entries are
  multiples of `Align`.
- `EncoderSessionProofs`. `LogAccounted` (logged = drained + in the pipe, and the
  drainer ends only when the child is gone and the pipe empty), `HandleKept`,
  `Reaping`, `FramesWhole`, `InputAccounted`. `ErrorCarriesLog` alone is not
  inductive: it needs that the handle is still there for the first error and that
  no more is logged once the child is reaped. `ProbeInv` carries the same invariant
  through `probe_encoders`, whose every step on the session is one of the session;
  `HardwareWorked` follows.
- `RunCaptureProofs`. `LogAccounted` and `OutAccounted`: what the child has said is in
  a pipe or with the future that reads it, and a future that has ended left nothing
  behind of a child that is gone. `InputAccounted`: stdin is open until the writer is
  done. `CallInOrder`: the exit is waited for only when all three have ended.
- `VerifyPathProofs`. `EdgeInHand`: a call under way is about the next edge, from its
  own base. `OutcomeIsTrue`: what an outcome says of that edge. `OneRunPerEdge`: edges
  settled and runs spent are equal between calls. `ResultIsTrue`: a result is about
  the edge in hand, about the next one or about all. `PathCheckSafety` is the refinement: the initial
  states map to initial states, every step of the call stutters and every step of
  `verify` settles one edge, gives up on it or finds it without a hash. The liveness part of `ImplementsPathCheck`
  is model-checked.
- `FramePackProofs`. `Packed`: every record's cells lie whole behind the one before.
  `Sealed`: the footer hashes them. `Filed`: the file agrees with what was written up to
  the accident, and behind it but for one cell. `Walked`: the records read are those
  pushed up to the accident, the offset is at the end of the last of them, and on
  a cut file one more can only end the walk. The core is `FooterFacts`: a footer is
  believed only where `finish` put one and behind records that are sound (in a cut
  file the hash would stand in a cell that has none, or in a frame's bytes;
  behind a damage it would differ), and `KeptIsRead`, by which the walk then finds
  every record; so with a good hash the count and the framing add nothing.
  Assumed: what a frame is, that lengths are naturals, and `HashesNoPack`.
  Of `FrameOverlay`: `HudInv` says that a latch is what the last event for its port
  set, and that a frame shows what the last event up to its own icount set, which no
  later event can change: the replay does not go back, and leaves the icount of a
  frame before it marks another (`HudTruth`). `OverlayPack` is the pack's theorems
  for the packs of a replay.

Where a value is defined by recursion (`Halvings`, `EpochRecords`, a run, the last
event) the definition is a recursive function and the induction is made by hand: a
set of naturals that is not empty has a least element (`LeastNatural`), so one with 0
and the successor of each of its elements holds all (`SetInduction`).

Only model-checked: all liveness (`CallReturns`, `BisectReturns`, `WriteReturns`,
`FinishReturns`, `NothingOutlivesSession`, `CaptureReturns`, `ProbeReturns`,
`NothingOutlivesProbe`, and that of `ImplementsPathCheck`), which rests on fairness
and is out of the provers' reach.

## 6. Not modelled, and why

- Pixel conversion, scaling, LZ4, PNG, drawing, banner, fonts and the layout of the
  timeline (`convert.rs`, `scale.rs`, `codec.rs`, `compose.rs`, `draw.rs`, `font.rs`,
  `banner.rs`, `timeline.rs`): data transforms without control.
- `stills.rs`: index arithmetic of one expression each around drawing.
- `counter.rs`: one product in 64 bits; whether it can exceed them depends on the
  clock of a machine configuration that no source here bounds.
- `args.rs` builds lists of strings; the stubs (`replayd`, `reexec-agent`,
  `replay-proto`) are empty; `replay-types` are newtypes; `xtask` and the fuzz targets
  are tooling.
- `corrupt.rs` is represented by what it produces: the damaged initial states and
  edits of the modules above.
- `report.rs` and the diagnostics are modelled only as far as a report's claims go.
- Failing system calls that are not the child's doing: `wait`, and `read` on a pipe.

## 7. Order of work, and what is left

The modules were written in this order: `MockHypervisor`, `BisectDriver`,
`PathCheck`/`VerifyPath`, `SegmentValidator`, `SplicePath`, `EncoderSession`,
`SegmentWriter` and `Resimulation`; then `RunCapture` and `EncoderProbe`,
`ContainerFile`, `FramePack` and `FrameOverlay`; the proofs in the order of the
modules, and last those of the compositions (`BisectDriver`, `EncoderProbe`,
`FrameOverlay`), of `Resimulation` and of `ContainerFile`.

What could still be added: that a session, a capture and a probe implement an abstract
specification of a child that is run to its end, as `verify` implements `PathCheck`; and
the byte offsets of the DHILOG walk, which `SegmentValidator` abstracts to outcomes.
