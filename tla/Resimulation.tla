---------------------------- MODULE Resimulation ----------------------------
(***************************************************************************)
(* Replaying a recorded segment through the toy guest                      *)
(* (replay-verify/src/mock.rs): the honest replay of verify_segment with   *)
(* its comparisons, and the simulations a bisection probe makes, of the    *)
(* replayed side and then of the recorded side (the oracle), up to an      *)
(* icount.  The segment is the one SegmentWriter wrote; the defect folded  *)
(* into one of the sides is the one the recording was made with.           *)
(***************************************************************************)
EXTENDS SegmentWriter

(***************************************************************************)
(* InjectedDefect: "None", "Skew" (RecordedSkew) or "Flake" (ReplayNondet, *)
(* whose fold no recording made), and its at_icount.                       *)
(***************************************************************************)
IsDefect(d) == d.kind \in {"None", "Skew", "Flake"} /\ d.at \in Nat

CONSTANT Defects   \* the defects that may be injected

ASSUME DefectsAssumption == \A d \in Defects : IsDefect(d)

VARIABLES
  defect,    \* MockHypervisor.defect
  task,      \* what is running: recording, idle, honest, replayed, oracle, done
  stop,      \* the icount simulated to
  position,  \* the next record, an index of log
  fold,      \* the side's VirtualFold
  sim,       \* the simulated guest
  replayed,  \* the guest the simulation of the replayed side ended with
  verdict    \* of the honest replay

replayVars == <<stop, position, fold, sim, replayed, verdict>>
vars == <<writerVars, defect, task, replayVars>>

-----------------------------------------------------------------------------
\* The defect's fold

NoFold == [at |-> 0, bytes |-> "", done |-> TRUE]

\* Mutant: both sides fold the skew.
MutantFoldFor(side) ==
  IF defect.kind = "Skew" \/ (defect.kind = "Flake" /\ side = "replayed")
  THEN [at |-> defect.at, bytes |-> defect.kind, done |-> FALSE]
  ELSE NoFold
\* Only the recorded side has the skew, only a replay the flake.
FoldFor(side) ==
  IF \/ defect.kind = "Skew" /\ side = "recorded"
     \/ defect.kind = "Flake" /\ side = "replayed"
  THEN [at |-> defect.at, bytes |-> defect.kind, done |-> FALSE]
  ELSE NoFold

\* Mutant: the fold waits for a record past its icount.
MutantDue(rec) == ~fold.done /\ rec.icount > fold.at
\* The fold comes before the record: after the EPOCH_HASH of its icount and
\* before the canonical records there.
Due(rec) ==
  /\ ~fold.done
  /\ rec.icount > fold.at \/ (rec.icount = fold.at /\ rec.kind # "EPOCH_HASH")

\* Mutant: what is left at the end is folded whatever its icount.
MutantLeft(end) == ~fold.done
\* Mutant: a fold at the stop itself is left out.
MutantLeftBefore(end) == ~fold.done /\ fold.at < end
\* No record came at or past the fold's icount, and the simulation reaches it.
Left(end) == ~fold.done /\ fold.at <= end

Folded(on) == FoldBytes(StepTo(on, fold.at), fold.bytes)

-----------------------------------------------------------------------------
\* The simulation of one side

Start(side) ==
  /\ sim' = NewGuest
  /\ position' = 1
  /\ fold' = FoldFor(side)

\* The guest after record rec, the fold made before it if it is due.
After(rec) ==
  LET on == StepTo(IF Due(rec) THEN Folded(sim) ELSE sim, rec.icount)
  IN  IF rec.aux THEN on ELSE FoldBytes(on, EventBytes(rec.kind, rec.payload))

ReplayRecord(rec) ==
  /\ sim' = After(rec)
  /\ fold' = [fold EXCEPT !.done = @ \/ Due(rec)]
  /\ position' = position + 1

\* The guest at end once the records are through.
Finished(end) == StepTo(IF Left(end) THEN Folded(sim) ELSE sim, end)

\* The next record is within the stop.
MoreRecords == position <= Len(log) /\ log[position].icount <= stop

-----------------------------------------------------------------------------
\* The honest replay

BeginHonest ==
  /\ task = "idle"
  /\ task' = "honest"
  /\ stop' = header.endIcount
  /\ Start("replayed")
  /\ UNCHANGED <<writerVars, defect, replayed, verdict>>

\* The boundary is folded and its chain is the recorded one.
EpochMatches(rec) == After(rec).chain = rec.payload

HonestRecord ==
  /\ task = "honest" /\ position <= Len(log)
  /\ LET rec == log[position]
     IN  /\ rec.kind = "EPOCH_HASH" => EpochMatches(rec)
         /\ ReplayRecord(rec)
  /\ UNCHANGED <<writerVars, defect, task, stop, replayed, verdict>>

HonestBadEpoch ==
  /\ task = "honest" /\ position <= Len(log)
  /\ LET rec == log[position]
     IN  /\ rec.kind = "EPOCH_HASH" /\ ~EpochMatches(rec)
         /\ ReplayRecord(rec)
  /\ task' = "done" /\ verdict' = "Diverged"
  /\ UNCHANGED <<writerVars, defect, stop, replayed>>

HonestEnd ==
  /\ task = "honest" /\ position > Len(log)
  /\ sim' = Finished(stop)
  /\ task' = "done"
  /\ verdict' = IF ChainValue(sim') = header.endHash THEN "Verified" ELSE "Diverged"
  /\ UNCHANGED <<writerVars, defect, stop, position, fold, replayed>>

-----------------------------------------------------------------------------
\* A probe

BeginProbe ==
  /\ task = "idle"
  /\ task' = "replayed"
  /\ stop' \in 0..header.endIcount
  /\ Start("replayed")
  /\ UNCHANGED <<writerVars, defect, replayed, verdict>>

SimRecord ==
  /\ task \in {"replayed", "oracle"} /\ MoreRecords
  /\ ReplayRecord(log[position])
  /\ UNCHANGED <<writerVars, defect, task, stop, replayed, verdict>>

\* The replayed side has reached the icount: the oracle is next.
ReplayedStops ==
  /\ task = "replayed" /\ ~MoreRecords
  /\ replayed' = Finished(stop)
  /\ task' = "oracle"
  /\ Start("recorded")
  /\ UNCHANGED <<writerVars, defect, stop, verdict>>

OracleStops ==
  /\ task = "oracle" /\ ~MoreRecords
  /\ sim' = Finished(stop)
  /\ task' = "done"
  /\ UNCHANGED <<writerVars, defect, stop, position, fold, replayed, verdict>>

-----------------------------------------------------------------------------

Record ==
  /\ task = "recording"
  /\ WriterStep
  /\ task' = IF header'.sealed THEN "idle" ELSE task
  /\ UNCHANGED <<defect, replayVars>>

\* The recording was made with the defect the replay is given.
SameDefect ==
  script.skew = IF defect.kind = "Skew" THEN {defect.at} ELSE {}

Init ==
  /\ WriterInit
  /\ defect \in Defects /\ SameDefect
  /\ task = "recording"
  /\ stop = 0 /\ position = 1
  /\ fold = NoFold
  /\ sim = NewGuest /\ replayed = NewGuest
  /\ verdict = "Pending"

Step ==
  \/ Record
  \/ BeginHonest \/ HonestRecord \/ HonestBadEpoch \/ HonestEnd
  \/ BeginProbe \/ SimRecord \/ ReplayedStops \/ OracleStops

Answered == task = "done" /\ UNCHANGED vars

Next == Step \/ Answered

Spec == Init /\ [][Next]_vars

-----------------------------------------------------------------------------
\* Properties

\* The records of the epoch boundaries, in order.
EpochRecords ==
  LET upTo[i \in 0..Len(log)] ==
        IF i = 0 THEN <<>>
        ELSE IF log[i].kind = "EPOCH_HASH" THEN Append(upTo[i - 1], log[i]) ELSE upTo[i - 1]
  IN  upTo[Len(log)]

\* The segment as the search for the divergence sees it.
Seg ==
  [end |-> header.endIcount,
   at |-> [k \in DOMAIN EpochRecords |-> EpochRecords[k].icount],
   short |-> Len(EpochRecords) + 1, tampered |-> {}, badEnd |-> FALSE,
   flag |-> header.epochHashes,
   kind |-> IF defect.kind = "Skew" THEN "Skew" ELSE "Flake",
   defect |-> IF defect.kind = "None" THEN header.endIcount + 1 ELSE defect.at,
   period |-> 1]

Truth == INSTANCE SegmentTruth

\* The sides differ at the icount probed.
SidesDiffer == ChainValue(replayed) # ChainValue(sim)

ProbeAnswered == task = "done" /\ verdict = "Pending"

\* The oracle stands in for the recorded evidence (mock.rs:22-23): from the
\* records and the defect alone it recomputes the very hashes that the writer
\* recorded, at every epoch boundary and at the end, wherever the skew lands
\* among the records of its icount.
OracleReproducesRecording ==
  ProbeAnswered =>
    /\ \A k \in DOMAIN EpochRecords :
         EpochRecords[k].icount = stop => sim.chain = EpochRecords[k].payload
    /\ stop = header.endIcount => ChainValue(sim) = header.endHash

\* Divergence is monotone, which both binary searches rest on
\* (mock.rs:384-387): a probe at an icount sees the sides differ if and only
\* if the defect is at or before it, and the replayed epoch chain differs from
\* the recorded one if and only if the defect is before the boundary.
ProbeTellsTruth ==
  ProbeAnswered =>
    /\ SidesDiffer <=> Truth!ChainDiffers(Seg, stop)
    /\ \A k \in DOMAIN EpochRecords :
         EpochRecords[k].icount = stop =>
           (replayed.chain # EpochRecords[k].payload <=> Truth!EpochDiffers(Seg, k))

\* The honest replay reports divergence exactly for the segments whose defect
\* takes effect, epoch records or not (mock.rs:234-289).
HonestTellsTruth ==
  (task = "done" /\ verdict # "Pending") => verdict = Truth!HonestVerdict(Seg)

\* A fold is never made at an icount the guest has passed, nor the guest
\* brought back from one past the stop: the assertion in step_to holds
\* (guest.rs:85-90) in the recording and in every simulation.
NeverStepsBack == ~guest.panicked /\ ~sim.panicked /\ ~replayed.panicked
=============================================================================
