---------------------------- MODULE BisectDriver ----------------------------
(***************************************************************************)
(* The two-phase bisection driver (replay-verify/src/bisect.rs) composed   *)
(* with the hypervisor it calls: Phase 1 re-runs the segment to see whether*)
(* the replay agrees with itself, Phase 2 spends one natively bisecting    *)
(* run, or falls back to one end-state stop when there are no epoch hashes *)
(* or no budget.  The hypervisor's steps are MockHypervisor's; the driver  *)
(* waits for each call (pc = "done") before it goes on.                    *)
(*                                                                         *)
(* Abstracted: identity fields and hex formatting of the report, and the   *)
(* diagnostics block, of which only its presence is kept (diag, pages).    *)
(***************************************************************************)
EXTENDS MockHypervisor

CONSTANTS
  MaxRetries,   \* flake_retries is at most this
  MaxRunsBefore \* runs the hypervisor has made before bisect is called

ASSUME DriverAssumption == MaxRetries \in Nat /\ MaxRunsBefore \in Nat

VARIABLES
  opts,      \* flake_retries, skip_phase1 and the hypervisor's earlier runs
  phase,     \* where the driver stands
  outcomes,  \* Phase 1's outcomes, in order
  report     \* the report, or why there is none yet

driverVars == <<opts, phase, outcomes, report>>
allVars == <<vars, driverVars>>

NoReport == [class |-> "None"]

-----------------------------------------------------------------------------
\* End state hashes, as far as they can differ.

\* The defect takes effect within the segment.
Folded(s) == s.defect <= s.end

\* Run r's replayed end state: a flake folds in r / flake_period.
ReplayEnd(s, r) ==
  IF s.kind = "Flake" /\ Folded(s) THEN <<"flake", r \div s.period>> ELSE <<"honest", 0>>

\* The header's end_state_hash, which R6 made the expected hash.
RecordedEnd(s) ==
  IF s.badEnd THEN <<"tampered", 0>>
  ELSE IF s.kind = "Skew" /\ Folded(s) THEN <<"skew", 0>> ELSE <<"honest", 0>>

ZeroHash == <<"zero", 0>>

\* The SegmentOutcome the call returned.
CallOutcome == [verdict |-> outcome, lo |-> lo, hi |-> hi, hash |-> ReplayEnd(seg, runIndex)]

\* Mutant: outcomes are compared by verdict and window alone.
MutantAllIdentical ==
  \A i \in 1..(Len(outcomes) - 1) :
    /\ outcomes[i].verdict = outcomes[i + 1].verdict
    /\ outcomes[i].lo = outcomes[i + 1].lo /\ outcomes[i].hi = outcomes[i + 1].hi
\* outcomes.windows(2).all(|w| w[0] == w[1])
AllIdentical == \A i \in 1..(Len(outcomes) - 1) : outcomes[i] = outcomes[i + 1]

DivergedRuns == {i \in 1..Len(outcomes) : outcomes[i].verdict = "Diverged"}

\* Mutant: icounts are taken to start at 1.
MutantWholeSegment == <<1, seg.end>>
\* The window reported when nothing narrower is known.
WholeSegment == <<0, seg.end>>

\* The smallest window of a diverged outcome.
MinWindow ==
  LET windows == {<<outcomes[i].lo, outcomes[i].hi>> : i \in DivergedRuns}
  IN  IF windows = {} THEN WholeSegment
      ELSE CHOOSE w \in windows : \A v \in windows : w[2] - w[1] <= v[2] - v[1]

\* make_report: EXACT_ICOUNT is a one-icount window of a recorded divergence.
Report(class, window, diag, pages, actual, spent, faults) ==
  [class |-> class, lo |-> window[1], hi |-> window[2],
   exact |-> window[1] = window[2] /\ class = "RecordedDivergence",
   diag |-> diag, pages |-> pages,
   expected |-> RecordedEnd(seg), actual |-> actual,
   runsUsed |-> spent, budgetExhausted |-> spent >= maxRuns, runFaults |-> faults]

-----------------------------------------------------------------------------
\* The driver's steps

\* Call verify_segment with fresh locals.
CallVerifySegment(bisect) ==
  /\ pc' = "start" /\ outcome' = "Pending"
  /\ bisecting' = bisect
  /\ ea' = 1 /\ eb' = 0 /\ firstBad' = 0 /\ na' = 0 /\ nb' = 0
  /\ lo' = 0 /\ hi' = seg.end
  /\ UNCHANGED <<seg, baseOk, maxRuns, used, runs, runIndex>>

\* Mutant: the budget is not asked before a flake run.
MutantBeginFlakeRun ==
  /\ phase = "flake" /\ pc = "idle"
  /\ Len(outcomes) <= opts.retries
  /\ CallVerifySegment(FALSE)
  /\ UNCHANGED driverVars
\* A Phase-1 run: the first or one of flake_retries more.
BeginFlakeRun ==
  /\ phase = "flake" /\ pc = "idle"
  /\ Len(outcomes) <= opts.retries /\ ~Exhausted
  /\ CallVerifySegment(FALSE)
  /\ UNCHANGED driverVars

FlakeRunReturns ==
  /\ phase = "flake" /\ pc = "done" /\ outcome \notin Faults
  /\ outcomes' = Append(outcomes, CallOutcome)
  /\ pc' = "idle"
  /\ UNCHANGED <<seg, baseOk, bisecting, maxRuns, used, runs, runIndex, ea, eb, firstBad,
                 na, nb, lo, hi, outcome, opts, phase, report>>

\* The ? after verify_segment: the fault is the driver's result too.
CallFaults ==
  /\ phase \in {"flake", "native"} /\ pc = "done" /\ outcome \in Faults
  /\ phase' = "failed"
  /\ UNCHANGED <<vars, opts, outcomes, report>>

\* Phase 1 is over.  Disagreeing outcomes end in a report at once.
Phase1Ends ==
  /\ phase = "flake" /\ pc = "idle"
  /\ Len(outcomes) > opts.retries \/ Exhausted
  /\ IF AllIdentical
     THEN phase' = "diagnose" /\ UNCHANGED report
     ELSE /\ phase' = "reported"
          /\ report' = Report("ReplayNondeterministic", MinWindow, FALSE, FALSE,
                              outcomes[Len(outcomes)].hash, used, {})
  /\ UNCHANGED <<vars, opts, outcomes>>

\* Mutant: the native run is made without asking for bisection.
MutantBeginNative ==
  /\ phase = "diagnose" /\ seg.flag /\ ~Exhausted
  /\ phase' = "native"
  /\ CallVerifySegment(FALSE)
  /\ UNCHANGED <<opts, outcomes, report>>
\* The primary path of Phase 2: one natively bisecting run.
BeginNative ==
  /\ phase = "diagnose" /\ seg.flag /\ ~Exhausted
  /\ phase' = "native"
  /\ CallVerifySegment(TRUE)
  /\ UNCHANGED <<opts, outcomes, report>>

\* Its window is reported verbatim; if it verified, the whole segment is.
NativeReturns ==
  /\ phase = "native" /\ pc = "done" /\ outcome \notin Faults
  /\ phase' = "reported"
  /\ report' = IF outcome = "Diverged"
               THEN Report("RecordedDivergence", <<lo, hi>>, TRUE, TRUE,
                           CallOutcome.hash, used, {})
               ELSE Report("RecordedDivergence", WholeSegment, FALSE, FALSE,
                           CallOutcome.hash, used, {})
  /\ UNCHANGED <<vars, opts, outcomes>>

\* The mock's run_to_icount stop at end_icount: it passes segment index 0,
\* where no defect is injected.
StopHash == <<"honest", 0>>

Phase1Hash ==
  IF DivergedRuns = {} THEN ZeroHash
  ELSE outcomes[CHOOSE i \in DivergedRuns : \A j \in DivergedRuns : i <= j].hash

\* Mutant: the fallback is only taken while a run is left for its probe.
MutantFallback ==
  /\ phase = "diagnose" /\ ~seg.flag /\ ~Exhausted
  /\ phase' = "reported"
  /\ used' = used + 1 /\ runs' = runs + 1 /\ runIndex' = runs
  /\ report' = Report("RecordedDivergence", WholeSegment, FALSE, DivergedRuns # {},
                      StopHash, used', {})
  /\ UNCHANGED <<seg, baseOk, bisecting, maxRuns, pc, ea, eb, firstBad, na, nb, lo, hi,
                 outcome, opts, outcomes>>
\* No epoch hashes or no budget: the whole segment, and the end state of one
\* exact-icount stop if a run is left for it; the stop's fault is reported.
Fallback ==
  /\ phase = "diagnose" /\ (~seg.flag \/ Exhausted)
  /\ phase' = "reported"
  /\ \/ /\ ~Exhausted /\ baseOk
        /\ used' = used + 1 /\ runs' = runs + 1 /\ runIndex' = runs
        /\ report' = Report("RecordedDivergence", WholeSegment, FALSE, DivergedRuns # {},
                            StopHash, used', {})
     \/ /\ ~Exhausted /\ ~baseOk
        /\ report' = Report("RecordedDivergence", WholeSegment, FALSE, DivergedRuns # {},
                            Phase1Hash, used, {"BaseMismatch"})
        /\ UNCHANGED <<used, runs, runIndex>>
     \/ /\ Exhausted
        /\ report' = Report("RecordedDivergence", WholeSegment, FALSE, DivergedRuns # {},
                            Phase1Hash, used, {})
        /\ UNCHANGED <<used, runs, runIndex>>
  /\ UNCHANGED <<seg, baseOk, bisecting, maxRuns, pc, ea, eb, firstBad, na, nb, lo, hi,
                 outcome, opts, outcomes>>

HypervisorStep == CallStep /\ UNCHANGED driverVars

DriverStep ==
  \/ BeginFlakeRun
  \/ FlakeRunReturns
  \/ CallFaults
  \/ Phase1Ends
  \/ BeginNative
  \/ NativeReturns
  \/ Fallback

DriverInit ==
  /\ opts \in [retries : 0..MaxRetries, skip : BOOLEAN, before : 0..MaxRunsBefore]
  /\ phase = IF opts.skip THEN "diagnose" ELSE "flake"
  /\ outcomes = <<>>
  /\ report = NoReport
  /\ seg \in Segments
  /\ baseOk \in BOOLEAN
  /\ bisecting = FALSE
  /\ maxRuns \in Budgets
  /\ used = 0
  /\ runs = opts.before /\ runIndex = 0
  /\ pc = "idle" /\ outcome = "Pending"
  /\ ea = 1 /\ eb = 0 /\ firstBad = 0 /\ na = 0 /\ nb = 0
  /\ lo = 0 /\ hi = seg.end

Finished == phase \in {"reported", "failed"}

DriverNext ==
  \/ HypervisorStep
  \/ DriverStep
  \/ Finished /\ UNCHANGED allVars

\* bisect() and the mock run on one thread, which nothing else blocks.
DriverSpec == DriverInit /\ [][DriverNext]_allVars /\ WF_allVars(HypervisorStep \/ DriverStep)

-----------------------------------------------------------------------------
\* Properties

Verdicts == {"RecordedDivergence", "ReplayNondeterministic"}

DriverTypeOK ==
  /\ phase \in {"flake", "diagnose", "native", "reported", "failed"}
  /\ Len(outcomes) <= opts.retries + 1
  /\ \A i \in 1..Len(outcomes) : outcomes[i].verdict \in {"Verified", "Diverged"}
  /\ report.class \in Verdicts \cup {"None"}
  /\ (report.class \in Verdicts) <=> (phase = "reported")
  /\ used \in 0..maxRuns
  /\ pc \in {"idle", "start", "epochs", "narrow", "done"}

\* The driver never starts a run its budget cannot pay: NoBudget, which the
\* hypervisor raises before a run, is never bisect's result (bisect.rs:82, 134, 201).
NoBudgetNeverEscapes == phase = "failed" => outcome # "NoBudget"

\* Runs of Phase 1 fall in different flake periods.
PeriodsDiffer ==
  opts.before \div seg.period # (opts.before + Len(outcomes) - 1) \div seg.period

\* A replay is called nondeterministic exactly when two of its Phase-1 runs
\* could disagree; a recording defect is never blamed on the replay, and a
\* flake that showed is never blamed on the recording (bisect.rs:97-124).
ClassifiedByEvidence ==
  (phase = "reported" /\ ~opts.skip /\ outcomes # <<>>) =>
    (report.class = "ReplayNondeterministic"
       <=> seg.kind = "Flake" /\ Folded(seg) /\ PeriodsDiffer)

\* A segment of the writer, whose epoch boundaries are distinct.
DistinctEpochs(s) == \A i, j \in 1..Len(s.at) : i < j => s.at[i] < s.at[j]

\* An EXACT_ICOUNT report of a genuine recording names the icount where the
\* executions part, under every budget (bisect.rs:147-166, 250).
ExactReportIsTrue ==
  (phase = "reported" /\ Genuine(seg) /\ Folded(seg) /\ DistinctEpochs(seg) /\ report.exact)
    => report.lo = seg.defect

\* Every window reported holds the divergence, unless the budget ended the
\* epoch search (see BudgetCutKeepsDivergence).
ReportWindowHolds ==
  (phase = "reported" /\ Genuine(seg) /\ Folded(seg) /\ ~EpochSearchCut)
    => report.lo <= seg.defect /\ seg.defect <= report.hi

\* A reader of the report may blame the budget only when it says so: with
\* epoch hashes and runs to spare a recorded divergence is exact.
UnexhaustedIsExact ==
  (/\ phase = "reported" /\ Genuine(seg) /\ Folded(seg) /\ seg.flag
   /\ report.class = "RecordedDivergence" /\ ~report.budgetExhausted)
    => report.exact

\* bisect always comes back, with a report or a hypervisor fault.
BisectReturns == <>Finished

\* What the mock's documentation says of a flake ("from at_icount on, a
\* run-dependent value ... is folded into the register", mock.rs:9-12) and
\* the fallback test asserts (tests/m2.rs:315): the replayed end hash of a
\* divergence report is not the recorded one.
ActualDiffersFromExpected ==
  (phase = "reported" /\ Genuine(seg) /\ Folded(seg)) => report.actual # report.expected
=============================================================================
