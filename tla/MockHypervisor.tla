--------------------------- MODULE MockHypervisor ---------------------------
(***************************************************************************)
(* One call of MockHypervisor::verify_segment (replay-verify/src/mock.rs): *)
(* the honest replay of a segment against its recorded EPOCH_HASH records  *)
(* and end hash, then native bisection of a divergence, one budgeted probe *)
(* per step: a binary search over the epoch records, then a binary search  *)
(* over icounts against the recorded-side oracle.                          *)
(*                                                                         *)
(* What a probe finds is SegmentTruth's; Resimulation shows it to be what  *)
(* the simulations of the two sides compute.                               *)
(***************************************************************************)
EXTENDS SegmentTruth

CONSTANTS
  Segments,   \* the segments a call may be given (see IsSegment)
  Budgets     \* the values max_runs may take

ASSUME SegmentsAssumption == \A s \in Segments : IsSegment(s)
ASSUME BudgetsAssumption == Budgets \subseteq Nat

VARIABLES
  seg,        \* the segment being verified
  baseOk,     \* the base snapshot passed is the segment's own
  bisecting,  \* opts.bisect_on_divergence
  maxRuns,    \* RunBudget.max_runs
  used,       \* RunBudget.used
  runs,       \* MockHypervisor.runs
  runIndex,   \* run_index: the value of runs when this call began
  pc,         \* where the call stands
  ea, eb,     \* a, b of the epoch search (1-based)
  firstBad,   \* first_bad; 0 is None
  na, nb,     \* a, b of the in-epoch search
  lo, hi,     \* the divergence window
  outcome     \* the verdict of the call, or the fault it raised

callVars == <<runIndex, pc, ea, eb, firstBad, na, nb, lo, hi, outcome>>
vars == <<seg, baseOk, bisecting, maxRuns, used, runs, callVars>>

NEpochs == Len(seg.at)

Faults == {"BaseMismatch", "NoBudget", "UnappliableRecord"}
Outcomes == {"Pending", "Verified", "Diverged"} \cup Faults

-----------------------------------------------------------------------------
\* RunBudget

Exhausted == used >= maxRuns

\* try_consume() returned true, and the run it pays for is counted.
ProbeBilled ==
  /\ ~Exhausted
  /\ used' = used + 1
  /\ runs' = runs + 1

Unbilled == UNCHANGED <<used, runs>>

-----------------------------------------------------------------------------
\* The call

\* What a call is given; the driver and the call itself leave it alone.
UnchangedCall == UNCHANGED <<seg, baseOk, bisecting, maxRuns>>
UnchangedSearch == UNCHANGED <<ea, eb, firstBad, na, nb>>

Return(verdict) ==
  /\ pc' = "done"
  /\ outcome' = verdict

\* A fault raised before the run starts, nothing consumed.
Refuse ==
  /\ pc = "start"
  /\ \/ ~baseOk /\ Return("BaseMismatch")
     \/ baseOk /\ Exhausted /\ Return("NoBudget")
  /\ Unbilled
  /\ UnchangedCall /\ UnchangedSearch
  /\ UNCHANGED <<runIndex, lo, hi>>

\* The honest replay ended without a window to narrow: verified, faulted at a
\* short EPOCH_HASH payload, or diverged with bisection not asked for (the
\* window is then the whole segment).
ReplayAndReturn ==
  /\ pc = "start" /\ baseOk
  /\ ProbeBilled
  /\ runIndex' = runs
  /\ HonestVerdict(seg) = "Diverged" => ~bisecting
  /\ Return(HonestVerdict(seg))
  /\ lo' = 0 /\ hi' = seg.end
  /\ UnchangedCall /\ UnchangedSearch

\* The honest replay diverged and native bisection begins.
ReplayAndBisect ==
  /\ pc = "start" /\ baseOk
  /\ ProbeBilled
  /\ runIndex' = runs
  /\ HonestVerdict(seg) = "Diverged" /\ bisecting
  /\ pc' = "epochs"
  /\ ea' = 1 /\ eb' = NEpochs /\ firstBad' = 0
  /\ lo' = 0 /\ hi' = seg.end
  /\ UnchangedCall /\ UNCHANGED <<na, nb, outcome>>

Lower(m, n) == IF m <= n THEN m ELSE n
Higher(m, n) == IF m >= n THEN m ELSE n

\* The record probed holds the replayed chain: the divergence is at or past it.
EpochGood(mid) ==
  /\ lo' = Higher(lo, seg.at[mid])
  /\ ea' = mid + 1
  /\ UNCHANGED <<hi, eb, firstBad>>

\* Mutant: the search does not close in on the record it just saw differ.
MutantEpochBad(mid) ==
  /\ hi' = Lower(hi, seg.at[mid])
  /\ firstBad' = mid
  /\ eb' = eb - 1
  /\ UNCHANGED <<lo, ea>>
\* It differs: the divergence is before it.  At the first record the code
\* leaves the loop instead of forming mid - 1; the 1-based eb = 0 ends it too.
EpochBad(mid) ==
  /\ hi' = Lower(hi, seg.at[mid])
  /\ firstBad' = mid
  /\ eb' = mid - 1
  /\ UNCHANGED <<lo, ea>>

\* One round of the search over the epoch records.
EpochProbe ==
  /\ pc = "epochs" /\ ea <= eb
  /\ ProbeBilled
  /\ LET mid == (ea + eb) \div 2
     IN  \/ ~EpochDiffers(seg, mid) /\ EpochGood(mid)
         \/ EpochDiffers(seg, mid) /\ EpochBad(mid)
  /\ UnchangedCall /\ UNCHANGED <<runIndex, pc, na, nb, outcome>>

\* Mutant: the icount search starts past the last good epoch boundary.
MutantStartPastLo(l, h) == na' = l + 1 /\ nb' = h
\* Mutant: it starts over on the whole segment.
MutantStartOver(l, h) == na' = 0 /\ nb' = seg.end
\* The icounts searched: from the last good boundary itself, since a defect
\* there folds in after the boundary's EPOCH_HASH.
IcountSearchFrom(l, h) == na' = l /\ nb' = h

\* The epoch search is over, resolved or out of budget.  Either way the code
\* raises lo to the record before first_bad.
EpochSearchEnds ==
  /\ pc = "epochs" /\ (ea > eb \/ Exhausted)
  /\ lo' = IF firstBad > 1 THEN Higher(lo, seg.at[firstBad - 1]) ELSE lo
  /\ hi' = IF firstBad > 0 THEN Lower(hi, seg.at[firstBad]) ELSE hi
  /\ IcountSearchFrom(lo', hi')
  /\ pc' = "narrow"
  /\ Unbilled
  /\ UnchangedCall /\ UNCHANGED <<runIndex, ea, eb, firstBad, outcome>>

\* One round of the in-epoch search against the recorded-side oracle.
NarrowProbe ==
  /\ pc = "narrow" /\ na < nb
  /\ ProbeBilled
  /\ LET mid == na + (nb - na) \div 2
     IN  \/ /\ ~ChainDiffers(seg, mid)
            /\ na' = mid + 1 /\ lo' = mid
            /\ UNCHANGED <<nb, hi>>
         \/ /\ ChainDiffers(seg, mid)
            /\ nb' = mid /\ hi' = mid
            /\ UNCHANGED <<na, lo>>
  /\ UnchangedCall /\ UNCHANGED <<runIndex, pc, ea, eb, firstBad, outcome>>

\* Mutant: the exact icount is found and not written to the window.
MutantConfirmed == UNCHANGED <<lo, hi>>
\* exact = Some(a) if the last icount is seen to differ.
Confirmed ==
  IF ChainDiffers(seg, na) THEN lo' = na /\ hi' = na ELSE UNCHANGED <<lo, hi>>

\* The last probe, of the single icount left.
ConfirmProbe ==
  /\ pc = "narrow" /\ na = nb
  /\ ProbeBilled
  /\ Confirmed
  /\ Return("Diverged")
  /\ UnchangedCall /\ UnchangedSearch /\ UNCHANGED runIndex

\* Mutant: with one icount left the call waits for a run that never comes.
MutantNarrowingCut ==
  /\ pc = "narrow" /\ Exhausted /\ na < nb
  /\ Return("Diverged")
  /\ Unbilled
  /\ UnchangedCall /\ UnchangedSearch /\ UNCHANGED <<runIndex, lo, hi>>
\* The budget is gone: the window is returned as it stands.
NarrowingCut ==
  /\ pc = "narrow" /\ Exhausted
  /\ Return("Diverged")
  /\ Unbilled
  /\ UnchangedCall /\ UnchangedSearch /\ UNCHANGED <<runIndex, lo, hi>>

CallStep ==
  \/ Refuse
  \/ ReplayAndReturn
  \/ ReplayAndBisect
  \/ EpochProbe
  \/ EpochSearchEnds
  \/ NarrowProbe
  \/ ConfirmProbe
  \/ NarrowingCut

\* A call on a budget its driver has already spent some of.
Init ==
  /\ seg \in Segments
  /\ baseOk \in BOOLEAN
  /\ bisecting \in BOOLEAN
  /\ maxRuns \in Budgets
  /\ used \in 0..maxRuns
  /\ runs = used
  /\ runIndex = used
  /\ pc = "start"
  /\ ea = 1 /\ eb = 0 /\ firstBad = 0
  /\ na = 0 /\ nb = 0
  /\ lo = 0 /\ hi = seg.end
  /\ outcome = "Pending"

\* The caller holds the outcome; nothing more happens.
Returned == pc = "done" /\ UNCHANGED vars

Next == CallStep \/ Returned

\* The call runs on its caller's thread: it does not stop between two steps.
Spec == Init /\ [][Next]_vars /\ WF_vars(CallStep)

-----------------------------------------------------------------------------
\* Properties

TypeOK ==
  /\ seg \in Segments
  /\ baseOk \in BOOLEAN /\ bisecting \in BOOLEAN
  /\ maxRuns \in Nat
  /\ used \in 0..maxRuns
  /\ runs \in Nat /\ runIndex \in Nat
  /\ pc \in {"start", "epochs", "narrow", "done"}
  /\ ea \in 1..(NEpochs + 1) /\ eb \in 0..NEpochs
  /\ firstBad \in 0..NEpochs
  /\ na \in Nat /\ nb \in Nat
  /\ lo \in Nat /\ hi \in 0..seg.end
  /\ outcome \in Outcomes

\* The epoch search stopped with records still unprobed.
EpochSearchCut == pc \in {"narrow", "done"} /\ ea <= eb

\* The first divergent icount of a segment that diverges.
Holds(l, h) == l <= seg.defect /\ seg.defect <= h

\* Native bisection never loses the divergence: as long as the epoch search
\* was not cut short by the budget, the first divergent icount stays inside
\* the window, through every probe of both searches and however the budget
\* ends the second one (mock.rs:345-422).
WindowSound ==
  (/\ Genuine(seg)
   /\ pc \in {"epochs", "narrow", "done"}
   /\ outcome \in {"Pending", "Diverged"}
   /\ ~EpochSearchCut)
    => Holds(lo, hi)

\* Only the budget may keep bisection from the exact icount: a call that
\* returns with runs to spare has closed the window on the first divergent
\* icount, which the report then calls EXACT_ICOUNT (mock.rs:388-422).
ResolvedUnlessExhausted ==
  (outcome = "Diverged" /\ bisecting /\ Genuine(seg) /\ ~Exhausted)
    => lo = hi /\ lo = seg.defect

\* The number of times n can be halved before nothing is left.
Halvings[n \in Nat] == IF n = 0 THEN 0 ELSE 1 + Halvings[n \div 2]

\* The cost of a call is logarithmic: the honest run, one probe per halving of
\* the epoch list, one per halving of the window, and the confirming one.  A
\* search that fails to halve would eat the 64-run budget on a long segment.
CostLogarithmic ==
  runs - runIndex <= 2 + Halvings[NEpochs] + Halvings[seg.end]

\* Evidence is never taken back: no probe widens the window.
WindowNeverWidens == [][pc # "start" => lo' >= lo /\ hi' <= hi]_vars

\* A call always returns, whatever the segment, the defect and the budget.
CallReturns == <>(pc = "done")

\* What the tests and the comment at the break say of a spent budget ("keep
\* the current (wider) window", mock.rs:358; "still containing E",
\* tests/m2.rs:386): the window holds the divergence even then.
BudgetCutKeepsDivergence ==
  (outcome = "Diverged" /\ Genuine(seg)) => Holds(lo, hi)
=============================================================================
