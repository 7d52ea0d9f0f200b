-------------------------- MODULE VerifyPathProofs --------------------------
(***************************************************************************)
(* For paths of every length, over any segments and any budget: verify     *)
(* settles edges as PathCheck promises, at one run per edge, and replays   *)
(* each from its own parent.                                               *)
(***************************************************************************)
EXTENDS VerifyPath, TLAPS

-----------------------------------------------------------------------------
\* The inductive invariant

\* While a call is under way its segment is the next edge's, with its base, and
\* the edge's node has a state hash.
EdgeInHand ==
  pc \in {"start", "done"} =>
    /\ result = Checking \/ pc = "done"
    /\ verified < NEdges
    /\ seg = path.segs[verified + 1]
    /\ baseOk = (path.ref[verified + 1] = path.base[verified + 1])
    /\ path.attr[verified + 1] # "missing"

\* What an outcome says of the edge in hand.
OutcomeIsTrue ==
  /\ pc = "done" => outcome \in {"Verified", "Diverged"} \cup Faults
  /\ pc = "done" /\ outcome \in {"Verified", "Diverged"} => outcome = HonestVerdict(seg)
  /\ pc = "done" /\ outcome = "BaseMismatch" => ~baseOk
  /\ pc = "done" /\ outcome = "NoBudget" => used = maxRuns

\* Every edge settled has cost a run, and the one in hand does once it is replayed.
OneRunPerEdge ==
  /\ maxRuns \in Nat
  /\ pc \in {"idle", "start"} => used = verified
  /\ pc = "done" =>
       used = IF outcome \in {"BaseMismatch", "NoBudget"} THEN verified ELSE verified + 1

\* A result is about the edge in hand, or about all of them.
ResultIsTrue ==
  /\ result.kind \in {"Diverged", "Fault"} => pc = "done" /\ result.at = verified + 1
  /\ result.kind = "Diverged" => outcome \in {"Verified", "Diverged"}
  /\ result.kind = "Fault" => outcome \in Faults
  /\ result.kind = "Verified" => pc = "idle" /\ verified = NEdges /\ result.at = verified
  /\ result.kind = "Panic" => pc = "idle" /\ result.at = verified + 1
  /\ result.kind = "Checking" => result = Checking

PathInv ==
  /\ PathTypeOK
  /\ EdgeInHand
  /\ OutcomeIsTrue
  /\ OneRunPerEdge
  /\ ResultIsTrue

-----------------------------------------------------------------------------
\* A path has the shape IsPath gives it.
LEMMA PathShape ==
  ASSUME IsPath(path)
  PROVE  /\ NEdges \in Nat
         /\ \A i \in 1..NEdges : path.segs[i] \in Segments
BY DEF IsPath, NEdges

LEMMA InitPathInv == PathInit => PathInv
<1> SUFFICES ASSUME PathInit PROVE PathInv
  OBVIOUS
<1>1. IsPath(path) /\ NEdges \in Nat
  BY PathsAssumption, PathShape DEF PathInit
<1>2. maxRuns \in Nat
  BY BudgetsAssumption DEF PathInit
<1> QED
  BY <1>1, <1>2 DEF PathInit, PathInv, PathTypeOK, EdgeInHand, OutcomeIsTrue, OneRunPerEdge,
                    ResultIsTrue, Checking

\* A call of verify_segment that does not bisect is over in one step.
LEMMA CallStepIs ==
  ASSUME PathInv, HypervisorStep
  PROVE  /\ pc = "start" /\ pc' = "done"
         /\ UNCHANGED <<seg, baseOk, bisecting, maxRuns, pathVars>>
         /\ \/ ~baseOk /\ outcome' = "BaseMismatch" /\ used' = used
            \/ baseOk /\ used >= maxRuns /\ outcome' = "NoBudget" /\ used' = used
            \/ baseOk /\ used < maxRuns /\ outcome' = HonestVerdict(seg) /\ used' = used + 1
<1> USE DEF HypervisorStep, PathInv, PathTypeOK
<1>1. maxRuns \in Nat /\ used \in Nat
  BY DEF OneRunPerEdge
<1>2. CASE Refuse
  BY <1>1, <1>2 DEF Refuse, Return, Unbilled, UnchangedCall, Exhausted
<1>3. CASE ReplayAndReturn
  BY <1>1, <1>3 DEF ReplayAndReturn, Return, ProbeBilled, UnchangedCall, Exhausted
<1>4. CASE ReplayAndBisect
  BY <1>4 DEF ReplayAndBisect
<1>5. CASE EpochProbe \/ EpochSearchEnds \/ NarrowProbe \/ ConfirmProbe \/ NarrowingCut
  BY <1>5 DEF EpochProbe, EpochSearchEnds, NarrowProbe, ConfirmProbe, NarrowingCut
<1> QED
  BY <1>2, <1>3, <1>4, <1>5 DEF CallStep

\* The verdicts of an honest replay.
LEMMA HonestVerdicts == HonestVerdict(seg) \in {"UnappliableRecord", "Diverged", "Verified"}
BY DEF HonestVerdict

LEMMA StepPathInv == PathInv /\ [PathNext]_allVars => PathInv'
<1> SUFFICES ASSUME PathInv, [PathNext]_allVars PROVE PathInv'
  OBVIOUS
<1>0. IsPath(path) /\ NEdges \in Nat /\ verified \in 0..NEdges /\ used \in 0..maxRuns
      /\ maxRuns \in Nat
  BY PathShape DEF PathInv, PathTypeOK, OneRunPerEdge
<1> USE DEF PathInv, PathTypeOK, EdgeInHand, OutcomeIsTrue, OneRunPerEdge, ResultIsTrue
<1>1. CASE HypervisorStep
  <2>1. /\ pc = "start" /\ pc' = "done"
        /\ UNCHANGED <<seg, baseOk, bisecting, maxRuns, path, verified, result>>
    BY <1>1, CallStepIs DEF pathVars
  <2>2. \/ ~baseOk /\ outcome' = "BaseMismatch" /\ used' = used
        \/ baseOk /\ used >= maxRuns /\ outcome' = "NoBudget" /\ used' = used
        \/ baseOk /\ used < maxRuns /\ outcome' = HonestVerdict(seg) /\ used' = used + 1
    BY <1>1, CallStepIs
  <2>3. result = Checking /\ result.kind = "Checking"
    BY <2>1 DEF Checking
  <2> HIDE DEF HonestVerdict
  <2>4. PathTypeOK' /\ EdgeInHand' /\ ResultIsTrue'
    BY <1>0, <2>1, <2>2, <2>3 DEF NEdges
  <2>5. OutcomeIsTrue' /\ OneRunPerEdge'
    BY <1>0, <2>1, <2>2, HonestVerdicts DEF Faults
  <2> QED
    BY <2>4, <2>5
<1>2. CASE BeginSegment
  BY <1>0, <1>2 DEF BeginSegment, CheckedCall, ParentRef, NEdges, Checking
<1>3. CASE SegmentVerifies
  BY <1>0, <1>3 DEF SegmentVerifies, CheckedCall, Matches, NEdges, Checking
<1>4. CASE SegmentDiverges
  BY <1>0, <1>4 DEF SegmentDiverges, vars, callVars, NEdges, Checking
<1>5. CASE SegmentFaults
  BY <1>0, <1>5 DEF SegmentFaults, vars, callVars, NEdges, Checking, Faults
<1>6. CASE PathVerifies
  BY <1>0, <1>6 DEF PathVerifies, vars, callVars, NEdges, Checking
<1>7. CASE HashMissing
  BY <1>0, <1>7 DEF HashMissing, vars, callVars, NEdges, Checking
<1>8. CASE UNCHANGED allVars
  BY <1>8 DEF allVars, vars, callVars, pathVars, NEdges
<1> QED
  BY <1>1, <1>2, <1>3, <1>4, <1>5, <1>6, <1>7, <1>8 DEF PathNext, PathStep

-----------------------------------------------------------------------------
\* verify keeps its variables in range and spends no run it has not got
\* (verify.rs:30-84).
THEOREM TypeCorrect == PathSpec => []PathTypeOK
<1>1. PathInv => PathTypeOK
  BY DEF PathInv
<1> QED
  BY <1>1, InitPathInv, StepPathInv, PTL DEF PathSpec

\* One run per edge settled, and none after the first failure; a budget of one
\* run per edge is always enough (verify.rs:15-16).
THEOREM FreeLocalisation == PathSpec => []LocalisationIsFree
<1>1. PathInv => LocalisationIsFree
  <2> SUFFICES ASSUME PathInv PROVE LocalisationIsFree
    OBVIOUS
  <2>1. NEdges \in Nat /\ verified \in 0..NEdges
    BY PathShape DEF PathInv, PathTypeOK
  <2>2. /\ result.kind \in {"Verified", "Diverged"} => used = result.at
        /\ result.kind = "Panic" => used = result.at - 1
    BY <2>1 DEF PathInv, OneRunPerEdge, ResultIsTrue
  <2>3. (result.kind = "Fault" /\ outcome = "NoBudget") =>
          used = maxRuns /\ maxRuns < NEdges /\ verified = used
    BY <2>1 DEF PathInv, EdgeInHand, OutcomeIsTrue, OneRunPerEdge, ResultIsTrue
  <2> QED
    BY <2>2, <2>3 DEF LocalisationIsFree
<1> QED
  BY <1>1, InitPathInv, StepPathInv, PTL DEF PathSpec

\* On a path that R3 accepts no replay is refused for its base (verify.rs:25-26).
THEOREM AdjacencySuffices == PathSpec => []AdjacentPathsReplay
<1>1. PathInv => AdjacentPathsReplay
  <2> SUFFICES ASSUME PathInv, Adjacent, result.kind = "Fault", outcome = "BaseMismatch"
               PROVE  FALSE
    BY DEF AdjacentPathsReplay
  <2>1. NEdges \in Nat /\ verified \in 0..NEdges
    BY PathShape DEF PathInv, PathTypeOK
  <2>2. pc = "done" /\ verified < NEdges /\ path.ref[verified + 1] # path.base[verified + 1]
    BY DEF PathInv, ResultIsTrue, EdgeInHand, OutcomeIsTrue
  <2> QED
    BY <2>1, <2>2 DEF Adjacent
<1> QED
  BY <1>1, InitPathInv, StepPathInv, PTL DEF PathSpec

-----------------------------------------------------------------------------
\* The refinement of PathCheck

\* The mapped edges are as many as the path's.
LEMMA MappedEdges ==
  ASSUME IsPath(path)
  PROVE  /\ Len([i \in 1..NEdges |-> EdgeState(i)]) = NEdges
         /\ [i \in 1..NEdges |-> EdgeState(i)] \in [1..NEdges -> {"good", "bad", "unhashed"}]
<1>1. NEdges \in Nat
  BY PathShape
<1>2. \A i \in 1..NEdges : EdgeState(i) \in {"good", "bad", "unhashed"}
  BY DEF EdgeState
<1> QED
  BY <1>1, <1>2

LEMMA InitRefines == PathInit => Verification!Init
<1> SUFFICES ASSUME PathInit PROVE Verification!Init
  OBVIOUS
<1>1. IsPath(path)
  BY PathsAssumption DEF PathInit
<1> QED
  BY <1>1, MappedEdges DEF PathInit, Verification!Init, Verification!Checking, Checking

LEMMA StepRefines ==
  PathInv /\ [PathNext]_allVars => [Verification!Next]_Verification!vars
<1> SUFFICES ASSUME PathInv, [PathNext]_allVars
             PROVE  [Verification!Next]_Verification!vars
  OBVIOUS
<1> DEFINE edges == [i \in 1..NEdges |-> EdgeState(i)]
<1>0. IsPath(path) /\ NEdges \in Nat /\ verified \in 0..NEdges
  BY PathShape DEF PathInv, PathTypeOK
<1>1. Len(edges) = NEdges
  BY <1>0, MappedEdges
<1>2. path' = path
  BY DEF PathNext, PathStep, HypervisorStep, BeginSegment, SegmentVerifies, SegmentDiverges,
         SegmentFaults, PathVerifies, HashMissing, CheckedCall, allVars, pathVars
<1>3. edges' = edges
  BY <1>2 DEF EdgeState, EdgeGood, NEdges
<1>4. \A i \in 1..NEdges : edges[i] = EdgeState(i)
  OBVIOUS
<1>5. pc = "done" => /\ verified + 1 \in 1..NEdges /\ seg = path.segs[verified + 1]
                     /\ path.attr[verified + 1] # "missing"
  BY <1>0 DEF PathInv, EdgeInHand
<1>6. CASE HypervisorStep \/ BeginSegment \/ UNCHANGED allVars
  <2>1. verified' = verified /\ result' = result
    BY <1>6 DEF HypervisorStep, BeginSegment, allVars, pathVars
  <2> QED
    BY <2>1, <1>3 DEF Verification!vars
<1>7. CASE SegmentVerifies
  <2>1. pc = "done" /\ result = Checking /\ result' = result /\ verified' = verified + 1
        /\ outcome = "Verified" /\ path.attr[verified + 1] = "equal"
    BY <1>7 DEF SegmentVerifies, Matches
  <2>2. EdgeState(verified + 1) = "good"
    BY <2>1, <1>5 DEF PathInv, OutcomeIsTrue, EdgeState, EdgeGood
  <2> QED
    BY <2>1, <2>2, <1>0, <1>1, <1>3, <1>4, <1>5
       DEF Verification!Next, Verification!Advance, Verification!Checking, Checking
<1>8. CASE SegmentDiverges
  <2>1. pc = "done" /\ result = Checking /\ verified' = verified
        /\ outcome \notin Faults /\ ~Matches
        /\ result' = [kind |-> "Diverged", at |-> verified + 1]
    BY <1>8 DEF SegmentDiverges
  <2>2. EdgeState(verified + 1) = "bad"
    BY <2>1, <1>5 DEF PathInv, OutcomeIsTrue, EdgeState, EdgeGood, Matches
  <2> QED
    BY <2>1, <2>2, <1>0, <1>1, <1>3, <1>4, <1>5
       DEF Verification!Next, Verification!Localise, Verification!Checking, Checking
<1>9. CASE SegmentFaults
  <2>1. pc = "done" /\ EdgeState(verified + 1) # "unhashed"
    BY <1>9, <1>5 DEF SegmentFaults, EdgeState
  <2> QED
    BY <1>9, <2>1, <1>0, <1>1, <1>3, <1>4, <1>5
       DEF SegmentFaults, Verification!Next, Verification!GiveUp, Verification!Checking, Checking
<1>10. CASE PathVerifies
  BY <1>10, <1>0, <1>1, <1>3
     DEF PathVerifies, Verification!Next, Verification!Pass, Verification!Checking, Checking
<1>11. CASE HashMissing
  <2>1. verified + 1 \in 1..NEdges /\ EdgeState(verified + 1) = "unhashed"
    BY <1>11, <1>0 DEF HashMissing, EdgeState
  <2> QED
    BY <1>11, <2>1, <1>0, <1>1, <1>3, <1>4
       DEF HashMissing, Verification!Next, Verification!Abandon, Verification!Checking, Checking
<1> QED
  BY <1>6, <1>7, <1>8, <1>9, <1>10, <1>11 DEF PathNext, PathStep

\* verify settles edges as PathCheck does, whatever the path: its verdict is the
\* first bad edge from the root, or that there is none, or that the hypervisor
\* gave up; a node without a state hash, which R6 would have refused, makes it
\* panic, and only at that node (verify.rs:25-29, 41-44).
THEOREM PathCheckSafety ==
  PathSpec => Verification!Init /\ [][Verification!Next]_Verification!vars
BY InitPathInv, StepPathInv, InitRefines, StepRefines, PTL DEF PathSpec
=============================================================================
