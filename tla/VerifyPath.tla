----------------------------- MODULE VerifyPath -----------------------------
(***************************************************************************)
(* verify(path) (replay-verify/src/verify.rs) composed with the hypervisor *)
(* it drives: one un-bisected verify_segment per edge, in path order, each *)
(* from the snapshot of the edge's own parent, the first failure returned  *)
(* at once.  The hypervisor's steps are MockHypervisor's.                  *)
(*                                                                         *)
(* The path may be any PathNode and segment records the API can be given:  *)
(* assembly's R3 makes every base match and R6 every node's hash the       *)
(* segment's, but neither is assumed.  R6 also refuses a path with a node  *)
(* that has no hash (VerifyUnsupported), which verify counts on: given     *)
(* such a path it panics when it comes to that node.                       *)
(***************************************************************************)
EXTENDS MockHypervisor

CONSTANT Paths   \* the paths verify may be given (see IsPath)

(***************************************************************************)
(* A path of k edges:                                                      *)
(*   ref   the k + 1 nodes' snapshot_ref, the root's first                 *)
(*   base  the k segments' base_snapshot_id                                *)
(*   segs  the k segments                                                  *)
(*   attr  node i's attrs.state_hash: segment i's end_state_hash, another  *)
(*         hash, or None                                                   *)
(***************************************************************************)
HashAttrs == {"equal", "other", "missing"}

IsPath(p) ==
  /\ p.segs \in Seq(Segments)
  /\ p.ref \in Seq(Nat) /\ Len(p.ref) = Len(p.segs) + 1
  /\ p.base \in Seq(Nat) /\ Len(p.base) = Len(p.segs)
  /\ p.attr \in Seq(HashAttrs) /\ Len(p.attr) = Len(p.segs)

ASSUME PathsAssumption == Segments # {} /\ \A p \in Paths : IsPath(p)

VARIABLES
  path,      \* root and edges
  verified,  \* how many edges have verified
  result     \* Ok(VerifyResult), the fault, a panic, or Checking

pathVars == <<path, verified, result>>
allVars == <<vars, pathVars>>

Checking == [kind |-> "Checking", at |-> 0]

NEdges == Len(path.segs)

\* The snapshot a segment is replayed from: i = 1 is the root's child.
\* Mutant: every segment is replayed from the root.
MutantParentRef(i) == path.ref[1]
ParentRef(i) == path.ref[i]

CheckedCall == <<path, maxRuns, used, runs, runIndex>>

\* The next edge's node carries no state hash: the expect on it panics before
\* the edge is replayed.
HashMissing ==
  /\ result = Checking /\ pc = "idle" /\ verified < NEdges
  /\ path.attr[verified + 1] = "missing"
  /\ result' = [kind |-> "Panic", at |-> verified + 1]
  /\ UNCHANGED <<vars, path, verified>>

\* Call verify_segment on the next edge, with fresh locals.
BeginSegment ==
  /\ result = Checking /\ pc = "idle" /\ verified < NEdges
  /\ path.attr[verified + 1] # "missing"
  /\ seg' = path.segs[verified + 1]
  /\ baseOk' = (ParentRef(verified + 1) = path.base[verified + 1])
  /\ bisecting' = FALSE
  /\ pc' = "start" /\ outcome' = "Pending"
  /\ ea' = 1 /\ eb' = 0 /\ firstBad' = 0 /\ na' = 0 /\ nb' = 0
  /\ lo' = 0 /\ hi' = path.segs[verified + 1].end
  /\ UNCHANGED <<CheckedCall, verified, result>>

\* Mutant: an outcome the hypervisor verified is not compared with the node.
MutantMatches == outcome = "Verified"
\* The replayed end hash is the node's: the mock's Verified hash is the header's.
Matches == outcome = "Verified" /\ path.attr[verified + 1] = "equal"

SegmentVerifies ==
  /\ result = Checking /\ pc = "done"
  /\ Matches
  /\ verified' = verified + 1
  /\ pc' = "idle"
  /\ UNCHANGED <<CheckedCall, seg, baseOk, bisecting, ea, eb, firstBad, na, nb, lo, hi,
                 outcome, result>>

\* Mutant: the failing segment is counted from 0.
MutantSegmentDiverges ==
  /\ result = Checking /\ pc = "done"
  /\ outcome \notin Faults /\ ~Matches
  /\ result' = [kind |-> "Diverged", at |-> verified]
  /\ UNCHANGED <<vars, path, verified>>
\* The hypervisor saw the divergence, or the driver's own comparison did.
SegmentDiverges ==
  /\ result = Checking /\ pc = "done"
  /\ outcome \notin Faults /\ ~Matches
  /\ result' = [kind |-> "Diverged", at |-> verified + 1]
  /\ UNCHANGED <<vars, path, verified>>

SegmentFaults ==
  /\ result = Checking /\ pc = "done" /\ outcome \in Faults
  /\ result' = [kind |-> "Fault", at |-> verified + 1]
  /\ UNCHANGED <<vars, path, verified>>

PathVerifies ==
  /\ result = Checking /\ pc = "idle" /\ verified = NEdges
  /\ result' = [kind |-> "Verified", at |-> verified]
  /\ UNCHANGED <<vars, path, verified>>

HypervisorStep == CallStep /\ UNCHANGED pathVars

PathStep ==
  \/ HashMissing
  \/ BeginSegment
  \/ SegmentVerifies
  \/ SegmentDiverges
  \/ SegmentFaults
  \/ PathVerifies

PathInit ==
  /\ path \in Paths
  /\ verified = 0 /\ result = Checking
  /\ maxRuns \in Budgets /\ used = 0
  /\ runs = 0 /\ runIndex = 0
  /\ seg = CHOOSE s \in Segments : TRUE
  /\ baseOk = FALSE /\ bisecting = FALSE
  /\ pc = "idle" /\ outcome = "Pending"
  /\ ea = 1 /\ eb = 0 /\ firstBad = 0 /\ na = 0 /\ nb = 0
  /\ lo = 0 /\ hi = 0

Finished == result # Checking

PathNext ==
  \/ HypervisorStep
  \/ PathStep
  \/ Finished /\ UNCHANGED allVars

\* verify and the mock run on one thread, which nothing else blocks.
PathSpec == PathInit /\ [][PathNext]_allVars /\ WF_allVars(HypervisorStep \/ PathStep)

-----------------------------------------------------------------------------
\* Properties

\* Edge i re-executes to its node's state hash, as far as it can be replayed.
EdgeGood(i) == HonestVerdict(path.segs[i]) # "Diverged" /\ path.attr[i] = "equal"

EdgeState(i) ==
  CASE path.attr[i] = "missing" -> "unhashed"
    [] path.attr[i] # "missing" /\ EdgeGood(i) -> "good"
    [] path.attr[i] # "missing" /\ ~EdgeGood(i) -> "bad"

PathTypeOK ==
  /\ IsPath(path)
  /\ verified \in 0..NEdges
  /\ result.kind \in {"Checking", "Verified", "Diverged", "Fault", "Panic"}
  /\ result.at \in 0..NEdges
  /\ pc \in {"idle", "start", "done"}
  /\ used \in 0..maxRuns /\ ~bisecting

\* The verdict is the one PathCheck promises: the first bad edge, found from
\* the root, or a pass of every edge, unless a node without a hash comes first
\* (verify.rs:25-29, 41-44).
Verification == INSTANCE PathCheck WITH
  edges <- [i \in 1..NEdges |-> EdgeState(i)], checked <- verified, verdict <- result
ImplementsPathCheck == Verification!Spec

\* Localisation is free: the verdict is reached in one run per edge settled,
\* and none after the first failure (verify.rs:15-16).  So a budget of one run
\* per edge is always enough, and a smaller one is only found too small once
\* every run of it has been spent on a good edge.  A node without a hash is
\* only noticed once the edges above it have been replayed, and before its own.
LocalisationIsFree ==
  /\ result.kind \in {"Verified", "Diverged"} => used = result.at
  /\ result.kind = "Panic" => used = result.at - 1
  /\ (result.kind = "Fault" /\ outcome = "NoBudget") =>
       used = maxRuns /\ maxRuns < NEdges /\ verified = used

\* The lineage R3 establishes: each segment's base is its parent's snapshot.
Adjacent == \A i \in 1..NEdges : path.base[i] = path.ref[i]

\* On a path that R3 accepts, no replay is refused for its base: each segment
\* starts from its own parent, never from the root (verify.rs:25-26).
AdjacentPathsReplay ==
  (Adjacent /\ result.kind = "Fault") => outcome # "BaseMismatch"
=============================================================================
