----------------------------- MODULE SplicePath -----------------------------
(***************************************************************************)
(* assemble(root, edges) (replay-splice/src/assemble.rs) with the rules it *)
(* validates first (rules.rs): each rule is a pass over all the segments,  *)
(* one segment per step, and the first violation of the first broken rule  *)
(* aborts; then the container's entries are made, which still aborts at a  *)
(* node without a log.                                                     *)
(*                                                                         *)
(* R4 and R5 are SegmentValidator's: here a segment carries its verdict.   *)
(* Identifiers and hashes are compared, never looked into.                 *)
(***************************************************************************)
EXTENDS Naturals, Sequences

CONSTANTS
  Paths,              \* what assemble may be given (see IsPath)
  SupportedVersions,  \* SUPPORTED_DHILOG_VERSIONS
  NoHash              \* attrs.state_hash is None

(***************************************************************************)
(* A path of k edges: the k + 1 nodes of the snapshot store's GetPath, the *)
(* root first, and the k segments, segment i leading to node i + 1.        *)
(*   node     id, parent, ref (snapshot_ref), logged (input_log_id is      *)
(*            Some), hash (attrs.state_hash)                               *)
(*   segment  version, machine (machine_config_hash), clock (num, den),    *)
(*            base and end (snapshot ids), endHash, epochs                 *)
(*            (flags.EPOCH_HASHES), structure ("Ok", "R4" or "R5")         *)
(***************************************************************************)
IsPath(p) ==
  /\ DOMAIN p.segs = 1..Len(p.segs) /\ Len(p.segs) \in Nat
  /\ DOMAIN p.nodes = 1..(Len(p.segs) + 1)
  /\ \A i \in 1..Len(p.segs) :
       /\ p.segs[i].endHash # NoHash
       /\ p.segs[i].epochs \in BOOLEAN
       /\ p.segs[i].structure \in {"Ok", "R4", "R5"}

ASSUME PathsAssumption == \A p \in Paths : IsPath(p)

VARIABLES
  path,     \* root and edges
  stage,    \* where assemble stands
  at,       \* the 1-based segment looked at next
  entries,  \* the container's segments made so far
  result    \* the container, the error, or Working

vars == <<path, stage, at, entries, result>>

Working == [kind |-> "Working"]
RuleError(rule, i) == [kind |-> "Rule", rule |-> rule, segment |-> i]

Node(i) == path.nodes[i + 1]   \* the node segment i leads to; Node(0) is the root
Seg(i) == path.segs[i]
NSegs == Len(path.segs)

-----------------------------------------------------------------------------
\* The rules, of one segment

R1Broken(i) == Seg(i).version \notin SupportedVersions \/ Seg(i).version # Seg(1).version

R2Broken(i) == Seg(i).machine # Seg(1).machine \/ Seg(i).clock # Seg(1).clock

\* Mutant: the snapshot a segment ended in is not asked about.
MutantR3Broken(i) ==
  \/ Seg(i).base # Node(i - 1).ref
  \/ Node(i).parent # Node(i - 1).id
\* The base is the parent's snapshot, which is where the segment before ended.
R3Broken(i) ==
  \/ Seg(i).base # Node(i - 1).ref
  \/ i > 1 /\ Node(i - 1).ref # Seg(i - 1).end
  \/ Node(i).parent # Node(i - 1).id

R6Broken(i) == Node(i).hash # Seg(i).endHash

\* The nodes R6 finds without a state hash.
MissingHashes == {i \in 1..NSegs : Node(i).hash = NoHash}

\* Pass s stops at segment i, and the rule it then names.
Stops(s, i) ==
  \/ s = "R1" /\ R1Broken(i)
  \/ s = "R2" /\ R2Broken(i)
  \/ s = "R3" /\ R3Broken(i)
  \/ s = "R4R5" /\ Seg(i).structure # "Ok"
  \/ s = "R6" /\ R6Broken(i)
  \/ s = "entries" /\ ~Node(i).logged

RuleOf(s, i) ==
  CASE s = "R4R5" -> Seg(i).structure
    [] s = "entries" -> "R3"
    [] OTHER -> s

\* Mutant: the digest table is compared before the records are walked.
MutantStageAfter(s) ==
  CASE s = "R1" -> "R2" [] s = "R2" -> "R3" [] s = "R3" -> "missing"
    [] s = "missing" -> "R6" [] s = "R6" -> "R4R5" [] s = "R4R5" -> "entries"
\* The order of the passes; "missing" is R6's look at all the nodes at once.
StageAfter(s) ==
  CASE s = "R1" -> "R2" [] s = "R2" -> "R3" [] s = "R3" -> "R4R5"
    [] s = "R4R5" -> "missing" [] s = "missing" -> "R6" [] s = "R6" -> "entries"

-----------------------------------------------------------------------------
\* assemble's steps

Abort(error) ==
  /\ result' = error
  /\ UNCHANGED <<path, stage, at, entries>>

\* A path without edges is refused before any rule is looked at.
EmptyPath ==
  /\ result = Working /\ NSegs = 0
  /\ Abort(RuleError("R3", 0))

\* A segment breaks the rule of this pass.
SegmentStops ==
  /\ result = Working /\ stage # "missing" /\ at \in 1..NSegs
  /\ Stops(stage, at)
  /\ Abort(RuleError(RuleOf(stage, at), at))

\* The entry of a segment in the container's table.
Entry(i) ==
  [node |-> Node(i).id, base |-> Seg(i).base, child |-> Seg(i).end, hash |-> Seg(i).endHash]

\* It does not; the last pass makes its entry.
SegmentPasses ==
  /\ result = Working /\ stage # "missing" /\ at \in 1..NSegs
  /\ ~Stops(stage, at)
  /\ at' = at + 1
  /\ entries' = IF stage = "entries" THEN Append(entries, Entry(at)) ELSE entries
  /\ UNCHANGED <<path, stage, result>>

PassEnds ==
  /\ result = Working /\ NSegs > 0
  /\ stage \notin {"missing", "entries"} /\ at = NSegs + 1
  /\ stage' = StageAfter(stage) /\ at' = 1
  /\ UNCHANGED <<path, entries, result>>

\* The nodes without a hash are named all at once.
HashesMissing ==
  /\ result = Working /\ stage = "missing" /\ MissingHashes # {}
  /\ Abort([kind |-> "VerifyUnsupported", nodes |-> {Node(i).id : i \in MissingHashes}])

HashesPresent ==
  /\ result = Working /\ stage = "missing" /\ MissingHashes = {}
  /\ stage' = StageAfter(stage) /\ at' = 1
  /\ UNCHANGED <<path, entries, result>>

EpochHashesEverywhere == \A i \in 1..NSegs : Seg(i).epochs

Assembled ==
  /\ result = Working /\ stage = "entries" /\ NSegs > 0 /\ at = NSegs + 1
  /\ result' = [kind |-> "Container", segments |-> entries, root |-> Node(0).ref,
                machine |-> Seg(1).machine, clock |-> Seg(1).clock,
                epochs |-> EpochHashesEverywhere, goal |-> Node(NSegs).id]
  /\ UNCHANGED <<path, stage, at, entries>>

Step ==
  \/ EmptyPath
  \/ SegmentStops
  \/ SegmentPasses
  \/ PassEnds
  \/ HashesMissing
  \/ HashesPresent
  \/ Assembled

Init ==
  /\ path \in Paths
  /\ stage = "R1" /\ at = 1
  /\ entries = <<>>
  /\ result = Working

Returned == result # Working /\ UNCHANGED vars

Next == Step \/ Returned

Spec == Init /\ [][Next]_vars

-----------------------------------------------------------------------------
\* Properties

Stages == {"R1", "R2", "R3", "R4R5", "missing", "R6", "entries"}
ErrorRules == {"R1", "R2", "R3", "R4", "R5", "R6"}

TypeOK ==
  /\ IsPath(path)
  /\ stage \in Stages
  /\ at \in 1..(NSegs + 1)
  /\ Len(entries) = IF stage = "entries" THEN at - 1 ELSE 0
  /\ result.kind \in {"Working", "Rule", "VerifyUnsupported", "Container"}
  /\ result.kind = "Rule" => result.rule \in ErrorRules /\ result.segment \in 0..NSegs

\* No segment breaks any of the rules S.
Holds(S) == \A s \in S, i \in 1..NSegs : ~Stops(s, i)

\* A container is only made of a path that can be replayed edge by edge: each
\* segment starts in the very snapshot the one before it ended in, on the same
\* machine and clock, is structurally sound and ends in its node's recorded
\* hash; and the entries are the segments, in path order (rules.rs:36-45,
\* assemble.rs:59-80).  verify() takes all of this for granted.
ContainerIsReplayable ==
  result.kind = "Container" =>
    /\ Len(result.segments) = NSegs /\ NSegs > 0
    /\ result.segments[1].base = result.root
    /\ \A i \in 1..(NSegs - 1) : result.segments[i].child = result.segments[i + 1].base
    /\ \A i \in 1..NSegs :
         /\ result.segments[i].node = Node(i).id
         /\ Node(i).parent = Node(i - 1).id
         /\ result.segments[i].base = Node(i - 1).ref
         /\ result.segments[i].hash = Node(i).hash /\ Node(i).hash # NoHash
         /\ Seg(i).machine = result.machine /\ Seg(i).clock = result.clock
         /\ Seg(i).version \in SupportedVersions
         /\ Seg(i).structure = "Ok"
         /\ result.epochs => Seg(i).epochs
    /\ result.goal = result.segments[NSegs].node

\* The passes before the one that can raise rule r, at segment i.
Before(r) ==
  CASE r = "R1" -> {}
    [] r = "R2" -> {"R1"}
    [] r = "R3" -> {"R1", "R2"}
    [] r \in {"R4", "R5"} -> {"R1", "R2", "R3"}
    [] r = "R6" -> {"R1", "R2", "R3", "R4R5"}

\* An error names the first rule broken in the documented order R1, R2, R3,
\* R4/R5, R6, whatever else is wrong with the path and in whichever segment,
\* and the first segment that breaks it; missing hashes are only complained of
\* on a path that is sound up to there, and all of them are (rules.rs:1-4,
\* 184-195).  A missing log is the exception: it is named R3 after R6.
ErrorIsTheFirst ==
  /\ result.kind = "Rule" /\ result.segment > 0 =>
       /\ Holds(Before(result.rule))
       /\ LET i == result.segment
          IN  \/ result.rule \in {"R1", "R2", "R3", "R6"} /\ Stops(result.rule, i)
              \/ result.rule \in {"R4", "R5"} /\ Seg(i).structure = result.rule
              \/ result.rule = "R3" /\ ~Node(i).logged /\ Holds({"R3", "R4R5", "R6"})
       /\ \A j \in 1..(result.segment - 1) :
            ~Stops(IF result.rule \in {"R4", "R5"} THEN "R4R5" ELSE result.rule, j)
       /\ result.rule = "R6" => MissingHashes = {}
  /\ result.kind = "VerifyUnsupported" =>
       /\ Holds({"R1", "R2", "R3", "R4R5"})
       /\ result.nodes = {Node(i).id : i \in MissingHashes} /\ result.nodes # {}
=============================================================================
