---------------------------- MODULE SpliceProofs ----------------------------
(***************************************************************************)
(* What assembly guarantees for paths of every length and any set of       *)
(* supported versions, and the file for META, segments and edits of every  *)
(* kind.  Swept is the invariant of assembly's passes: those before this   *)
(* one found nothing in any segment, and this one nothing so far.          *)
(*                                                                         *)
(* Then the file: the lemmas on padding, sequences and what is laid out    *)
(* where (Lies, BodyLies), the reader's checks as conjunctions             *)
(* (HeaderGood, ExtentGood, ContentGood), the kinds of cells and their     *)
(* edits, a damage that is seen, what has been read (Reads), the assembled *)
(* container read back (Wrote), and FInv, the invariant of ContainerFile,  *)
(* which every step keeps.                                                 *)
(***************************************************************************)
EXTENDS ContainerFile, SequenceTheorems, WellFoundedInduction, TLAPS

\* The passes completed before stage s.
PassedBefore(s) ==
  CASE s = "R1" -> {}
    [] s = "R2" -> {"R1"}
    [] s = "R3" -> {"R1", "R2"}
    [] s = "R4R5" -> {"R1", "R2", "R3"}
    [] s = "missing" -> {"R1", "R2", "R3", "R4R5"}
    [] s = "R6" -> {"R1", "R2", "R3", "R4R5"}
    [] s = "entries" -> {"R1", "R2", "R3", "R4R5", "R6"}

Swept ==
  /\ Holds(PassedBefore(stage))
  /\ stage # "missing" => \A j \in 1..(at - 1) : ~Stops(stage, j)
  /\ stage \in {"R6", "entries"} => MissingHashes = {}
  /\ DOMAIN entries = 1..Len(entries)
  /\ Len(entries) = IF stage = "entries" THEN at - 1 ELSE 0
  /\ \A j \in 1..Len(entries) : entries[j] = Entry(j)

\* What the result says of where assemble stopped.
Stopped ==
  /\ result.kind = "Rule" =>
       \/ result.segment = 0 /\ result.rule = "R3"
       \/ /\ result.segment = at /\ at \in 1..NSegs
          /\ stage # "missing" /\ Stops(stage, at) /\ result.rule = RuleOf(stage, at)
  /\ result.kind = "VerifyUnsupported" =>
       /\ stage = "missing" /\ MissingHashes # {}
       /\ result.nodes = {Node(i).id : i \in MissingHashes}
  /\ result.kind = "Container" =>
       /\ stage = "entries" /\ NSegs > 0 /\ at = NSegs + 1
       /\ result.segments = entries /\ result.root = Node(0).ref
       /\ result.machine = Seg(1).machine /\ result.clock = Seg(1).clock
       /\ result.epochs = EpochHashesEverywhere
       /\ result.goal = Node(NSegs).id

Typed ==
  /\ IsPath(path)
  /\ stage \in Stages
  /\ at \in 1..(NSegs + 1)
  /\ entries \in Seq({Entry(i) : i \in 1..NSegs})
  /\ result.kind \in {"Working", "Rule", "VerifyUnsupported", "Container"}

IInv == Typed /\ Swept /\ Stopped

LEMMA InitIInv == Init => IInv
<1>. SUFFICES ASSUME Init PROVE IInv
  OBVIOUS
<1>1. IsPath(path) /\ NSegs \in Nat
  BY PathsAssumption DEF Init, IsPath, NSegs
<1>2. Typed
  BY <1>1 DEF Init, Typed, Stages, Working
<1>3. Swept
  BY <1>1 DEF Init, Swept, Holds, PassedBefore
<1>4. Stopped
  BY DEF Init, Stopped, Working
<1>. QED  BY <1>2, <1>3, <1>4 DEF IInv

\* assemble never changes the path, so what is true of it stays true.
LEMMA PathFixed ==
  ASSUME path' = path
  PROVE  /\ NSegs' = NSegs
         /\ \A s, i : Stops(s, i)' <=> Stops(s, i)
         /\ \A s : Holds(s)' <=> Holds(s)
         /\ MissingHashes' = MissingHashes
         /\ \A i : Entry(i)' = Entry(i) /\ Node(i)' = Node(i) /\ Seg(i)' = Seg(i)
         /\ \A s, i : RuleOf(s, i)' = RuleOf(s, i)
<1>1. NSegs' = NSegs /\ \A i : Node(i)' = Node(i) /\ Seg(i)' = Seg(i)
  BY DEF NSegs, Node, Seg
<1>2. \A i : /\ R1Broken(i)' <=> R1Broken(i)
             /\ R2Broken(i)' <=> R2Broken(i)
             /\ R3Broken(i)' <=> R3Broken(i)
             /\ R6Broken(i)' <=> R6Broken(i)
             /\ Entry(i)' = Entry(i)
  BY <1>1 DEF R1Broken, R2Broken, R3Broken, R6Broken, Entry
<1>3. \A s, i : Stops(s, i)' <=> Stops(s, i)
  BY <1>1, <1>2 DEF Stops
<1>4. MissingHashes' = MissingHashes
  BY <1>1 DEF MissingHashes
<1>5. \A s, i : RuleOf(s, i)' = RuleOf(s, i)
  BY <1>1 DEF RuleOf
<1>6. \A s : Holds(s)' <=> Holds(s)
  BY <1>1, <1>3 DEF Holds
<1>. QED  BY <1>1, <1>2, <1>3, <1>4, <1>5, <1>6

\* An abort leaves everything but the result where it was.
LEMMA AbortIInv ==
  ASSUME IInv, UNCHANGED <<path, stage, at, entries>>,
         result'.kind \in {"Working", "Rule", "VerifyUnsupported", "Container"}, Stopped'
  PROVE  IInv'
<1>1. Typed'
  BY DEF IInv, Typed, IsPath, Entry, Node, Seg, NSegs
<1>2. Swept'
  BY PathFixed DEF IInv, Swept
<1>. QED  BY <1>1, <1>2 DEF IInv

LEMMA StopsIInv == ASSUME IInv, EmptyPath \/ SegmentStops \/ HashesMissing PROVE IInv'
<1>1. UNCHANGED <<path, stage, at, entries>>
  BY DEF EmptyPath, SegmentStops, HashesMissing, Abort
<1>2. CASE EmptyPath
  <2>1. result' = [kind |-> "Rule", rule |-> "R3", segment |-> 0]
    BY <1>2 DEF EmptyPath, Abort, RuleError
  <2>2. Stopped'
    BY <2>1 DEF Stopped
  <2>. QED  BY <1>1, <2>1, <2>2, AbortIInv
<1>3. CASE SegmentStops
  <2>1. /\ result' = [kind |-> "Rule", rule |-> RuleOf(stage, at), segment |-> at]
        /\ stage # "missing" /\ at \in 1..NSegs /\ Stops(stage, at)
    BY <1>3 DEF SegmentStops, Abort, RuleError
  <2>2. Stopped'
    BY <1>1, <2>1, PathFixed DEF Stopped
  <2>. QED  BY <1>1, <2>1, <2>2, AbortIInv
<1>4. CASE HashesMissing
  <2>1. /\ result' = [kind |-> "VerifyUnsupported", nodes |-> {Node(i).id : i \in MissingHashes}]
        /\ stage = "missing" /\ MissingHashes # {}
    BY <1>4 DEF HashesMissing, Abort
  <2>2. Stopped'
    <3>1. result'.nodes = {Node(i).id : i \in MissingHashes}'
      BY <1>1, <2>1, PathFixed
    <3>. QED  BY <1>1, <2>1, <3>1, PathFixed DEF Stopped
  <2>. QED  BY <1>1, <2>1, <2>2, AbortIInv
<1>. QED  BY <1>2, <1>3, <1>4

LEMMA AssembledIInv == ASSUME IInv, Assembled PROVE IInv'
<1>1. UNCHANGED <<path, stage, at, entries>>
  BY DEF Assembled
<1>2. /\ result'.kind = "Container"
      /\ result'.segments = entries /\ result'.root = Node(0).ref
      /\ result'.machine = Seg(1).machine /\ result'.clock = Seg(1).clock
      /\ result'.epochs = EpochHashesEverywhere /\ result'.goal = Node(NSegs).id
  BY DEF Assembled
<1>3. EpochHashesEverywhere' = EpochHashesEverywhere
  BY <1>1, PathFixed DEF EpochHashesEverywhere
<1>4. Stopped'
  <2>1. stage = "entries" /\ NSegs > 0 /\ at = NSegs + 1
    BY DEF Assembled
  <2>. QED  BY <1>1, <1>2, <1>3, <2>1, PathFixed DEF Stopped
<1>. QED  BY <1>1, <1>2, <1>4, AbortIInv

\* A segment passes: nothing before the next one stops this pass.
LEMMA SegmentPassesIInv == ASSUME IInv, SegmentPasses PROVE IInv'
<1>1. /\ result = Working /\ stage # "missing" /\ at \in 1..NSegs /\ ~Stops(stage, at)
      /\ at' = at + 1 /\ UNCHANGED <<path, stage, result>>
      /\ entries' = IF stage = "entries" THEN Append(entries, Entry(at)) ELSE entries
  BY DEF SegmentPasses
<1>2. NSegs \in Nat /\ NSegs' = NSegs
  BY <1>1, PathFixed DEF IInv, Typed, IsPath, NSegs
<1>3. /\ Len(entries') = IF stage = "entries" THEN at ELSE 0
      /\ DOMAIN entries' = 1..Len(entries')
      /\ \A j \in 1..Len(entries') : entries'[j] = Entry(j)
  <2>1. CASE stage = "entries"
    BY <1>1, <1>2, <2>1 DEF IInv, Typed, Swept
  <2>2. CASE stage # "entries"
    BY <1>1, <2>2 DEF IInv, Swept
  <2>. QED  BY <2>1, <2>2
<1>4. Typed'
  <2>1. entries' \in Seq({Entry(i) : i \in 1..NSegs})
    BY <1>1 DEF IInv, Typed
  <2>2. {Entry(i) : i \in 1..NSegs}' = {Entry(i) : i \in 1..NSegs}
    BY <1>1, PathFixed
  <2>3. IsPath(path)' /\ at' \in 1..(NSegs' + 1) /\ stage' \in Stages
    BY <1>1, <1>2 DEF IInv, Typed, IsPath
  <2>. QED  BY <1>1, <2>1, <2>2, <2>3 DEF IInv, Typed
<1>5. Swept'
  <2>1. \A j \in 1..at : ~Stops(stage, j)
    BY <1>1, <1>2 DEF IInv, Swept
  <2>. QED  BY <1>1, <1>2, <1>3, <2>1, PathFixed DEF IInv, Swept
<1>6. Stopped'
  BY <1>1 DEF Stopped, Working
<1>. QED  BY <1>4, <1>5, <1>6 DEF IInv

\* A pass is over: it stopped at no segment at all.
LEMMA PassEndsIInv == ASSUME IInv, PassEnds \/ HashesPresent PROVE IInv'
<1>1. /\ result = Working /\ at' = 1 /\ stage' = StageAfter(stage)
      /\ UNCHANGED <<path, entries, result>>
      /\ stage \in Stages \ {"entries"}
  BY DEF PassEnds, HashesPresent, IInv, Typed, Stages
<1>2. NSegs \in Nat /\ NSegs' = NSegs
  BY <1>1, PathFixed DEF IInv, Typed, IsPath, NSegs
<1>3. /\ stage' \in Stages \ {"R1"}
      /\ stage' = "missing" \/ stage # "R4R5"
  BY <1>1 DEF StageAfter, Stages
<1>4. Typed'
  BY <1>1, <1>2, <1>3 DEF IInv, Typed, IsPath, Entry, Node, Seg, NSegs
<1>5. Holds(PassedBefore(stage'))
  <2>1. CASE PassEnds
    <3>1. stage # "missing" /\ at = NSegs + 1
      BY <2>1 DEF PassEnds
    <3>2. Holds(PassedBefore(stage)) /\ \A j \in 1..NSegs : ~Stops(stage, j)
      BY <1>2, <3>1 DEF IInv, Swept
    <3>3. Holds(PassedBefore(stage) \cup {stage})
      BY <3>2 DEF Holds
    <3>4. PassedBefore(stage') = PassedBefore(stage) \cup {stage}
      BY <1>1, <3>1 DEF PassedBefore, StageAfter, Stages
    <3>. QED  BY <3>3, <3>4
  <2>2. CASE HashesPresent
    <3>1. stage = "missing" /\ stage' = "R6"
      BY <1>1, <2>2 DEF HashesPresent, StageAfter
    <3>. QED  BY <3>1 DEF IInv, Swept, PassedBefore
  <2>. QED  BY <2>1, <2>2
<1>6. stage' \in {"R6", "entries"} => MissingHashes = {}
  BY <1>1 DEF PassEnds, HashesPresent, StageAfter, Stages, IInv, Swept
<1>7. Swept'
  <2>1. Len(entries) = 0
    BY <1>1 DEF IInv, Swept
  <2>. QED  BY <1>1, <1>5, <1>6, <2>1, PathFixed DEF IInv, Swept
<1>8. Stopped'
  BY <1>1 DEF Stopped, Working
<1>. QED  BY <1>4, <1>7, <1>8 DEF IInv

LEMMA StepIInv == IInv /\ [Next]_vars => IInv'
<1>. SUFFICES ASSUME IInv, [Next]_vars PROVE IInv'
  OBVIOUS
<1>1. CASE UNCHANGED vars
  <2>1. UNCHANGED <<path, stage, at, entries, result>>
    BY <1>1 DEF vars
  <2>2. Stopped'
    BY <2>1, PathFixed DEF IInv, Stopped, EpochHashesEverywhere
  <2>. QED  BY <2>1, <2>2, AbortIInv DEF IInv, Typed
<1>. QED
  BY <1>1, StopsIInv, AssembledIInv, SegmentPassesIInv, PassEndsIInv
  DEF Next, Step, Returned

LEMMA InvariantIInv == Spec => []IInv
  BY InitIInv, StepIInv, PTL DEF Spec

-----------------------------------------------------------------------------
\* Type correctness.
THEOREM TypeCorrect == Spec => []TypeOK
<1>1. IInv => TypeOK
  <2>. SUFFICES ASSUME IInv PROVE TypeOK
    OBVIOUS
  <2>1. result.kind = "Rule" => result.rule \in ErrorRules /\ result.segment \in 0..NSegs
    BY DEF IInv, Typed, Stopped, IsPath, RuleOf, ErrorRules, Stages, Stops, Seg, NSegs
  <2>. QED  BY <2>1 DEF IInv, Typed, Swept, TypeOK
<1>. QED  BY <1>1, InvariantIInv, PTL

\* A path that got through the passes can be replayed.
LEMMA SweptReplayable == IInv => ContainerIsReplayable
<1>. SUFFICES ASSUME IInv, result.kind = "Container" PROVE ContainerIsReplayable
  BY DEF ContainerIsReplayable
<1>1. /\ stage = "entries" /\ NSegs > 0 /\ at = NSegs + 1 /\ NSegs \in Nat
      /\ result.segments = entries /\ result.root = Node(0).ref
      /\ result.machine = Seg(1).machine /\ result.clock = Seg(1).clock
      /\ result.epochs = EpochHashesEverywhere /\ result.goal = Node(NSegs).id
  BY DEF IInv, Stopped, Typed, IsPath, NSegs
<1>2. Len(entries) = NSegs /\ \A i \in 1..NSegs : entries[i] = Entry(i)
  BY <1>1 DEF IInv, Swept
<1>3. \A i \in 1..NSegs : /\ ~R1Broken(i) /\ ~R2Broken(i) /\ ~R3Broken(i) /\ ~R6Broken(i)
                          /\ Seg(i).structure = "Ok"
  BY <1>1 DEF IInv, Swept, Holds, PassedBefore, Stops
<1>4. \A i \in 1..NSegs : Node(i).hash # NoHash
  BY <1>1 DEF IInv, Swept, MissingHashes
<1>5. \A i \in 1..(NSegs - 1) : Entry(i).child = Entry(i + 1).base
  <2>. SUFFICES ASSUME NEW i \in 1..(NSegs - 1) PROVE Seg(i).end = Seg(i + 1).base
    BY DEF Entry
  <2>1. i + 1 \in 1..NSegs /\ (i + 1) - 1 = i /\ i + 1 > 1
    BY <1>1
  <2>2. ~R3Broken(i + 1)
    BY <1>3, <2>1
  <2>. QED  BY <2>1, <2>2 DEF R3Broken
<1>6. \A i \in 1..NSegs :
        /\ Node(i).parent = Node(i - 1).id /\ Seg(i).base = Node(i - 1).ref
        /\ Seg(i).machine = Seg(1).machine /\ Seg(i).clock = Seg(1).clock
        /\ Seg(i).version \in SupportedVersions /\ Seg(i).endHash = Node(i).hash
  BY <1>3 DEF R1Broken, R2Broken, R3Broken, R6Broken
<1>7. \A i \in 1..NSegs : result.epochs => Seg(i).epochs
  BY <1>1 DEF EpochHashesEverywhere
<1>8. 1 \in 1..NSegs /\ NSegs \in 1..NSegs
  BY <1>1
<1>9. result.segments[1].base = result.root
  BY <1>1, <1>2, <1>6, <1>8 DEF Entry
<1>10. result.goal = result.segments[NSegs].node
  BY <1>1, <1>2, <1>8 DEF Entry
<1>11. \A i \in 1..(NSegs - 1) : result.segments[i].child = result.segments[i + 1].base
  BY <1>1, <1>2, <1>5
<1>12. \A i \in 1..NSegs : /\ result.segments[i].node = Node(i).id
                           /\ result.segments[i].base = Seg(i).base
                           /\ result.segments[i].hash = Seg(i).endHash
  BY <1>1, <1>2 DEF Entry
<1>. QED
  BY <1>1, <1>2, <1>3, <1>4, <1>6, <1>7, <1>9, <1>10, <1>11, <1>12 DEF ContainerIsReplayable

\* Whatever the path, a container is only made of one that can be replayed
\* edge by edge (rules.rs:36-45, assemble.rs:59-80).
THEOREM Replayability == Spec => []ContainerIsReplayable
  BY SweptReplayable, InvariantIInv, PTL

\* Whatever is wrong with the path, the error is of the first rule broken, at
\* the first segment that breaks it (rules.rs:1-4, 184-195).
THEOREM FirstError == Spec => []ErrorIsTheFirst
<1>1. ASSUME IInv, result.kind = "Rule", result.segment > 0
      PROVE  /\ Holds(Before(result.rule))
             /\ \/ /\ result.rule \in {"R1", "R2", "R3", "R6"}
                   /\ Stops(result.rule, result.segment)
                \/ /\ result.rule \in {"R4", "R5"}
                   /\ Seg(result.segment).structure = result.rule
                \/ /\ result.rule = "R3" /\ ~Node(result.segment).logged
                   /\ Holds({"R3", "R4R5", "R6"})
             /\ \A j \in 1..(result.segment - 1) :
                  ~Stops(IF result.rule \in {"R4", "R5"} THEN "R4R5" ELSE result.rule, j)
             /\ result.rule = "R6" => MissingHashes = {}
  <2>1. /\ result.segment = at /\ at \in 1..NSegs /\ stage \in Stages \ {"missing"}
        /\ Stops(stage, at) /\ result.rule = RuleOf(stage, at)
        /\ Holds(PassedBefore(stage)) /\ \A j \in 1..(at - 1) : ~Stops(stage, j)
        /\ stage = "R6" => MissingHashes = {}
        /\ NSegs \in Nat
    BY <1>1 DEF IInv, Typed, IsPath, NSegs, Stopped, Swept
  <2>2. Seg(at).structure \in {"Ok", "R4", "R5"}
    BY <1>1, <2>1 DEF IInv, Typed, IsPath, Seg, NSegs
  <2>3. CASE stage = "R4R5"
    <3>1. result.rule \in {"R4", "R5"} /\ Seg(at).structure = result.rule
      BY <2>1, <2>2, <2>3 DEF Stops, RuleOf
    <3>2. Before(result.rule) = PassedBefore(stage)
      BY <2>3, <3>1 DEF Before, PassedBefore
    <3>. QED  BY <2>1, <2>3, <3>1, <3>2
  <2>4. CASE stage \in {"R1", "R2", "R3", "R6"}
    <3>1. result.rule = stage
      BY <2>1, <2>4 DEF RuleOf
    <3>2. Before(result.rule) = PassedBefore(stage)
      BY <2>4, <3>1 DEF Before, PassedBefore
    <3>. QED  BY <2>1, <2>4, <3>1, <3>2
  <2>5. CASE stage = "entries"
    <3>1. result.rule = "R3" /\ ~Node(at).logged
      BY <2>1, <2>5 DEF RuleOf, Stops
    <3>2. Holds({"R1", "R2", "R3", "R4R5", "R6"})
      BY <2>1, <2>5 DEF PassedBefore
    <3>3. Holds({"R3", "R4R5", "R6"}) /\ Holds(Before("R3"))
      BY <3>2 DEF Holds, Before
    <3>4. \A j \in 1..(at - 1) : ~Stops("R3", j)
      BY <2>1, <3>3 DEF Holds
    <3>. QED  BY <2>1, <3>1, <3>3, <3>4
  <2>. QED  BY <2>1, <2>3, <2>4, <2>5 DEF Stages
<1>2. ASSUME IInv, result.kind = "VerifyUnsupported"
      PROVE  /\ Holds({"R1", "R2", "R3", "R4R5"})
             /\ result.nodes = {Node(i).id : i \in MissingHashes} /\ result.nodes # {}
  BY <1>2 DEF IInv, Stopped, Swept, PassedBefore
<1>3. IInv => ErrorIsTheFirst
  BY <1>1, <1>2 DEF ErrorIsTheFirst
<1>. QED  BY <1>3, InvariantIInv, PTL

-----------------------------------------------------------------------------
\* Sequences

IsSeq(s) == Len(s) \in Nat /\ s = [k \in 1..Len(s) |-> s[k]]

LEMMA SameSeq ==
  ASSUME NEW s, NEW t, IsSeq(s), IsSeq(t), Len(s) = Len(t), \A k \in 1..Len(s) : s[k] = t[k]
  PROVE  s = t
BY DEF IsSeq

LEMMA InSeq ==
  ASSUME NEW s, IsSeq(s), NEW S, \A k \in 1..Len(s) : s[k] \in S
  PROVE  s \in Seq(S)
<1>1. s \in [1..Len(s) -> S] /\ Len(s) \in Nat
  BY DEF IsSeq
<1> QED
  BY <1>1

LEMMA SeqIs ==
  ASSUME NEW S, NEW s \in Seq(S)
  PROVE  IsSeq(s)
BY DEF IsSeq

LEMMA FunIs ==
  ASSUME NEW n \in Nat, NEW s, DOMAIN s = 1..n, s = [k \in 1..n |-> s[k]]
  PROVE  IsSeq(s) /\ Len(s) = n
BY DEF IsSeq

LEMMA Joined ==
  ASSUME NEW s, NEW t, IsSeq(s), IsSeq(t)
  PROVE  /\ IsSeq(s \o t) /\ Len(s \o t) = Len(s) + Len(t)
         /\ \A k \in 1..Len(s) : (s \o t)[k] = s[k]
         /\ \A k \in 1..Len(t) : (s \o t)[Len(s) + k] = t[k]
<1>1. PICK S : S = {s[k] : k \in 1..Len(s)} \cup {t[k] : k \in 1..Len(t)}
  OBVIOUS
<1>2. s \in Seq(S) /\ t \in Seq(S)
  BY <1>1, InSeq
<1>3. /\ s \o t \in Seq(S) /\ Len(s \o t) = Len(s) + Len(t)
      /\ \A i \in 1..Len(s) + Len(t) : (s \o t)[i] = IF i <= Len(s) THEN s[i] ELSE t[i - Len(s)]
  BY <1>2, ConcatProperties
<1>4. Len(s) \in Nat /\ Len(t) \in Nat
  BY DEF IsSeq
<1>5. \A k \in 1..Len(t) : (s \o t)[Len(s) + k] = t[k]
  <2> SUFFICES ASSUME NEW k \in 1..Len(t) PROVE (s \o t)[Len(s) + k] = t[k]
    OBVIOUS
  <2>1. Len(s) + k \in 1..(Len(s) + Len(t)) /\ ~(Len(s) + k <= Len(s)) /\ Len(s) + k - Len(s) = k
    BY <1>4
  <2> QED
    BY <1>3, <2>1
<1>6. IsSeq(s \o t)
  BY <1>3, SeqIs
<1> QED
  BY <1>3, <1>4, <1>5, <1>6

LEMMA CutIs ==
  ASSUME NEW s, IsSeq(s), NEW a \in Nat, NEW b \in Nat, a <= b, b <= Len(s)
  PROVE  /\ IsSeq(SubSeq(s, a + 1, b)) /\ Len(SubSeq(s, a + 1, b)) = b - a
         /\ \A k \in 1..(b - a) : SubSeq(s, a + 1, b)[k] = s[a + k]
<1>1. PICK S : S = {s[k] : k \in 1..Len(s)}
  OBVIOUS
<1>2. Len(s) \in Nat /\ \A i \in (a + 1)..b : s[i] \in S
  BY <1>1 DEF IsSeq
<1>3. /\ SubSeq(s, a + 1, b) \in Seq(S)
      /\ Len(SubSeq(s, a + 1, b)) = IF a + 1 <= b THEN b - (a + 1) + 1 ELSE 0
      /\ \A i \in 1..(b - (a + 1) + 1) : SubSeq(s, a + 1, b)[i] = s[a + 1 + i - 1]
  BY <1>2, SubSeqProperties
<1>4. Len(SubSeq(s, a + 1, b)) = b - a
  BY <1>3
<1>5. \A i \in 1..(b - a) : a + 1 + i - 1 = a + i /\ i \in 1..(b - (a + 1) + 1)
  OBVIOUS
<1> QED
  BY <1>3, <1>4, <1>5, SeqIs

\* The sequence s is in f, after the first a of its cells.
Lies(s, f, a) == a + Len(s) <= Len(f) /\ \A k \in 1..Len(s) : f[a + k] = s[k]

LEMMA LiesWhole ==
  ASSUME NEW s, NEW f, IsSeq(s), IsSeq(f), Len(s) = Len(f)
  PROVE  Lies(s, f, 0) <=> f = s
<1>1. ASSUME Lies(s, f, 0) PROVE f = s
  <2>1. \A k \in 1..Len(s) : 0 + k = k
    BY DEF IsSeq
  <2>2. \A k \in 1..Len(s) : f[k] = s[k]
    BY <1>1, <2>1 DEF Lies
  <2> QED
    BY <2>2, SameSeq
<1>2. ASSUME f = s PROVE Lies(s, f, 0)
  BY <1>2 DEF Lies, IsSeq
<1> QED
  BY <1>1, <1>2

LEMMA LiesJoined ==
  ASSUME NEW s, NEW t, NEW f, IsSeq(s), IsSeq(t), IsSeq(f), NEW a \in Nat
  PROVE  Lies(s \o t, f, a) <=> Lies(s, f, a) /\ Lies(t, f, a + Len(s))
<1>1. /\ Len(s) \in Nat /\ Len(t) \in Nat /\ Len(f) \in Nat /\ Len(s \o t) = Len(s) + Len(t)
      /\ \A k \in 1..Len(s) : (s \o t)[k] = s[k]
      /\ \A k \in 1..Len(t) : (s \o t)[Len(s) + k] = t[k]
  BY Joined DEF IsSeq
<1>2. ASSUME Lies(s \o t, f, a) PROVE Lies(s, f, a) /\ Lies(t, f, a + Len(s))
  <2>1. a + (Len(s) + Len(t)) <= Len(f) /\ \A k \in 1..(Len(s) + Len(t)) : f[a + k] = (s \o t)[k]
    BY <1>1, <1>2 DEF Lies
  <2>2. Lies(s, f, a)
    BY <1>1, <2>1 DEF Lies
  <2>3. ASSUME NEW k \in 1..Len(t) PROVE f[a + Len(s) + k] = t[k]
    <3>1. Len(s) + k \in 1..(Len(s) + Len(t)) /\ a + (Len(s) + k) = a + Len(s) + k
      BY <1>1
    <3> QED
      BY <1>1, <2>1, <3>1
  <2> QED
    BY <1>1, <2>1, <2>2, <2>3 DEF Lies
<1>3. ASSUME Lies(s, f, a), Lies(t, f, a + Len(s)) PROVE Lies(s \o t, f, a)
  <2>1. a + (Len(s) + Len(t)) <= Len(f)
    BY <1>1, <1>3 DEF Lies
  <2>2. ASSUME NEW k \in 1..(Len(s) + Len(t)) PROVE f[a + k] = (s \o t)[k]
    <3>1. CASE k \in 1..Len(s)
      BY <1>1, <1>3, <3>1 DEF Lies
    <3>2. CASE k \notin 1..Len(s)
      <4>1. PICK j \in 1..Len(t) : k = Len(s) + j
        <5>1. k - Len(s) \in 1..Len(t) /\ k = Len(s) + (k - Len(s))
          BY <1>1, <3>2
        <5> QED
          BY <5>1
      <4>2. (s \o t)[Len(s) + j] = t[j] /\ f[a + Len(s) + j] = t[j]
        BY <1>1, <1>3 DEF Lies
      <4>3. a + k = a + Len(s) + j
        BY <1>1, <4>1
      <4> QED
        BY <4>1, <4>2, <4>3
    <3> QED
      BY <3>1, <3>2
  <2> QED
    BY <1>1, <2>1, <2>2 DEF Lies
<1> QED
  BY <1>2, <1>3

\* Every set of naturals that is not empty has a least member.
LEMMA LeastNatural ==
  ASSUME NEW T, T \subseteq Nat, T # {}
  PROVE  \E x \in T : \A y \in T : x <= y
<1> DEFINE R == {ss \in Nat \X Nat : ss[1] < ss[2]}
<1>1. IsWellFoundedOn(R, Nat)
  BY NatLessThanWellFounded DEF OpToRel
<1>2. \A x, y \in Nat : <<y, x>> \notin R => x <= y
  OBVIOUS
<1> HIDE DEF R
<1>3. \E x \in T : \A y \in T : <<y, x>> \notin R
  BY <1>1, WFMin
<1> QED
  BY <1>2, <1>3

\* Induction, for the numbers of a set instead of those with a property.
LEMMA SetInduction ==
  ASSUME NEW T, 0 \in T, \A n \in Nat : n \in T => n + 1 \in T
  PROVE  Nat \subseteq T
<1> DEFINE C == Nat \ T
<1> SUFFICES ASSUME C # {} PROVE FALSE
  OBVIOUS
<1>1. PICK x \in C : \A y \in C : x <= y
  BY LeastNatural
<1>2. x # 0 /\ x - 1 \in Nat /\ x - 1 \notin C
  BY <1>1
<1> QED
  BY <1>2, x - 1 + 1 = x

-----------------------------------------------------------------------------
\* A sequence of sequences, one after the other

\* off[i] is where the i-th begins.
Parts(fs, off) ==
  /\ IsSeq(fs) /\ Len(fs) \in Nat \ {0}
  /\ off \in [1..(Len(fs) + 1) -> Nat] /\ off[1] = 0
  /\ \A i \in 1..Len(fs) : IsSeq(fs[i]) /\ off[i + 1] = off[i] + Len(fs[i])

Flattens(h, fs, n) ==
  h = [i \in 1..n |-> IF i = 1 THEN fs[i] ELSE h[i - 1] \o fs[i]]

LEMMA FlattensExists ==
  ASSUME NEW fs, NEW n \in Nat
  PROVE  \E h : Flattens(h, fs, n)
<1> DEFINE T == {k \in Nat : \E h : Flattens(h, fs, k)}
<1>1. 0 \in T
  <2>1. PICK h : h = [i \in 1..0 |-> <<>>]
    OBVIOUS
  <2>2. Flattens(h, fs, 0)
    BY <2>1 DEF Flattens
  <2> QED
    BY <2>2
<1>2. ASSUME NEW k \in Nat, k \in T PROVE k + 1 \in T
  <2>1. PICK g : Flattens(g, fs, k)
    BY <1>2
  <2>2. PICK z : z = IF k + 1 = 1 THEN fs[k + 1] ELSE g[k] \o fs[k + 1]
    OBVIOUS
  <2>3. PICK h : h = [i \in 1..(k + 1) |-> IF i = k + 1 THEN z ELSE g[i]]
    OBVIOUS
  <2>4. h[k + 1] = z /\ \A i \in 1..k : h[i] = g[i]
    BY <2>3
  <2>5. ASSUME NEW i \in 1..(k + 1)
        PROVE  h[i] = IF i = 1 THEN fs[i] ELSE h[i - 1] \o fs[i]
    <3>1. CASE i = k + 1 /\ i # 1
      <4>1. h[i - 1] = g[k] /\ h[i] = z /\ fs[i] = fs[k + 1] /\ k + 1 # 1
        BY <2>4, <3>1
      <4> QED
        BY <2>2, <3>1, <4>1
    <3>2. CASE i = k + 1 /\ i = 1
      BY <2>2, <2>4, <3>2
    <3>3. CASE i \in 1..k
      <4>1. h[i] = g[i] /\ (i # 1 => h[i - 1] = g[i - 1])
        BY <2>4, <3>3
      <4>2. g[i] = IF i = 1 THEN fs[i] ELSE g[i - 1] \o fs[i]
        BY <2>1, <3>3 DEF Flattens
      <4> QED
        BY <4>1, <4>2
    <3> QED
      BY <3>1, <3>2, <3>3
  <2>6. h = [i \in 1..(k + 1) |-> h[i]]
    BY <2>3
  <2>7. Flattens(h, fs, k + 1)
    BY <2>5, <2>6 DEF Flattens
  <2> QED
    BY <2>7
<1> QED
  <2> HIDE DEF T
  <2>1. Nat \subseteq T
    BY <1>1, <1>2, SetInduction
  <2> QED
    BY <2>1 DEF T

LEMMA FlattenIs ==
  ASSUME NEW fs, NEW off, Parts(fs, off)
  PROVE  \E h : Flattens(h, fs, Len(fs)) /\ FlattenSeq(fs) = h[Len(fs)]
<1>1. Len(fs) \in Nat /\ Len(fs) # 0
  BY DEF Parts
<1>2. Flattens(CHOOSE h : Flattens(h, fs, Len(fs)), fs, Len(fs))
  BY <1>1, FlattensExists
<1>3. FlattenSeq(fs) = (CHOOSE h : Flattens(h, fs, Len(fs)))[Len(fs)]
  BY <1>1 DEF FlattenSeq, Flattens
<1> QED
  BY <1>2, <1>3

\* It lies where its parts lie, one after the other.
LEMMA LiesFlattened ==
  ASSUME NEW fs, NEW off, Parts(fs, off), NEW f, IsSeq(f), NEW a \in Nat
  PROVE  /\ IsSeq(FlattenSeq(fs)) /\ Len(FlattenSeq(fs)) = off[Len(fs) + 1]
         /\ Lies(FlattenSeq(fs), f, a) <=> \A i \in 1..Len(fs) : Lies(fs[i], f, a + off[i])
<1>1. PICK n \in Nat : n = Len(fs) /\ n # 0
  BY DEF Parts
<1>2. PICK h : Flattens(h, fs, n) /\ FlattenSeq(fs) = h[n]
  BY <1>1, FlattenIs
<1>3. \A i \in 1..n : h[i] = IF i = 1 THEN fs[i] ELSE h[i - 1] \o fs[i]
  BY <1>2 DEF Flattens
<1>4. /\ \A i \in 1..(n + 1) : off[i] \in Nat
      /\ off[1] = 0 /\ \A i \in 1..n : IsSeq(fs[i]) /\ off[i + 1] = off[i] + Len(fs[i])
  BY <1>1 DEF Parts
<1> DEFINE UpTo(k) == /\ IsSeq(h[k]) /\ Len(h[k]) = off[k + 1]
                      /\ Lies(h[k], f, a) <=> \A i \in 1..k : Lies(fs[i], f, a + off[i])
           T == {k \in Nat : k \in 1..n => UpTo(k)}
<1>5. 0 \in T
  OBVIOUS
<1>6. ASSUME NEW k \in Nat, k \in T PROVE k + 1 \in T
  <2> SUFFICES ASSUME k + 1 \in 1..n PROVE UpTo(k + 1)
    OBVIOUS
  <2>1. PICK j \in 1..n : j = k + 1
    OBVIOUS
  <2>2. h[j] = IF j = 1 THEN fs[j] ELSE h[j - 1] \o fs[j]
    BY <1>3
  <2>3. IsSeq(fs[j]) /\ off[j + 1] = off[j] + Len(fs[j]) /\ off[j] \in Nat /\ Len(fs[j]) \in Nat
    BY <1>4 DEF IsSeq
  <2>4. CASE j = 1
    <3>1. h[j] = fs[j] /\ off[j] = 0 /\ off[j + 1] = Len(fs[j]) /\ a + off[j] = a
      BY <1>4, <2>2, <2>3, <2>4
    <3>2. \A i \in 1..j : i = j
      BY <2>4
    <3>3. UpTo(j)
      BY <2>3, <3>1, <3>2
    <3> QED
      BY <2>1, <3>3
  <2>5. CASE j # 1
    <3>0. j - 1 = k /\ k \in 1..n
      BY <2>1, <2>5
    <3>1. h[j] = h[k] \o fs[j] /\ k \in 1..n
      BY <2>2, <2>5, <3>0
    <3>2. UpTo(k)
      BY <1>6, <3>1
    <3>3. IsSeq(h[k]) /\ Len(h[k]) = off[j]
      BY <2>1, <3>2
    <3>4. IsSeq(h[j]) /\ Len(h[j]) = off[j + 1]
      <4>1. IsSeq(h[k] \o fs[j]) /\ Len(h[k] \o fs[j]) = Len(h[k]) + Len(fs[j])
        BY <2>3, <3>3, Joined
      <4> QED
        BY <2>3, <3>1, <3>3, <4>1
    <3>5. Lies(h[j], f, a) <=> Lies(h[k], f, a) /\ Lies(fs[j], f, a + off[j])
      BY <2>3, <3>1, <3>3, LiesJoined
    <3>6. \A i : i \in 1..j <=> i \in 1..k \/ i = j
      BY <2>1
    <3>7. Lies(h[j], f, a) <=> \A i \in 1..j : Lies(fs[i], f, a + off[i])
      BY <3>2, <3>5, <3>6
    <3>8. UpTo(j)
      BY <3>4, <3>7
    <3> QED
      BY <2>1, <3>8
  <2> QED
    BY <2>4, <2>5
<1>7. UpTo(n)
  <2> HIDE DEF T
  <2>1. Nat \subseteq T
    BY <1>5, <1>6, SetInduction
  <2> QED
    BY <1>1, <2>1 DEF T
<1> QED
  BY <1>1, <1>2, <1>7

-----------------------------------------------------------------------------
\* Padding

LEMMA ConstantsAre ==
  /\ Align \in {1, 2} /\ UsizeMax \in Nat /\ U32Max \in Nat /\ U32Max + Align <= UsizeMax
  /\ HeaderLen = 2 /\ EntryLen = 2 /\ FooterLen = 2
<1>1. Align \in Nat \ {0} /\ 2 % Align = 0
  BY AlignAssumption DEF HeaderLen
<1>2. Align <= 2
  <2> SUFFICES ASSUME Align > 2 PROVE FALSE
    BY <1>1
  <2>1. 2 % Align = 2
    BY <1>1
  <2> QED
    BY <1>1, <2>1
<1> QED
  BY <1>1, <1>2, AlignAssumption DEF HeaderLen, EntryLen, FooterLen

\* A length that pad8 does not overflow on.
Paddable(n) == n \in Nat /\ n + Align - 1 <= UsizeMax

LEMMA PadIs ==
  ASSUME NEW n, Paddable(n)
  PROVE  Pad(n) \in Nat /\ n <= Pad(n) /\ Pad(n) < n + Align /\ Pad(n) % Align = 0
<1>1. n \in Nat /\ n + Align - 1 \in 0..UsizeMax /\ UsizeMax \in Nat
  BY ConstantsAre DEF Paddable
<1>2. (n + Align - 1) % (UsizeMax + 1) = n + Align - 1
  BY <1>1
<1>3. CASE Align = 1
  BY <1>1, <1>2, <1>3 DEF Pad
<1>4. CASE Align = 2
  BY <1>1, <1>2, <1>4 DEF Pad
<1> QED
  BY <1>3, <1>4, ConstantsAre

\* What is padded from an aligned place on ends where its length, padded, says.
LEMMA PadAfter ==
  ASSUME NEW a \in Nat, a % Align = 0, NEW n \in Nat, Paddable(a + n)
  PROVE  Pad(a + n) = a + Pad(n) /\ Paddable(n) /\ (a + Pad(n)) % Align = 0
<1>1. Paddable(n)
  BY ConstantsAre DEF Paddable
<1>2. /\ Pad(n) \in Nat /\ n <= Pad(n) /\ Pad(n) < n + Align /\ Pad(n) % Align = 0
      /\ Pad(a + n) \in Nat /\ a + n <= Pad(a + n) /\ Pad(a + n) < a + n + Align
      /\ Pad(a + n) % Align = 0
  BY <1>1, PadIs
<1>3. PICK p, q \in Nat : p = Pad(n) /\ q = Pad(a + n)
  BY <1>2
<1>4. CASE Align = 1
  <2>1. p = n /\ q = a + n
    BY <1>2, <1>3, <1>4
  <2> QED
    BY <1>1, <1>3, <1>4, <2>1
<1>5. CASE Align = 2
  <2>1. /\ a % 2 = 0 /\ p % 2 = 0 /\ q % 2 = 0
        /\ n <= p /\ p < n + 2 /\ a + n <= q /\ q < a + n + 2
    BY <1>2, <1>3, <1>5
  <2>2. q = a + p /\ (a + p) % 2 = 0
    BY <2>1
  <2> QED
    BY <1>1, <1>3, <1>5, <2>2
<1> QED
  BY <1>4, <1>5, ConstantsAre

LEMMA LiesPadded ==
  ASSUME NEW s, IsSeq(s), Paddable(Len(s))
  PROVE  /\ IsSeq(Padded(s)) /\ Len(Padded(s)) = Pad(Len(s))
         /\ \A f, a : IsSeq(f) /\ a \in Nat =>
              (Lies(Padded(s), f, a) <=>
                 /\ a + Pad(Len(s)) <= Len(f) /\ Lies(s, f, a)
                 /\ \A p \in (a + Len(s) + 1)..(a + Pad(Len(s))) : f[p] = Zero)
<1>1. PICK n, m \in Nat : n = Len(s) /\ m = Pad(Len(s)) - Len(s) /\ n + m = Pad(Len(s))
  <2>1. Len(s) \in Nat /\ Pad(Len(s)) - Len(s) \in Nat
           /\ Len(s) + (Pad(Len(s)) - Len(s)) = Pad(Len(s))
    BY PadIs DEF Paddable
  <2> QED
    BY <2>1
<1>2. PICK z : z = [k \in 1..m |-> Zero]
  OBVIOUS
<1>3. IsSeq(z) /\ Len(z) = m /\ \A k \in 1..m : z[k] = Zero
  BY <1>2 DEF IsSeq
<1>4. Padded(s) = s \o z
  BY <1>1, <1>2 DEF Padded
<1>5. IsSeq(s \o z) /\ Len(s \o z) = n + m
  BY <1>1, <1>3, Joined
<1>6. ASSUME NEW f, NEW a, IsSeq(f), a \in Nat
      PROVE  Lies(s \o z, f, a) <=>
                 /\ a + (n + m) <= Len(f) /\ Lies(s, f, a)
                 /\ \A p \in (a + n + 1)..(a + (n + m)) : f[p] = Zero
  <2>1. Lies(s \o z, f, a) <=> Lies(s, f, a) /\ Lies(z, f, a + n)
    BY <1>1, <1>3, <1>6, LiesJoined
  <2>2. Lies(z, f, a + n) <=> a + n + m <= Len(f) /\ \A k \in 1..m : f[a + n + k] = Zero
    BY <1>3 DEF Lies
  <2>3. (\A k \in 1..m : f[a + n + k] = Zero)
          <=> \A p \in (a + n + 1)..(a + (n + m)) : f[p] = Zero
    <3>1. ASSUME \A k \in 1..m : f[a + n + k] = Zero, NEW p \in (a + n + 1)..(a + (n + m))
          PROVE  f[p] = Zero
      <4>1. PICK k \in 1..m : k = p - (a + n)
        BY <1>6
      <4>2. a + n + k = p
        BY <1>6, <4>1
      <4> QED
        BY <3>1, <4>2
    <3>2. ASSUME \A p \in (a + n + 1)..(a + (n + m)) : f[p] = Zero, NEW k \in 1..m
          PROVE  f[a + n + k] = Zero
      <4>1. a + n + k \in (a + n + 1)..(a + (n + m))
        BY <1>6
      <4> QED
        BY <3>2, <4>1
    <3> QED
      BY <3>1, <3>2
  <2>4. a + n + m = a + (n + m)
    BY <1>6
  <2> QED
    BY <2>1, <2>2, <2>3, <2>4
<1> QED
  BY <1>1, <1>4, <1>5, <1>6

-----------------------------------------------------------------------------
\* Where the blobs begin

Sums(g, segs, n) ==
  g = [j \in 0..n |-> IF j = 0 THEN 0 ELSE g[j - 1] + Pad(Len(segs[j].blob))]

LEMMA SumsExists ==
  ASSUME NEW segs, NEW n \in Nat
  PROVE  \E g : Sums(g, segs, n)
<1> DEFINE T == {k \in Nat : \E g : Sums(g, segs, k)}
<1>1. 0 \in T
  <2>1. PICK g : g = [j \in 0..0 |-> 0]
    OBVIOUS
  <2>2. Sums(g, segs, 0)
    BY <2>1 DEF Sums
  <2> QED
    BY <2>2
<1>2. ASSUME NEW k \in Nat, k \in T PROVE k + 1 \in T
  <2>1. PICK g : Sums(g, segs, k)
    BY <1>2
  <2>2. PICK z : z = g[k] + Pad(Len(segs[k + 1].blob))
    OBVIOUS
  <2>3. PICK h : h = [j \in 0..(k + 1) |-> IF j = k + 1 THEN z ELSE g[j]]
    OBVIOUS
  <2>4. h[k + 1] = z /\ \A j \in 0..k : h[j] = g[j]
    BY <2>3
  <2>5. ASSUME NEW j \in 0..(k + 1)
        PROVE  h[j] = IF j = 0 THEN 0 ELSE h[j - 1] + Pad(Len(segs[j].blob))
    <3>1. CASE j = k + 1
      <4>1. h[j - 1] = g[k] /\ h[j] = z /\ segs[j] = segs[k + 1] /\ j # 0
        BY <2>4, <3>1
      <4> QED
        BY <2>2, <4>1
    <3>2. CASE j \in 1..k
      <4>1. h[j] = g[j] /\ h[j - 1] = g[j - 1] /\ j \in 0..k /\ j # 0
        BY <2>4, <3>2
      <4>2. g[j] = IF j = 0 THEN 0 ELSE g[j - 1] + Pad(Len(segs[j].blob))
        BY <2>1, <4>1 DEF Sums
      <4> QED
        BY <4>1, <4>2
    <3>3. CASE j = 0
      <4>1. g[0] = 0 /\ h[0] = g[0]
        BY <2>1, <2>4 DEF Sums
      <4> QED
        BY <3>3, <4>1
    <3> QED
      BY <3>1, <3>2, <3>3
  <2>6. h = [j \in 0..(k + 1) |-> h[j]]
    BY <2>3
  <2>7. Sums(h, segs, k + 1)
    BY <2>5, <2>6 DEF Sums
  <2> QED
    BY <2>7
<1> QED
  <2> HIDE DEF T
  <2>1. Nat \subseteq T
    BY <1>1, <1>2, SetInduction
  <2> QED
    BY <2>1 DEF T

LEMMA BlobsBeforeIs ==
  ASSUME NEW segs, Len(segs) \in Nat
  PROVE  /\ BlobsBefore(segs, 1) = 0
         /\ \A i \in 1..Len(segs) :
              BlobsBefore(segs, i + 1) = BlobsBefore(segs, i) + Pad(Len(segs[i].blob))
<1>1. PICK g : g = CHOOSE h : Sums(h, segs, Len(segs))
  OBVIOUS
<1>2. Sums(g, segs, Len(segs))
  BY <1>1, SumsExists
<1>3. \A j \in 0..Len(segs) :
        g[j] = IF j = 0 THEN 0 ELSE g[j - 1] + Pad(Len(segs[j].blob))
  BY <1>2 DEF Sums
<1>4. \A i : BlobsBefore(segs, i) = g[i - 1]
  BY <1>1 DEF BlobsBefore, Sums
<1>5. BlobsBefore(segs, 1) = 0
  <2>1. 1 - 1 = 0 /\ 0 \in 0..Len(segs)
    OBVIOUS
  <2>2. g[0] = 0
    BY <1>3, <2>1
  <2>3. BlobsBefore(segs, 1) = g[0]
    BY <1>4, <2>1
  <2> QED
    BY <2>2, <2>3
<1>6. ASSUME NEW i \in 1..Len(segs)
      PROVE  BlobsBefore(segs, i + 1) = BlobsBefore(segs, i) + Pad(Len(segs[i].blob))
  <2>1. i + 1 - 1 = i /\ i \in 0..Len(segs) /\ i # 0
    OBVIOUS
  <2>2. g[i] = g[i - 1] + Pad(Len(segs[i].blob))
    BY <1>3, <2>1
  <2>3. BlobsBefore(segs, i + 1) = g[i] /\ BlobsBefore(segs, i) = g[i - 1]
    BY <1>4, <2>1
  <2> QED
    BY <2>2, <2>3
<1> QED
  BY <1>5, <1>6

\* The blobs that fit begin at aligned places.
LEMMA BlobsBeforeNat ==
  ASSUME NEW segs, Len(segs) \in Nat, \A i \in 1..Len(segs) : Paddable(Len(segs[i].blob))
  PROVE  \A i \in 1..(Len(segs) + 1) :
           BlobsBefore(segs, i) \in Nat /\ BlobsBefore(segs, i) % Align = 0
<1>1. PICK n \in Nat : n = Len(segs)
  OBVIOUS
<1> DEFINE Good(i) == BlobsBefore(segs, i) \in Nat /\ BlobsBefore(segs, i) % Align = 0
           T == {k \in Nat : k <= n => Good(k + 1)}
<1>2. 0 \in T
  <2>1. BlobsBefore(segs, 1) = 0 /\ 0 % Align = 0
    BY <1>1, BlobsBeforeIs, ConstantsAre
  <2> QED
    BY <2>1
<1>3. ASSUME NEW k \in Nat, k \in T PROVE k + 1 \in T
  <2> SUFFICES ASSUME k + 1 <= n PROVE Good(k + 1 + 1)
    OBVIOUS
  <2>1. PICK j \in 1..n : j = k + 1
    OBVIOUS
  <2>2. Good(j)
    BY <1>3, <2>1
  <2>3. BlobsBefore(segs, j + 1) = BlobsBefore(segs, j) + Pad(Len(segs[j].blob))
    BY <1>1, BlobsBeforeIs
  <2>4. Pad(Len(segs[j].blob)) \in Nat /\ Pad(Len(segs[j].blob)) % Align = 0
    BY <1>1, PadIs
  <2>5. PICK p, q \in Nat : p = BlobsBefore(segs, j) /\ q = Pad(Len(segs[j].blob))
    BY <2>2, <2>4
  <2>6. (p + q) % Align = 0
    <3>1. CASE Align = 1
      BY <3>1
    <3>2. CASE Align = 2
      <4>1. p % 2 = 0 /\ q % 2 = 0
        BY <2>2, <2>4, <2>5, <3>2
      <4>2. (p + q) % 2 = 0
        BY <4>1
      <4> QED
        BY <3>2, <4>2
    <3> QED
      BY <3>1, <3>2, ConstantsAre
  <2>7. Good(j + 1)
    BY <2>3, <2>5, <2>6
  <2> QED
    BY <2>1, <2>7
<1>4. Nat \subseteq T
  <2> HIDE DEF T
  <2> QED
    BY <1>2, <1>3, SetInduction
<1>5. ASSUME NEW i \in 1..(n + 1) PROVE Good(i)
  <2>1. i - 1 \in Nat /\ i - 1 <= n /\ i - 1 + 1 = i
    BY <1>1
  <2>2. i - 1 \in T
    BY <1>4, <2>1
  <2> QED
    BY <2>1, <2>2
<1> QED
  BY <1>1, <1>5

\* Only the blobs before it say where a blob begins.
LEMMA BlobsBeforeAgree ==
  ASSUME NEW s, NEW t, Len(s) \in Nat, Len(t) \in Nat, NEW n \in Nat, n <= Len(s), n <= Len(t),
         \A i \in 1..n : s[i].blob = t[i].blob
  PROVE  \A i \in 1..(n + 1) : BlobsBefore(s, i) = BlobsBefore(t, i)
<1> DEFINE T == {k \in Nat : k <= n => BlobsBefore(s, k + 1) = BlobsBefore(t, k + 1)}
<1>1. 0 \in T
  <2>1. BlobsBefore(s, 1) = 0 /\ BlobsBefore(t, 1) = 0
    BY BlobsBeforeIs
  <2> QED
    BY <2>1
<1>2. ASSUME NEW k \in Nat, k \in T PROVE k + 1 \in T
  <2> SUFFICES ASSUME k + 1 <= n PROVE BlobsBefore(s, k + 1 + 1) = BlobsBefore(t, k + 1 + 1)
    OBVIOUS
  <2>1. PICK j \in 1..n : j = k + 1
    OBVIOUS
  <2>2. BlobsBefore(s, j) = BlobsBefore(t, j)
    BY <1>2, <2>1
  <2>3. j \in 1..Len(s) /\ j \in 1..Len(t)
    OBVIOUS
  <2>4. /\ BlobsBefore(s, j + 1) = BlobsBefore(s, j) + Pad(Len(s[j].blob))
        /\ BlobsBefore(t, j + 1) = BlobsBefore(t, j) + Pad(Len(t[j].blob))
    BY <2>3, BlobsBeforeIs
  <2>5. BlobsBefore(s, j + 1) = BlobsBefore(t, j + 1)
    BY <2>2, <2>4
  <2> QED
    BY <2>1, <2>5
<1>3. Nat \subseteq T
  <2> HIDE DEF T
  <2> QED
    BY <1>1, <1>2, SetInduction
<1>4. ASSUME NEW i \in 1..(n + 1) PROVE BlobsBefore(s, i) = BlobsBefore(t, i)
  <2>1. i - 1 \in Nat /\ i - 1 <= n /\ i - 1 + 1 = i
    OBVIOUS
  <2>2. i - 1 \in T
    BY <1>3, <2>1
  <2> QED
    BY <2>1, <2>2
<1> QED
  BY <1>4

-----------------------------------------------------------------------------
\* The layout of a file

LEMMA LiesPair ==
  ASSUME NEW x, NEW y, NEW f, NEW a \in Nat, IsSeq(f)
  PROVE  /\ IsSeq(<<x, y>>) /\ Len(<<x, y>>) = 2
         /\ Lies(<<x, y>>, f, a) <=> a + 2 <= Len(f) /\ f[a + 1] = x /\ f[a + 2] = y
<1>1. PICK s : s = <<x, y>>
  OBVIOUS
<1>2. Len(s) = 2 /\ s[1] = x /\ s[2] = y /\ s \in Seq({x, y})
  BY <1>1
<1>3. IsSeq(s)
  BY <1>2, SeqIs
<1>4. Lies(s, f, a) <=> a + 2 <= Len(f) /\ f[a + 1] = x /\ f[a + 2] = y
  <2>1. \A k : k \in 1..2 <=> k = 1 \/ k = 2
    OBVIOUS
  <2> QED
    BY <1>2, <2>1 DEF Lies
<1> QED
  BY <1>1, <1>2, <1>3, <1>4

LEMMA SealedIs ==
  ASSUME NEW b, IsSeq(b), NEW f, IsSeq(f)
  PROVE  /\ IsSeq(Sealed(b)) /\ Len(Sealed(b)) = Len(b) + 2
         /\ f = Sealed(b) <=> /\ Len(f) = Len(b) + 2 /\ Lies(b, f, 0)
                              /\ f[Len(b) + 1] = [t |-> "hash", of |-> SubSeq(f, 1, Len(b))]
                              /\ f[Len(b) + 2] = [t |-> "end"]
<1>1. PICK n \in Nat : n = Len(b)
  BY DEF IsSeq
<1>2. PICK e : e = << [t |-> "hash", of |-> b], [t |-> "end"] >>
  OBVIOUS
<1>3. Sealed(b) = b \o e
  BY <1>2 DEF Sealed
<1>4. IsSeq(e) /\ Len(e) = 2
  BY <1>2, LiesPair
<1>5. IsSeq(b \o e) /\ Len(b \o e) = n + 2
  BY <1>1, <1>4, Joined
<1>6. Lies(e, f, n) <=> /\ n + 2 <= Len(f) /\ f[n + 1] = [t |-> "hash", of |-> b]
                        /\ f[n + 2] = [t |-> "end"]
  BY <1>2, LiesPair
<1>7. ASSUME Len(f) = n + 2
      PROVE  f = b \o e <=> Lies(b, f, 0) /\ Lies(e, f, n)
  <2>1. f = b \o e <=> Lies(b \o e, f, 0)
    BY <1>5, <1>7, LiesWhole
  <2>2. 0 \in Nat /\ 0 + n = n
    OBVIOUS
  <2>3. Lies(b \o e, f, 0) <=> Lies(b, f, 0) /\ Lies(e, f, 0 + Len(b))
    BY <1>4, <2>2, LiesJoined
  <2> QED
    BY <1>1, <2>1, <2>2, <2>3
<1>8. ASSUME Len(f) = n + 2, Lies(b, f, 0) PROVE SubSeq(f, 1, n) = b
  <2>1. 0 \in Nat /\ 0 <= n /\ n <= Len(f) /\ 0 + 1 = 1 /\ n - 0 = n
    BY <1>8
  <2>2. /\ IsSeq(SubSeq(f, 0 + 1, n)) /\ Len(SubSeq(f, 0 + 1, n)) = n - 0
        /\ \A k \in 1..(n - 0) : SubSeq(f, 0 + 1, n)[k] = f[0 + k]
    BY <2>1, CutIs
  <2>3. PICK u : u = SubSeq(f, 1, n)
    OBVIOUS
  <2>4. IsSeq(u) /\ Len(u) = n /\ \A k \in 1..n : u[k] = f[0 + k]
    BY <2>1, <2>2, <2>3
  <2>5. \A k \in 1..n : f[0 + k] = b[k]
    BY <1>1, <1>8 DEF Lies
  <2>6. u = b
    BY <1>1, <2>4, <2>5, SameSeq
  <2> QED
    BY <2>3, <2>6
<1>9. ASSUME f = b \o e PROVE Len(f) = n + 2
  BY <1>5, <1>9
<1>10. ASSUME f = b \o e
       PROVE  /\ Len(f) = n + 2 /\ Lies(b, f, 0)
              /\ f[n + 1] = [t |-> "hash", of |-> SubSeq(f, 1, n)] /\ f[n + 2] = [t |-> "end"]
  <2>1. Len(f) = n + 2 /\ Lies(b, f, 0) /\ Lies(e, f, n)
    BY <1>7, <1>9, <1>10
  <2> QED
    BY <1>6, <1>8, <2>1
<1>11. ASSUME /\ Len(f) = n + 2 /\ Lies(b, f, 0)
              /\ f[n + 1] = [t |-> "hash", of |-> SubSeq(f, 1, n)] /\ f[n + 2] = [t |-> "end"]
       PROVE  f = b \o e
  <2>1. SubSeq(f, 1, n) = b
    BY <1>8, <1>11
  <2>2. f[n + 1] = [t |-> "hash", of |-> b]
    BY <1>11, <2>1
  <2>3. n + 2 <= Len(f)
    BY <1>11
  <2>4. Lies(e, f, n)
    BY <1>6, <1>11, <2>2, <2>3
  <2> QED
    BY <1>7, <1>11, <2>4
<1>12. f = b \o e <=> /\ Len(f) = n + 2 /\ Lies(b, f, 0)
                      /\ f[n + 1] = [t |-> "hash", of |-> SubSeq(f, 1, n)]
                      /\ f[n + 2] = [t |-> "end"]
  BY <1>10, <1>11
<1> QED
  BY <1>1, <1>3, <1>5, <1>12

IsContainer(c) ==
  /\ IsSeq(c.meta) /\ Paddable(Len(c.meta))
  /\ IsSeq(c.segments) /\ Len(c.segments) # 0
  /\ \A i \in 1..Len(c.segments) :
       IsSeq(c.segments[i].blob) /\ Paddable(Len(c.segments[i].blob))

\* The first i - 1 entries of the table end here.
TableAt(c, i) == HeaderLen + Pad(Len(c.meta)) + 2 * (i - 1)

EntryCell(s) == [t |-> "entry", node |-> s.node, base |-> s.base, child |-> s.child, hash |-> s.hash]
ExtentCell(c, i) == [t |-> "extent", offset |-> BlobOffset(c, i), len |-> Len(c.segments[i].blob)]

\* Every part of the container c is in its place in f.
BodyLies(f, c) ==
  /\ f[1] = HeaderCell(c) /\ f[2] = Zero
  /\ Lies(Padded(c.meta), f, 2)
  /\ \A i \in 1..Len(c.segments) :
       /\ f[TableAt(c, i) + 1] = EntryCell(c.segments[i])
       /\ f[TableAt(c, i) + 2] = ExtentCell(c, i)
       /\ Lies(Padded(c.segments[i].blob), f, BlobOffset(c, i))

BodyLen(c) == BlobOffset(c, Len(c.segments) + 1)

BodyOf(c) ==
  <<HeaderCell(c), Zero>> \o Padded(c.meta)
    \o FlattenSeq([i \in DOMAIN c.segments |-> TableEntry(c, i)])
    \o FlattenSeq([i \in DOMAIN c.segments |-> Padded(c.segments[i].blob)])

LEMMA OffsetsAre ==
  ASSUME NEW c, IsContainer(c)
  PROVE  /\ \A i \in 1..(Len(c.segments) + 1) :
              /\ TableAt(c, i) \in Nat /\ BlobOffset(c, i) \in Nat
              /\ BlobsBefore(c.segments, i) \in Nat
              /\ BlobOffset(c, i) = TableAt(c, Len(c.segments) + 1) + BlobsBefore(c.segments, i)
              /\ BlobOffset(c, i) % Align = 0
              /\ TableAt(c, Len(c.segments) + 1) <= BlobOffset(c, i)
         /\ BlobOffset(c, 1) = TableAt(c, Len(c.segments) + 1)
         /\ \A i \in 1..Len(c.segments) :
              /\ BlobOffset(c, i + 1) = BlobOffset(c, i) + Pad(Len(c.segments[i].blob))
              /\ TableAt(c, i + 1) = TableAt(c, i) + 2
              /\ TableAt(c, i) + 2 <= TableAt(c, Len(c.segments) + 1)
<1>1. PICK n \in Nat : n = Len(c.segments)
  BY DEF IsContainer, IsSeq
<1>2. PICK m \in Nat : m = Pad(Len(c.meta))
  BY PadIs DEF IsContainer
<1>3. m % Align = 0
  BY <1>2, PadIs DEF IsContainer
<1>4. \A i \in 1..(n + 1) : BlobsBefore(c.segments, i) \in Nat /\ BlobsBefore(c.segments, i) % Align = 0
  BY <1>1, BlobsBeforeNat DEF IsContainer
<1>5. /\ BlobsBefore(c.segments, 1) = 0
      /\ \A i \in 1..n : /\ BlobsBefore(c.segments, i + 1)
                              = BlobsBefore(c.segments, i) + Pad(Len(c.segments[i].blob))
                         /\ Pad(Len(c.segments[i].blob)) \in Nat
  BY <1>1, BlobsBeforeIs, PadIs DEF IsContainer
<1>6. \A i : TableAt(c, i) = 2 + m + 2 * (i - 1)
  BY <1>2, ConstantsAre DEF TableAt
<1>7. \A i : BlobOffset(c, i) = 2 + m + n * 2 + BlobsBefore(c.segments, i)
  BY <1>1, <1>2, ConstantsAre DEF BlobOffset
<1>8. TableAt(c, n + 1) = 2 + m + n * 2
  BY <1>6
<1>9. ASSUME NEW i \in 1..(n + 1)
      PROVE  /\ TableAt(c, i) \in Nat /\ BlobOffset(c, i) \in Nat
             /\ BlobOffset(c, i) = TableAt(c, n + 1) + BlobsBefore(c.segments, i)
             /\ BlobOffset(c, i) % Align = 0
             /\ TableAt(c, n + 1) <= BlobOffset(c, i)
  <2>1. PICK b \in Nat : b = BlobsBefore(c.segments, i) /\ b % Align = 0
    BY <1>4
  <2>2. BlobOffset(c, i) = 2 + m + n * 2 + b /\ TableAt(c, i) = 2 + m + 2 * (i - 1)
    BY <1>6, <1>7, <2>1
  <2>3. (2 + m + n * 2 + b) % Align = 0
    <3>1. CASE Align = 1
      BY <3>1
    <3>2. CASE Align = 2
      <4>1. m % 2 = 0 /\ b % 2 = 0
        BY <1>3, <2>1, <3>2
      <4>2. (2 + m + n * 2 + b) % 2 = 0
        BY <4>1
      <4> QED
        BY <3>2, <4>2
    <3> QED
      BY <3>1, <3>2, ConstantsAre
  <2> QED
    BY <1>8, <2>1, <2>2, <2>3
<1>10. BlobOffset(c, 1) = TableAt(c, n + 1)
  BY <1>5, <1>7, <1>8
<1>11. ASSUME NEW i \in 1..n
       PROVE  /\ BlobOffset(c, i + 1) = BlobOffset(c, i) + Pad(Len(c.segments[i].blob))
              /\ TableAt(c, i + 1) = TableAt(c, i) + 2
              /\ TableAt(c, i) + 2 <= TableAt(c, n + 1)
  <2>1. PICK b, q \in Nat : b = BlobsBefore(c.segments, i) /\ q = Pad(Len(c.segments[i].blob))
    BY <1>4, <1>5
  <2>2. BlobsBefore(c.segments, i + 1) = b + q
    BY <1>5, <2>1
  <2>3. BlobOffset(c, i + 1) = 2 + m + n * 2 + (b + q) /\ BlobOffset(c, i) = 2 + m + n * 2 + b
    BY <1>7, <2>1, <2>2
  <2>4. TableAt(c, i) = 2 + m + 2 * (i - 1) /\ TableAt(c, i + 1) = 2 + m + 2 * (i + 1 - 1)
    BY <1>6
  <2> QED
    BY <1>8, <2>1, <2>3, <2>4
<1> QED
  BY <1>1, <1>4, <1>9, <1>10, <1>11

\* The table and the blobs, as sequences of their parts.
LEMMA TableParts ==
  ASSUME NEW c, IsContainer(c), NEW ts, ts = [i \in DOMAIN c.segments |-> TableEntry(c, i)],
         NEW to, to = [i \in 1..(Len(c.segments) + 1) |-> 2 * (i - 1)]
  PROVE  /\ Parts(ts, to) /\ Len(ts) = Len(c.segments)
         /\ \A i \in 1..Len(c.segments) : ts[i] = <<EntryCell(c.segments[i]), ExtentCell(c, i)>>
<1>1. PICK n \in Nat : n = Len(c.segments) /\ n # 0 /\ DOMAIN c.segments = 1..n
  BY DEF IsContainer, IsSeq
<1>2. \A i \in 1..n : ts[i] = <<EntryCell(c.segments[i]), ExtentCell(c, i)>>
  BY <1>1 DEF TableEntry, EntryCell, ExtentCell
<1>3. IsSeq(ts) /\ Len(ts) = n
  BY <1>1 DEF IsSeq
<1>4. \A i \in 1..n : IsSeq(ts[i]) /\ Len(ts[i]) = 2
  <2> SUFFICES ASSUME NEW i \in 1..n PROVE IsSeq(ts[i]) /\ Len(ts[i]) = 2
    OBVIOUS
  <2>1. PICK x, y : ts[i] = <<x, y>>
    BY <1>2
  <2>2. <<x, y>> \in Seq({x, y}) /\ Len(<<x, y>>) = 2
    OBVIOUS
  <2>3. IsSeq(<<x, y>>)
    BY <2>2, SeqIs
  <2> QED
    BY <2>1, <2>2, <2>3
<1>5. to \in [1..(n + 1) -> Nat] /\ to[1] = 0
  BY <1>1
<1>6. \A i \in 1..n : to[i + 1] = to[i] + 2
  <2> SUFFICES ASSUME NEW i \in 1..n PROVE to[i + 1] = to[i] + 2
    OBVIOUS
  <2>1. to[i + 1] = 2 * (i + 1 - 1) /\ to[i] = 2 * (i - 1)
    BY <1>1
  <2> QED
    BY <2>1
<1>7. Parts(ts, to)
  BY <1>1, <1>3, <1>4, <1>5, <1>6 DEF Parts
<1> QED
  BY <1>1, <1>2, <1>3, <1>7

LEMMA BlobParts ==
  ASSUME NEW c, IsContainer(c),
         NEW bs, bs = [i \in DOMAIN c.segments |-> Padded(c.segments[i].blob)],
         NEW bo, bo = [i \in 1..(Len(c.segments) + 1) |-> BlobsBefore(c.segments, i)]
  PROVE  Parts(bs, bo) /\ Len(bs) = Len(c.segments)
<1>1. PICK n \in Nat : n = Len(c.segments) /\ n # 0 /\ DOMAIN c.segments = 1..n
  BY DEF IsContainer, IsSeq
<1>2. IsSeq(bs) /\ Len(bs) = n
  BY <1>1 DEF IsSeq
<1>3. \A i \in 1..n : IsSeq(bs[i]) /\ Len(bs[i]) = Pad(Len(c.segments[i].blob))
  BY <1>1, LiesPadded DEF IsContainer
<1>4. /\ BlobsBefore(c.segments, 1) = 0
      /\ \A i \in 1..(n + 1) : BlobsBefore(c.segments, i) \in Nat
      /\ \A i \in 1..n : BlobsBefore(c.segments, i + 1)
                              = BlobsBefore(c.segments, i) + Pad(Len(c.segments[i].blob))
  BY <1>1, BlobsBeforeIs, BlobsBeforeNat DEF IsContainer
<1>5. bo \in [1..(n + 1) -> Nat] /\ bo[1] = 0
  BY <1>1, <1>4
<1>6. \A i \in 1..n : bo[i + 1] = bo[i] + Pad(Len(c.segments[i].blob))
  <2> SUFFICES ASSUME NEW i \in 1..n
               PROVE  bo[i + 1] = bo[i] + Pad(Len(c.segments[i].blob))
    OBVIOUS
  <2>1. bo[i + 1] = BlobsBefore(c.segments, i + 1) /\ bo[i] = BlobsBefore(c.segments, i)
    BY <1>1
  <2> QED
    BY <1>4, <2>1
<1>7. Parts(bs, bo)
  BY <1>1, <1>2, <1>3, <1>5, <1>6 DEF Parts
<1> QED
  BY <1>1, <1>2, <1>7

LEMMA LiesFour ==
  ASSUME NEW s, NEW t, NEW u, NEW v, IsSeq(s), IsSeq(t), IsSeq(u), IsSeq(v), NEW f, IsSeq(f)
  PROVE  /\ IsSeq(s \o t \o u \o v)
         /\ Len(s \o t \o u \o v) = Len(s) + Len(t) + Len(u) + Len(v)
         /\ Lies(s \o t \o u \o v, f, 0)
              <=> /\ Lies(s, f, 0) /\ Lies(t, f, Len(s)) /\ Lies(u, f, Len(s) + Len(t))
                  /\ Lies(v, f, Len(s) + Len(t) + Len(u))
<1>1. PICK a, b, d \in Nat : a = Len(s) /\ b = Len(t) /\ d = Len(u)
  BY DEF IsSeq
<1>2. 0 \in Nat /\ 0 + a = a /\ 0 + (a + b) = a + b /\ 0 + (a + b + d) = a + b + d
  OBVIOUS
<1>3. PICK x : x = s \o t
  OBVIOUS
<1>4. IsSeq(x) /\ Len(x) = a + b
  BY <1>1, <1>3, Joined
<1>5. Lies(x, f, 0) <=> Lies(s, f, 0) /\ Lies(t, f, a)
  BY <1>1, <1>2, <1>3, LiesJoined
<1>6. PICK y : y = x \o u
  OBVIOUS
<1>7. IsSeq(y) /\ Len(y) = a + b + d
  BY <1>1, <1>4, <1>6, Joined
<1>8. Lies(y, f, 0) <=> Lies(x, f, 0) /\ Lies(u, f, a + b)
  BY <1>2, <1>4, <1>6, LiesJoined
<1>9. IsSeq(y \o v) /\ Len(y \o v) = a + b + d + Len(v)
  BY <1>7, Joined
<1>10. Lies(y \o v, f, 0) <=> Lies(y, f, 0) /\ Lies(v, f, a + b + d)
  BY <1>2, <1>7, LiesJoined
<1> QED
  BY <1>1, <1>3, <1>5, <1>6, <1>8, <1>9, <1>10

LEMMA BodyIs ==
  ASSUME NEW c, IsContainer(c), NEW f, IsSeq(f), BodyLen(c) <= Len(f)
  PROVE  /\ IsSeq(BodyOf(c)) /\ Len(BodyOf(c)) = BodyLen(c)
         /\ Lies(BodyOf(c), f, 0) <=> BodyLies(f, c)
<1>1. PICK n, m \in Nat : n = Len(c.segments) /\ m = Pad(Len(c.meta)) /\ Len(f) \in Nat
  BY PadIs DEF IsContainer, IsSeq
<1>2. PICK h, p : h = <<HeaderCell(c), Zero>> /\ p = Padded(c.meta)
  OBVIOUS
<1>3. PICK ts, to, bs, bo :
        /\ ts = [i \in DOMAIN c.segments |-> TableEntry(c, i)]
        /\ to = [i \in 1..(Len(c.segments) + 1) |-> 2 * (i - 1)]
        /\ bs = [i \in DOMAIN c.segments |-> Padded(c.segments[i].blob)]
        /\ bo = [i \in 1..(Len(c.segments) + 1) |-> BlobsBefore(c.segments, i)]
  OBVIOUS
<1>4. /\ Parts(ts, to) /\ Len(ts) = n
      /\ \A i \in 1..n : ts[i] = <<EntryCell(c.segments[i]), ExtentCell(c, i)>>
  BY <1>1, <1>3, TableParts
<1>5. Parts(bs, bo) /\ Len(bs) = n
  BY <1>1, <1>3, BlobParts
<1>6. IsSeq(h) /\ Len(h) = 2 /\ IsSeq(p) /\ Len(p) = m
  BY <1>1, <1>2, LiesPair, LiesPadded DEF IsContainer
<1>7. PICK u, v : u = FlattenSeq(ts) /\ v = FlattenSeq(bs)
  OBVIOUS
<1>8. to[n + 1] = 2 * n /\ bo[n + 1] = BlobsBefore(c.segments, n + 1)
  BY <1>1, <1>3
<1>9. IsSeq(u) /\ Len(u) = 2 * n
  BY <1>4, <1>7, <1>8, LiesFlattened
<1>10. PICK e \in Nat : e = BlobsBefore(c.segments, n + 1) /\ IsSeq(v) /\ Len(v) = e
  <2>1. BlobsBefore(c.segments, n + 1) \in Nat
    BY <1>1, OffsetsAre
  <2>2. IsSeq(v) /\ Len(v) = bo[n + 1]
    BY <1>5, <1>7, LiesFlattened
  <2> QED
    BY <1>8, <2>1, <2>2
<1>11. BodyOf(c) = h \o p \o u \o v
  BY <1>2, <1>3, <1>7 DEF BodyOf
<1>12. BodyLen(c) = 2 + m + 2 * n + e
  BY <1>1, <1>10, ConstantsAre DEF BodyLen, BlobOffset
<1>13. /\ IsSeq(BodyOf(c)) /\ Len(BodyOf(c)) = BodyLen(c)
       /\ Lies(BodyOf(c), f, 0)
            <=> /\ Lies(h, f, 0) /\ Lies(p, f, 2) /\ Lies(u, f, 2 + m)
                /\ Lies(v, f, 2 + m + 2 * n)
  <2>1. /\ IsSeq(h \o p \o u \o v)
        /\ Len(h \o p \o u \o v) = Len(h) + Len(p) + Len(u) + Len(v)
        /\ Lies(h \o p \o u \o v, f, 0)
             <=> /\ Lies(h, f, 0) /\ Lies(p, f, Len(h)) /\ Lies(u, f, Len(h) + Len(p))
                 /\ Lies(v, f, Len(h) + Len(p) + Len(u))
    BY <1>6, <1>9, <1>10, LiesFour
  <2> QED
    BY <1>6, <1>9, <1>10, <1>11, <1>12, <2>1
<1>14. Lies(h, f, 0) <=> f[1] = HeaderCell(c) /\ f[2] = Zero
  <2>1. 0 \in Nat /\ 0 + 1 = 1 /\ 0 + 2 = 2 /\ 2 <= Len(f)
    BY <1>1, <1>12
  <2> QED
    BY <1>2, <2>1, LiesPair
<1>15. Lies(u, f, 2 + m)
         <=> \A i \in 1..n : /\ f[TableAt(c, i) + 1] = EntryCell(c.segments[i])
                             /\ f[TableAt(c, i) + 2] = ExtentCell(c, i)
  <2>1. 2 + m \in Nat
    OBVIOUS
  <2>2. Lies(u, f, 2 + m) <=> \A i \in 1..n : Lies(ts[i], f, 2 + m + to[i])
    BY <1>4, <1>7, <2>1, LiesFlattened
  <2>3. ASSUME NEW i \in 1..n
        PROVE  Lies(ts[i], f, 2 + m + to[i])
                 <=> /\ f[TableAt(c, i) + 1] = EntryCell(c.segments[i])
                     /\ f[TableAt(c, i) + 2] = ExtentCell(c, i)
    <3>1. PICK a \in Nat : a = TableAt(c, i) /\ a + 2 <= Len(f) /\ a = 2 + m + to[i]
      <4>1. TableAt(c, i) = 2 + m + 2 * (i - 1) /\ to[i] = 2 * (i - 1)
        BY <1>1, <1>3, ConstantsAre DEF TableAt
      <4> QED
        BY <1>1, <1>12, <4>1
    <3>2. PICK x, y : x = EntryCell(c.segments[i]) /\ y = ExtentCell(c, i)
      OBVIOUS
    <3>3. Lies(<<x, y>>, f, a) <=> a + 2 <= Len(f) /\ f[a + 1] = x /\ f[a + 2] = y
      BY LiesPair
    <3>4. ts[i] = <<x, y>>
      BY <1>4, <3>2
    <3> QED
      BY <3>1, <3>2, <3>3, <3>4
  <2> QED
    BY <2>2, <2>3
<1>16. Lies(v, f, 2 + m + 2 * n)
         <=> \A i \in 1..n : Lies(Padded(c.segments[i].blob), f, BlobOffset(c, i))
  <2>1. 2 + m + 2 * n \in Nat
    OBVIOUS
  <2>2. Lies(v, f, 2 + m + 2 * n) <=> \A i \in 1..n : Lies(bs[i], f, 2 + m + 2 * n + bo[i])
    BY <1>5, <1>7, <2>1, LiesFlattened
  <2>3. ASSUME NEW i \in 1..n
        PROVE  bs[i] = Padded(c.segments[i].blob) /\ 2 + m + 2 * n + bo[i] = BlobOffset(c, i)
    <3>1. DOMAIN c.segments = 1..n
      BY <1>1 DEF IsContainer, IsSeq
    <3>2. bs[i] = Padded(c.segments[i].blob) /\ bo[i] = BlobsBefore(c.segments, i)
      BY <1>1, <1>3, <3>1
    <3>3. BlobOffset(c, i) = 2 + m + n * 2 + BlobsBefore(c.segments, i)
      BY <1>1, ConstantsAre DEF BlobOffset
    <3> QED
      BY <3>2, <3>3
  <2> QED
    BY <2>2, <2>3
<1> QED
  BY <1>1, <1>2, <1>13, <1>14, <1>15, <1>16 DEF BodyLies

\* Cell for cell: a file is what write makes of c when every part is in place.
LEMMA StoredIs ==
  ASSUME NEW c, IsContainer(c), NEW f, IsSeq(f)
  PROVE  f = Stored(c)
           <=> /\ Len(f) = BodyLen(c) + 2 /\ BodyLies(f, c)
               /\ f[BodyLen(c) + 1] = [t |-> "hash", of |-> SubSeq(f, 1, BodyLen(c))]
               /\ f[BodyLen(c) + 2] = [t |-> "end"]
<1>1. PICK b : b = BodyOf(c)
  OBVIOUS
<1>2. BodyLen(c) \in Nat
  <2>1. Len(c.segments) + 1 \in 1..(Len(c.segments) + 1)
    BY DEF IsContainer, IsSeq
  <2> QED
    BY <2>1, OffsetsAre DEF BodyLen
<1>3. IsSeq(b) /\ Len(b) = BodyLen(c)
  <2>1. PICK g : g = [k \in 1..BodyLen(c) |-> Zero]
    OBVIOUS
  <2>2. IsSeq(g) /\ Len(g) = BodyLen(c)
    BY <1>2, <2>1 DEF IsSeq
  <2> QED
    BY <1>1, <1>2, <2>2, BodyIs
<1>4. Stored(c) = Sealed(b)
  BY <1>1 DEF Stored, BodyOf
<1>5. f = Sealed(b)
        <=> /\ Len(f) = BodyLen(c) + 2 /\ Lies(b, f, 0)
            /\ f[BodyLen(c) + 1] = [t |-> "hash", of |-> SubSeq(f, 1, BodyLen(c))]
            /\ f[BodyLen(c) + 2] = [t |-> "end"]
  BY <1>3, SealedIs
<1>6. ASSUME Len(f) = BodyLen(c) + 2 PROVE Lies(b, f, 0) <=> BodyLies(f, c)
  <2>1. BodyLen(c) <= Len(f)
    BY <1>2, <1>6
  <2> QED
    BY <1>1, <2>1, BodyIs
<1> QED
  BY <1>4, <1>5, <1>6

-----------------------------------------------------------------------------
\* The checks, one by one

HeaderGood ==
  /\ ~(Len(file) < HeaderLen + FooterLen)
  /\ Header.t = "head"
  /\ Number(Header, "version") = 2
  /\ Number(Header, "flags") \in {0, 1}
  /\ Cell(2) = Zero
  /\ Cell(Len(file)).t = "end"
  /\ Cell(FooterStart + 1) = [t |-> "hash", of |-> Body]
  /\ Count # 0
  /\ ~(MetaLen + Align - 1 > UsizeMax)
  /\ ~(BlobsOff > UsizeMax)
  /\ ~(BlobsOff > FooterStart)
  /\ ~(HeaderLen + MetaLen > TableOff)
  /\ AllZero(HeaderLen + MetaLen + 1, TableOff)
  /\ Parses(MetaCells)
  /\ CanonicalJson(MetaCells)

LEMMA HeaderChecksAre ==
  /\ DOMAIN HeaderChecks = 1..15
  /\ HeaderChecks[1] = Check("Truncated", Len(file) < HeaderLen + FooterLen)
  /\ HeaderChecks[2] = Check("BadMagic", Header.t # "head")
  /\ HeaderChecks[3] = Check("UnsupportedVersion", Number(Header, "version") # 2)
  /\ HeaderChecks[4] = Check("NonzeroReserved", Number(Header, "flags") \notin {0, 1})
  /\ HeaderChecks[5] = Check("NonzeroReserved", Cell(2) # Zero)
  /\ HeaderChecks[6] = Check("BadEndMagic", Cell(Len(file)).t # "end")
  /\ HeaderChecks[7] = Check("BadFooterHash", Cell(FooterStart + 1) # [t |-> "hash", of |-> Body])
  /\ HeaderChecks[8] = Check("NonCanonical", Count = 0)
  /\ HeaderChecks[9] = Check("Panic", MetaLen + Align - 1 > UsizeMax)
  /\ HeaderChecks[10] = Check("Truncated", BlobsOff > UsizeMax)
  /\ HeaderChecks[11] = Check("Truncated", BlobsOff > FooterStart)
  /\ HeaderChecks[12] = Check("Panic", HeaderLen + MetaLen > TableOff)
  /\ HeaderChecks[13] = Check("NonCanonical", ~AllZero(HeaderLen + MetaLen + 1, TableOff))
  /\ HeaderChecks[14] = Check("Meta", ~Parses(MetaCells))
  /\ HeaderChecks[15] = Check("NonCanonical", ~CanonicalJson(MetaCells))
BY DEF HeaderChecks

LEMMA UpTo15 ==
  \A i : i \in 1..15 <=> \/ i = 1 \/ i = 2 \/ i = 3 \/ i = 4 \/ i = 5 \/ i = 6 \/ i = 7 \/ i = 8
                         \/ i = 9 \/ i = 10 \/ i = 11 \/ i = 12 \/ i = 13 \/ i = 14 \/ i = 15
OBVIOUS

LEMMA HeaderPassed == Passed(HeaderChecks) <=> HeaderGood
<1>1. Passed(HeaderChecks) <=> \A i \in 1..15 : HeaderChecks[i] = "Ok"
  BY HeaderChecksAre DEF Passed
<1> QED
  BY <1>1, HeaderChecksAre, UpTo15 DEF HeaderGood, Check

\* A header that is refused, and the one that makes the reader panic.
LEMMA HeaderRefused ==
  ASSUME RejectBy(HeaderChecks)
  PROVE  /\ outcome' # "Ok" /\ ~Passed(HeaderChecks)
         /\ outcome' = "Panic" =>
              /\ Header.t = "head"
              /\ MetaLen + Align - 1 > UsizeMax \/ HeaderLen + MetaLen > TableOff
<1>1. PICK i \in 1..15 : /\ HeaderChecks[i] # "Ok" /\ outcome' = HeaderChecks[i]
                         /\ \A j \in 1..(i - 1) : HeaderChecks[j] = "Ok"
  BY HeaderChecksAre DEF RejectBy
<1>2. ~Passed(HeaderChecks)
  BY <1>1, HeaderChecksAre DEF Passed
<1>3. ASSUME outcome' = "Panic"
      PROVE  /\ Header.t = "head"
             /\ MetaLen + Align - 1 > UsizeMax \/ HeaderLen + MetaLen > TableOff
  <2>1. HeaderChecks[i] = "Panic"
    BY <1>1, <1>3
  <2>2. i = 9 \/ i = 12
    BY <2>1, HeaderChecksAre, UpTo15 DEF Check
  <2>3. HeaderChecks[2] = "Ok"
    BY <1>1, <2>2
  <2>4. Header.t = "head"
    BY <2>3, HeaderChecksAre DEF Check
  <2>5. CASE i = 9
    BY <2>1, <2>4, <2>5, HeaderChecksAre DEF Check
  <2>6. CASE i = 12
    BY <2>1, <2>4, <2>6, HeaderChecksAre DEF Check
  <2> QED
    BY <2>2, <2>5, <2>6
<1> QED
  BY <1>1, <1>2, <1>3

ExtentGood ==
  /\ ~(EntryAt + EntryLen > Len(file))
  /\ Number(Cell(EntryAt + 2), "offset") = expected
  /\ ~(BlobEnd > UsizeMax)
  /\ ~(BlobEnd > FooterStart)
  /\ ~(BlobEnd + Align - 1 > UsizeMax)
  /\ ~(Pad(BlobEnd) > FooterStart)
  /\ ~(BlobEnd > Len(file))
  /\ AllZero(BlobEnd + 1, Pad(BlobEnd))

LEMMA ExtentChecksAre ==
  /\ DOMAIN ExtentChecks = 1..8
  /\ ExtentChecks[1] = Check("Panic", EntryAt + EntryLen > Len(file))
  /\ ExtentChecks[2] = Check("NonCanonical", Number(Cell(EntryAt + 2), "offset") # expected)
  /\ ExtentChecks[3] = Check("Truncated", BlobEnd > UsizeMax)
  /\ ExtentChecks[4] = Check("Truncated", BlobEnd > FooterStart)
  /\ ExtentChecks[5] = Check("Panic", BlobEnd + Align - 1 > UsizeMax)
  /\ ExtentChecks[6] = Check("Truncated", Pad(BlobEnd) > FooterStart)
  /\ ExtentChecks[7] = Check("Panic", BlobEnd > Len(file))
  /\ ExtentChecks[8] = Check("NonCanonical", ~AllZero(BlobEnd + 1, Pad(BlobEnd)))
BY DEF ExtentChecks

LEMMA UpTo8 ==
  \A i : i \in 1..8 <=> \/ i = 1 \/ i = 2 \/ i = 3 \/ i = 4 \/ i = 5 \/ i = 6 \/ i = 7 \/ i = 8
OBVIOUS

LEMMA ExtentPassed == Passed(ExtentChecks) <=> ExtentGood
<1>1. Passed(ExtentChecks) <=> \A i \in 1..8 : ExtentChecks[i] = "Ok"
  BY ExtentChecksAre DEF Passed
<1> QED
  BY <1>1, ExtentChecksAre, UpTo8 DEF ExtentGood, Check

LEMMA ExtentRefused ==
  ASSUME RejectBy(ExtentChecks)
  PROVE  /\ outcome' # "Ok" /\ ~Passed(ExtentChecks)
         /\ outcome' = "Panic" =>
              \/ EntryAt + EntryLen > Len(file)
              \/ /\ ~(BlobEnd > FooterStart)
                 /\ BlobEnd + Align - 1 > UsizeMax \/ BlobEnd > Len(file)
<1>1. PICK i \in 1..8 : /\ ExtentChecks[i] # "Ok" /\ outcome' = ExtentChecks[i]
                        /\ \A j \in 1..(i - 1) : ExtentChecks[j] = "Ok"
  BY ExtentChecksAre DEF RejectBy
<1>2. ~Passed(ExtentChecks)
  BY <1>1, ExtentChecksAre DEF Passed
<1>3. ASSUME outcome' = "Panic"
      PROVE  \/ EntryAt + EntryLen > Len(file)
             \/ /\ ~(BlobEnd > FooterStart)
                /\ BlobEnd + Align - 1 > UsizeMax \/ BlobEnd > Len(file)
  <2>1. ExtentChecks[i] = "Panic"
    BY <1>1, <1>3
  <2>2. i = 1 \/ i = 5 \/ i = 7
    BY <2>1, ExtentChecksAre, UpTo8 DEF Check
  <2>3. CASE i = 1
    BY <2>1, <2>3, ExtentChecksAre DEF Check
  <2>4. CASE i = 5 \/ i = 7
    <3>1. ExtentChecks[4] = "Ok"
      BY <1>1, <2>4
    <3>2. ~(BlobEnd > FooterStart)
      BY <3>1, ExtentChecksAre DEF Check
    <3>3. CASE i = 5
      BY <2>1, <3>2, <3>3, ExtentChecksAre DEF Check
    <3>4. CASE i = 7
      BY <2>1, <3>2, <3>4, ExtentChecksAre DEF Check
    <3> QED
      BY <2>4, <3>3, <3>4
  <2> QED
    BY <2>2, <2>3, <2>4
<1> QED
  BY <1>1, <1>2, <1>3

ContentGood(blob) ==
  /\ IsBlob(blob)
  /\ Seg(blob[1].seg).version \in SupportedVersions
  /\ Seg(blob[1].seg).structure = "Ok"
  /\ Number(Refs, "base") = Seg(blob[1].seg).base
  /\ Number(Refs, "child") = Seg(blob[1].seg).end
  /\ Text(Refs, "hash") = Seg(blob[1].seg).endHash
  /\ Seg(blob[1].seg).machine = Text(Header, "machine")
  /\ Seg(blob[1].seg).clock = Text(Header, "clock")
  /\ Adjacent(Number(Refs, "base"))

LEMMA ContentChecksAre ==
  ASSUME NEW blob
  PROVE  /\ ~IsBlob(blob) => /\ DOMAIN ContentChecks(blob) = 1..1
                             /\ ContentChecks(blob)[1] = "Segment"
         /\ IsBlob(blob) =>
              /\ DOMAIN ContentChecks(blob) = 1..8
              /\ ContentChecks(blob)[1]
                   = Check("Segment", Seg(blob[1].seg).version \notin SupportedVersions)
              /\ ContentChecks(blob)[2] = Check("Segment", Seg(blob[1].seg).structure # "Ok")
              /\ ContentChecks(blob)[3]
                   = Check("Disagreement", Number(Refs, "base") # Seg(blob[1].seg).base)
              /\ ContentChecks(blob)[4]
                   = Check("Disagreement", Number(Refs, "child") # Seg(blob[1].seg).end)
              /\ ContentChecks(blob)[5]
                   = Check("Disagreement", Text(Refs, "hash") # Seg(blob[1].seg).endHash)
              /\ ContentChecks(blob)[6]
                   = Check("Disagreement", Seg(blob[1].seg).machine # Text(Header, "machine"))
              /\ ContentChecks(blob)[7]
                   = Check("Disagreement", Seg(blob[1].seg).clock # Text(Header, "clock"))
              /\ ContentChecks(blob)[8] = Check("Disagreement", ~Adjacent(Number(Refs, "base")))
BY DEF ContentChecks

LEMMA ContentPassed ==
  ASSUME NEW blob
  PROVE  Passed(ContentChecks(blob)) <=> ContentGood(blob)
<1>1. CASE IsBlob(blob)
  <2>1. Passed(ContentChecks(blob)) <=> \A i \in 1..8 : ContentChecks(blob)[i] = "Ok"
    BY <1>1, ContentChecksAre DEF Passed
  <2> QED
    BY <1>1, <2>1, ContentChecksAre, UpTo8 DEF ContentGood, Check
<1>2. CASE ~IsBlob(blob)
  BY <1>2, ContentChecksAre DEF Passed, ContentGood
<1> QED
  BY <1>1, <1>2

LEMMA ContentRefused ==
  ASSUME NEW blob, RejectBy(ContentChecks(blob))
  PROVE  outcome' \notin {"Ok", "Panic"} /\ ~Passed(ContentChecks(blob))
<1>1. PICK i \in DOMAIN ContentChecks(blob) :
        ContentChecks(blob)[i] # "Ok" /\ outcome' = ContentChecks(blob)[i]
  BY DEF RejectBy
<1>2. ~Passed(ContentChecks(blob))
  BY <1>1 DEF Passed
<1>3. CASE IsBlob(blob)
  BY <1>1, <1>2, <1>3, ContentChecksAre, UpTo8 DEF Check
<1>4. CASE ~IsBlob(blob)
  BY <1>1, <1>2, <1>4, ContentChecksAre
<1> QED
  BY <1>3, <1>4

LEMMA EndPassed ==
  /\ Passed(EndChecks) <=> expected = FooterStart /\ ((Number(Header, "flags") = 1) <=> AllEpochs)
  /\ RejectBy(EndChecks) => outcome' \notin {"Ok", "Panic"} /\ ~Passed(EndChecks)
<1>1. /\ DOMAIN EndChecks = 1..2
      /\ EndChecks[1] = Check("NonCanonical", expected # FooterStart)
      /\ EndChecks[2] = Check("NonCanonical", (Number(Header, "flags") = 1) # AllEpochs)
  BY DEF EndChecks
<1>2. \A i : i \in 1..2 <=> i = 1 \/ i = 2
  OBVIOUS
<1>3. AllEpochs \in BOOLEAN /\ (Number(Header, "flags") = 1) \in BOOLEAN
  BY DEF AllEpochs
<1>4. Passed(EndChecks) <=> expected = FooterStart /\ ((Number(Header, "flags") = 1) <=> AllEpochs)
  BY <1>1, <1>2, <1>3 DEF Passed, Check
<1>5. ASSUME RejectBy(EndChecks)
      PROVE  outcome' \notin {"Ok", "Panic"} /\ ~Passed(EndChecks)
  BY <1>1, <1>2, <1>5 DEF RejectBy, Passed, Check
<1> QED
  BY <1>4, <1>5

-----------------------------------------------------------------------------
\* The cells of a file

IsHead(c) ==
  /\ c = [t |-> "head", version |-> c.version, flags |-> c.flags, count |-> c.count,
          metaLen |-> c.metaLen, root |-> c.root, machine |-> c.machine, clock |-> c.clock]
  /\ c.count \in 0..U32Max /\ c.metaLen \in 0..U32Max

IsEntry(c) ==
  c = [t |-> "entry", node |-> c.node, base |-> c.base, child |-> c.child, hash |-> c.hash]

IsExtent(c) ==
  /\ c = [t |-> "extent", offset |-> c.offset, len |-> c.len]
  /\ c.offset \in 0..UsizeMax /\ c.len \in 0..UsizeMax

IsText(c) ==
  \/ c = [t |-> "meta", goal |-> c.goal, part |-> c.part, of |-> c.of]
  \/ c = [t |-> "blob", seg |-> c.seg, part |-> c.part, of |-> c.of]

IsPlain(c) == c = Zero \/ c = Space \/ c = Junk

\* What a file holds before its footer, and what its footer is.
IsCell(c) == IsPlain(c) \/ IsText(c) \/ IsHead(c) \/ IsEntry(c) \/ IsExtent(c)
IsFooterCell(c) == c = [t |-> "end"] \/ c = [t |-> "hash", of |-> c.of]

AnyCell(c) == IsCell(c) \/ IsFooterCell(c)

LEMMA PlainIs ==
  ASSUME NEW c, IsPlain(c)
  PROVE  c.t \in {"zero", "space", "junk"} /\ DOMAIN c = {"t"}
BY DEF IsPlain, Zero, Space, Junk

LEMMA TextIs ==
  ASSUME NEW c, IsText(c)
  PROVE  /\ c.t \in {"meta", "blob"}
         /\ DOMAIN c = {"t", "goal", "part", "of"} \/ DOMAIN c = {"t", "seg", "part", "of"}
<1>1. PICK g, p, o : c = [t |-> "meta", goal |-> g, part |-> p, of |-> o]
                      \/ c = [t |-> "blob", seg |-> g, part |-> p, of |-> o]
  BY DEF IsText
<1>2. CASE c = [t |-> "meta", goal |-> g, part |-> p, of |-> o]
  BY <1>2
<1>3. CASE c = [t |-> "blob", seg |-> g, part |-> p, of |-> o]
  BY <1>3
<1> QED
  BY <1>1, <1>2, <1>3

LEMMA HeadIs ==
  ASSUME NEW c, IsHead(c)
  PROVE  /\ c.t = "head"
         /\ DOMAIN c = {"t", "version", "flags", "count", "metaLen", "root", "machine", "clock"}
<1>1. PICK v, f, n, m, r, a, k :
        c = [t |-> "head", version |-> v, flags |-> f, count |-> n,
             metaLen |-> m, root |-> r, machine |-> a, clock |-> k]
  BY DEF IsHead
<1> QED
  BY <1>1

LEMMA EntryIs ==
  ASSUME NEW c, IsEntry(c)
  PROVE  c.t = "entry" /\ DOMAIN c = {"t", "node", "base", "child", "hash"}
<1>1. PICK n, b, d, h : c = [t |-> "entry", node |-> n, base |-> b, child |-> d, hash |-> h]
  BY DEF IsEntry
<1> QED
  BY <1>1

LEMMA ExtentIs ==
  ASSUME NEW c, IsExtent(c)
  PROVE  c.t = "extent" /\ DOMAIN c = {"t", "offset", "len"}
<1>1. PICK o, n : c = [t |-> "extent", offset |-> o, len |-> n]
  BY DEF IsExtent
<1> QED
  BY <1>1

LEMMA FooterIs ==
  ASSUME NEW c, IsFooterCell(c)
  PROVE  /\ c.t \in {"end", "hash"} /\ (c.t = "end" => c = [t |-> "end"])
         /\ DOMAIN c = {"t"} \/ DOMAIN c = {"t", "of"}
<1>1. PICK o : c = [t |-> "end"] \/ c = [t |-> "hash", of |-> o]
  BY DEF IsFooterCell
<1>2. CASE c = [t |-> "end"]
  BY <1>2
<1>3. CASE c = [t |-> "hash", of |-> o]
  BY <1>3
<1> QED
  BY <1>1, <1>2, <1>3

\* The kind of a cell says what it is, and what is read of it.
LEMMA CellIs ==
  ASSUME NEW c, AnyCell(c)
  PROVE  /\ c.t = "head" => IsHead(c)
         /\ "hash" \in DOMAIN c => IsEntry(c)
         /\ "offset" \in DOMAIN c \/ "len" \in DOMAIN c => IsExtent(c)
         /\ c.t = "end" => c = [t |-> "end"]
         /\ IsCell(c) <=> c.t \notin {"end", "hash"}
         /\ c.t = "meta" => IsText(c)
         /\ c.t = "zero" => c = Zero
<1>1. CASE IsPlain(c)
  BY <1>1, PlainIs DEF IsCell, IsPlain, Zero, Space, Junk
<1>2. CASE IsText(c)
  BY <1>2, TextIs DEF IsCell
<1>3. CASE IsHead(c)
  BY <1>3, HeadIs DEF IsCell
<1>4. CASE IsEntry(c)
  BY <1>4, EntryIs DEF IsCell
<1>5. CASE IsExtent(c)
  BY <1>5, ExtentIs DEF IsCell
<1>6. CASE IsFooterCell(c)
  <2>1. ~IsCell(c)
    BY <1>6, FooterIs, PlainIs, TextIs, HeadIs, EntryIs, ExtentIs DEF IsCell
  <2> QED
    BY <1>6, <2>1, FooterIs
<1> QED
  BY <1>1, <1>2, <1>3, <1>4, <1>5, <1>6 DEF AnyCell, IsCell

LEMMA PlainCells == IsCell(Zero) /\ IsCell(Space) /\ IsCell(Junk)
BY DEF IsCell, IsPlain

\* An edit of a field leaves the kind of the cell.
LEMMA VariantsAre ==
  ASSUME NEW c, AnyCell(c), NEW d \in Variants(c)
  PROVE  IsCell(d) /\ IsCell(c) /\ d.t = c.t
<1>1. CASE c.t = "head"
  <2>1. IsHead(c)
    BY <1>1, CellIs
  <2>2. PICK v, f, n, m, r, a, k :
          /\ c = [t |-> "head", version |-> v, flags |-> f, count |-> n,
                  metaLen |-> m, root |-> r, machine |-> a, clock |-> k]
          /\ n \in 0..U32Max /\ m \in 0..U32Max
    BY <2>1 DEF IsHead
  <2>3. \/ d \in {[c EXCEPT !.flags = 1 - @], [c EXCEPT !.flags = 2],
                  [c EXCEPT !.version = 1], [c EXCEPT !.root = 99],
                  [c EXCEPT !.machine = "x"], [c EXCEPT !.clock = "x"]}
        \/ \E x \in 0..U32Max : d = [c EXCEPT !.count = x]
        \/ \E x \in 0..U32Max : d = [c EXCEPT !.metaLen = x]
    BY <1>1 DEF Variants, Near
  <2>4. PICK v1, f1, n1, m1, r1, a1, k1 :
          /\ d = [t |-> "head", version |-> v1, flags |-> f1, count |-> n1,
                  metaLen |-> m1, root |-> r1, machine |-> a1, clock |-> k1]
          /\ n1 \in 0..U32Max /\ m1 \in 0..U32Max
    <3>1. CASE d = [c EXCEPT !.flags = 1 - @]
      BY <2>2, <3>1
    <3>2. CASE d = [c EXCEPT !.flags = 2]
      BY <2>2, <3>2
    <3>3. CASE d = [c EXCEPT !.version = 1]
      BY <2>2, <3>3
    <3>4. CASE d = [c EXCEPT !.root = 99]
      <4>1. d = [t |-> "head", version |-> v, flags |-> f, count |-> n,
                 metaLen |-> m, root |-> 99, machine |-> a, clock |-> k]
        BY <2>2, <3>4
      <4> QED
        BY <2>2, <4>1
    <3>5. CASE d = [c EXCEPT !.machine = "x"]
      BY <2>2, <3>5
    <3>6. CASE d = [c EXCEPT !.clock = "x"]
      BY <2>2, <3>6
    <3>7. CASE \E x \in 0..U32Max : d = [c EXCEPT !.count = x]
      BY <2>2, <3>7
    <3>8. CASE \E x \in 0..U32Max : d = [c EXCEPT !.metaLen = x]
      BY <2>2, <3>8
    <3> QED
      BY <2>3, <3>1, <3>2, <3>3, <3>4, <3>5, <3>6, <3>7, <3>8
  <2>5. IsHead(d)
    BY <2>4 DEF IsHead
  <2> QED
    BY <1>1, <2>1, <2>5, HeadIs DEF IsCell
<1>2. CASE c.t = "entry"
  <2>1. IsEntry(c)
    BY <1>2, PlainIs, TextIs, HeadIs, ExtentIs, FooterIs DEF AnyCell, IsCell
  <2>2. PICK n, b, e, h : c = [t |-> "entry", node |-> n, base |-> b, child |-> e, hash |-> h]
    BY <2>1 DEF IsEntry
  <2>3. d \in {[c EXCEPT !.node = 99], [c EXCEPT !.base = 99],
               [c EXCEPT !.child = 99], [c EXCEPT !.hash = "x"]}
    BY <1>2 DEF Variants
  <2>4. PICK n1, b1, e1, h1 :
          d = [t |-> "entry", node |-> n1, base |-> b1, child |-> e1, hash |-> h1]
    BY <2>2, <2>3
  <2>5. IsEntry(d)
    BY <2>4 DEF IsEntry
  <2> QED
    BY <1>2, <2>1, <2>5, EntryIs DEF IsCell
<1>3. CASE c.t = "extent"
  <2>1. IsExtent(c)
    BY <1>3, PlainIs, TextIs, HeadIs, EntryIs, FooterIs DEF AnyCell, IsCell
  <2>2. PICK o, n \in 0..UsizeMax : c = [t |-> "extent", offset |-> o, len |-> n]
    BY <2>1 DEF IsExtent
  <2>3. \/ \E x \in 0..UsizeMax : d = [c EXCEPT !.offset = x]
        \/ \E x \in 0..UsizeMax : d = [c EXCEPT !.len = x]
    <3>1. c.offset \in 0..UsizeMax /\ UsizeMax \in Nat
      BY <2>2, ConstantsAre
    <3>2. UsizeMax - c.offset \in 0..UsizeMax /\ UsizeMax \in 0..UsizeMax
      BY <3>1
    <3>3. \/ d \in {[c EXCEPT !.offset = x] : x \in Near(c.offset, Align, UsizeMax)}
          \/ d \in {[c EXCEPT !.len = x] :
                      x \in Near(c.len, 1, UsizeMax) \cup {UsizeMax - c.offset, UsizeMax}}
      BY <1>3 DEF Variants
    <3> QED
      BY <3>2, <3>3 DEF Near
  <2>4. PICK o1, n1 \in 0..UsizeMax : d = [t |-> "extent", offset |-> o1, len |-> n1]
    <3>1. CASE \E x \in 0..UsizeMax : d = [c EXCEPT !.offset = x]
      BY <2>2, <3>1
    <3>2. CASE \E x \in 0..UsizeMax : d = [c EXCEPT !.len = x]
      BY <2>2, <3>2
    <3> QED
      BY <2>3, <3>1, <3>2
  <2>5. IsExtent(d)
    BY <2>4 DEF IsExtent
  <2> QED
    BY <1>3, <2>1, <2>5, ExtentIs DEF IsCell
<1>4. CASE c.t \notin {"head", "entry", "extent"}
  BY <1>4 DEF Variants
<1> QED
  BY <1>1, <1>2, <1>3, <1>4

-----------------------------------------------------------------------------
\* Edits

Replaced(s, g, p, c) ==
  Len(g) = Len(s) /\ g[p] = c /\ \A k \in 1..Len(s) : k # p => g[k] = s[k]
Inserted(s, g, p, c) ==
  /\ Len(g) = Len(s) + 1 /\ g[p] = c
  /\ \A k \in 1..(p - 1) : g[k] = s[k]
  /\ \A k \in p..Len(s) : g[k + 1] = s[k]
Removed(s, g, p) ==
  /\ Len(g) = Len(s) - 1
  /\ \A k \in 1..(p - 1) : g[k] = s[k]
  /\ \A k \in p..(Len(s) - 1) : g[k] = s[k + 1]

\* The one edit that made g of s.
EditAt(s, g, p) ==
  \/ \E c \in Variants(s[p]) \cup {Zero, Space, Junk} : Replaced(s, g, p, c)
  \/ \E c \in {Zero, Space, Junk} : Inserted(s, g, p, c)
  \/ Removed(s, g, p)

LEMMA InsertIs ==
  ASSUME NEW s, IsSeq(s), NEW p \in 1..Len(s), NEW c
  PROVE  IsSeq(InsertAt(s, p, c)) /\ Inserted(s, InsertAt(s, p, c), p, c)
<1>1. PICK n, m \in Nat : n = Len(s) /\ m = p - 1 /\ m + 1 = p /\ m <= n
  <2>1. Len(s) \in Nat /\ p - 1 \in Nat /\ p - 1 + 1 = p /\ p - 1 <= Len(s)
    BY DEF IsSeq
  <2> QED
    BY <2>1
<1>2. PICK a, b, d : a = SubSeq(s, 1, p - 1) /\ b = SubSeq(s, p, Len(s)) /\ d = <<c>>
  OBVIOUS
<1>3. IsSeq(a) /\ Len(a) = m /\ \A k \in 1..m : a[k] = s[k]
  <2>1. /\ 0 \in Nat /\ 0 <= m /\ 0 + 1 = 1 /\ m - 0 = m /\ \A k \in 1..m : 0 + k = k
        /\ m <= Len(s)
    BY <1>1
  <2>2. /\ IsSeq(SubSeq(s, 0 + 1, m)) /\ Len(SubSeq(s, 0 + 1, m)) = m - 0
        /\ \A k \in 1..(m - 0) : SubSeq(s, 0 + 1, m)[k] = s[0 + k]
    BY <2>1, CutIs
  <2> QED
    BY <1>1, <1>2, <2>1, <2>2
<1>4. IsSeq(b) /\ Len(b) = n - m /\ \A k \in 1..(n - m) : b[k] = s[m + k]
  <2>1. n <= Len(s) /\ m <= n
    BY <1>1
  <2>2. /\ IsSeq(SubSeq(s, m + 1, n)) /\ Len(SubSeq(s, m + 1, n)) = n - m
        /\ \A k \in 1..(n - m) : SubSeq(s, m + 1, n)[k] = s[m + k]
    BY <2>1, CutIs
  <2> QED
    BY <1>1, <1>2, <2>2
<1>5. IsSeq(d) /\ Len(d) = 1 /\ d[1] = c
  <2>1. d \in Seq({c}) /\ Len(d) = 1 /\ d[1] = c
    BY <1>2
  <2> QED
    BY <2>1, SeqIs
<1>6. PICK e : e = a \o d
  OBVIOUS
<1>7. IsSeq(e) /\ Len(e) = m + 1 /\ e[m + 1] = c /\ \A k \in 1..m : e[k] = s[k]
  <2>0. IsSeq(a) /\ IsSeq(d)
    BY <1>3, <1>5
  <2>1. /\ IsSeq(a \o d) /\ Len(a \o d) = Len(a) + Len(d)
        /\ \A k \in 1..Len(a) : (a \o d)[k] = a[k]
        /\ \A k \in 1..Len(d) : (a \o d)[Len(a) + k] = d[k]
    BY <2>0, Joined
  <2>2. /\ IsSeq(e) /\ Len(e) = m + 1
        /\ \A k \in 1..m : e[k] = a[k]
        /\ \A k \in 1..1 : e[m + k] = d[k]
    BY <1>3, <1>5, <1>6, <2>1
  <2>3. 1 \in 1..1
    OBVIOUS
  <2> QED
    BY <1>3, <1>5, <2>2, <2>3
<1>8. PICK g : g = e \o b
  OBVIOUS
<1>9. /\ IsSeq(g) /\ Len(g) = m + 1 + (n - m)
      /\ \A k \in 1..(m + 1) : g[k] = e[k]
      /\ \A k \in 1..(n - m) : g[m + 1 + k] = b[k]
  BY <1>4, <1>7, <1>8, Joined
<1>10. \A k \in p..n : g[k + 1] = s[k]
  <2> SUFFICES ASSUME NEW k \in p..n PROVE g[k + 1] = s[k]
    OBVIOUS
  <2>1. PICK j \in 1..(n - m) : j = k - m /\ m + 1 + j = k + 1 /\ m + j = k
    <3>1. k - m \in 1..(n - m) /\ m + 1 + (k - m) = k + 1 /\ m + (k - m) = k
      BY <1>1
    <3> QED
      BY <3>1
  <2>2. g[m + 1 + j] = s[m + j]
    BY <1>4, <1>9
  <2> QED
    BY <2>1, <2>2
<1>11. g[p] = c /\ \A k \in 1..(p - 1) : g[k] = s[k]
  BY <1>1, <1>7, <1>9
<1>12. g = InsertAt(s, p, c)
  BY <1>2, <1>6, <1>8 DEF InsertAt
<1>13. Len(g) = Len(s) + 1
  BY <1>1, <1>9
<1> QED
  BY <1>1, <1>9, <1>10, <1>11, <1>12, <1>13 DEF Inserted

LEMMA RemoveIs ==
  ASSUME NEW s, IsSeq(s), NEW p \in 1..Len(s)
  PROVE  IsSeq(RemoveAt(s, p)) /\ Removed(s, RemoveAt(s, p), p)
<1>1. PICK n, m \in Nat : n = Len(s) /\ m = p - 1 /\ m + 1 = p /\ m <= n /\ p <= n /\ p \in Nat
  <2>1. Len(s) \in Nat /\ p - 1 \in Nat /\ p - 1 + 1 = p /\ p - 1 <= Len(s) /\ p \in Nat
    BY DEF IsSeq
  <2> QED
    BY <2>1
<1>2. PICK a, b : a = SubSeq(s, 1, p - 1) /\ b = SubSeq(s, p + 1, Len(s))
  OBVIOUS
<1>3. IsSeq(a) /\ Len(a) = m /\ \A k \in 1..m : a[k] = s[k]
  <2>1. /\ 0 \in Nat /\ 0 <= m /\ 0 + 1 = 1 /\ m - 0 = m /\ \A k \in 1..m : 0 + k = k
        /\ m <= Len(s)
    BY <1>1
  <2>2. /\ IsSeq(SubSeq(s, 0 + 1, m)) /\ Len(SubSeq(s, 0 + 1, m)) = m - 0
        /\ \A k \in 1..(m - 0) : SubSeq(s, 0 + 1, m)[k] = s[0 + k]
    BY <2>1, CutIs
  <2> QED
    BY <1>1, <1>2, <2>1, <2>2
<1>4. IsSeq(b) /\ Len(b) = n - p /\ \A k \in 1..(n - p) : b[k] = s[p + k]
  <2>1. n <= Len(s) /\ p <= n /\ p \in Nat
    BY <1>1
  <2>2. /\ IsSeq(SubSeq(s, p + 1, n)) /\ Len(SubSeq(s, p + 1, n)) = n - p
        /\ \A k \in 1..(n - p) : SubSeq(s, p + 1, n)[k] = s[p + k]
    BY <2>1, CutIs
  <2> QED
    BY <1>1, <1>2, <2>2
<1>5. PICK g : g = a \o b
  OBVIOUS
<1>6. /\ IsSeq(g) /\ Len(g) = m + (n - p)
      /\ \A k \in 1..m : g[k] = a[k]
      /\ \A k \in 1..(n - p) : g[m + k] = b[k]
  <2>0. IsSeq(a) /\ IsSeq(b)
    BY <1>3, <1>4
  <2>1. /\ IsSeq(a \o b) /\ Len(a \o b) = Len(a) + Len(b)
        /\ \A k \in 1..Len(a) : (a \o b)[k] = a[k]
        /\ \A k \in 1..Len(b) : (a \o b)[Len(a) + k] = b[k]
    BY <2>0, Joined
  <2> QED
    BY <1>3, <1>4, <1>5, <2>1
<1>7. \A k \in p..(n - 1) : g[k] = s[k + 1]
  <2> SUFFICES ASSUME NEW k \in p..(n - 1) PROVE g[k] = s[k + 1]
    OBVIOUS
  <2>1. PICK j \in 1..(n - p) : j = k - m /\ m + j = k /\ p + j = k + 1
    <3>1. k - m \in 1..(n - p) /\ m + (k - m) = k /\ p + (k - m) = k + 1
      BY <1>1
    <3> QED
      BY <3>1
  <2>2. g[m + j] = s[p + j]
    BY <1>4, <1>6
  <2> QED
    BY <2>1, <2>2
<1>8. g = RemoveAt(s, p)
  BY <1>2, <1>5 DEF RemoveAt
<1>9. Len(g) = Len(s) - 1
  BY <1>1, <1>6
<1> QED
  BY <1>1, <1>3, <1>6, <1>7, <1>8, <1>9 DEF Removed

LEMMA ReplaceIs ==
  ASSUME NEW s, IsSeq(s), NEW p \in 1..Len(s), NEW c
  PROVE  IsSeq(ReplaceAt(s, p, c)) /\ Replaced(s, ReplaceAt(s, p, c), p, c)
<1>1. PICK S : S = {s[k] : k \in 1..Len(s)} \cup {c}
  OBVIOUS
<1>2. s \in Seq(S) /\ c \in S
  BY <1>1, InSeq
<1>3. PICK g : g = [s EXCEPT ![p] = c]
  OBVIOUS
<1>4. g \in Seq(S) /\ Len(g) = Len(s) /\ \A j \in 1..Len(s) : g[j] = IF j = p THEN c ELSE s[j]
  BY <1>2, <1>3, ExceptSeq
<1>5. IsSeq(g)
  BY <1>4, SeqIs
<1>6. g = ReplaceAt(s, p, c)
  BY <1>3 DEF ReplaceAt
<1> QED
  BY <1>4, <1>5, <1>6 DEF Replaced

LEMMA EditsAre ==
  ASSUME NEW s, IsSeq(s), NEW g \in Edits(s)
  PROVE  IsSeq(g) /\ \E p \in 1..Len(s) : EditAt(s, g, p)
<1>1. DOMAIN s = 1..Len(s)
  BY DEF IsSeq
<1>2. PICK p \in 1..Len(s) :
        g \in {ReplaceAt(s, p, c) : c \in Variants(s[p]) \cup {Zero, Space, Junk}}
                \cup {InsertAt(s, p, c) : c \in {Zero, Space, Junk}}
                \cup {RemoveAt(s, p)}
  BY <1>1 DEF Edits
<1>3. CASE g \in {ReplaceAt(s, p, c) : c \in Variants(s[p]) \cup {Zero, Space, Junk}}
  BY <1>3, ReplaceIs DEF EditAt
<1>4. CASE g \in {InsertAt(s, p, c) : c \in {Zero, Space, Junk}}
  BY <1>4, InsertIs DEF EditAt
<1>5. CASE g = RemoveAt(s, p)
  BY <1>5, RemoveIs DEF EditAt
<1> QED
  BY <1>2, <1>3, <1>4, <1>5

AllCells(s) == \A k \in 1..Len(s) : IsCell(s[k])

\* An edit leaves the file made of cells.
LEMMA EditsCells ==
  ASSUME NEW s, IsSeq(s), \A k \in 1..Len(s) : AnyCell(s[k]), NEW g \in Edits(s)
  PROVE  (\A k \in 1..Len(g) : AnyCell(g[k])) /\ (AllCells(s) => AllCells(g))
<1>1. PICK p \in 1..Len(s) : EditAt(s, g, p)
  BY EditsAre
<1>2. Len(s) \in Nat
  BY DEF IsSeq
<1>3. ASSUME NEW k \in 1..Len(g)
      PROVE  IsCell(g[k]) \/ \E j \in 1..Len(s) : g[k] = s[j]
  <2>1. ASSUME NEW c \in Variants(s[p]) \cup {Zero, Space, Junk} PROVE IsCell(c)
    BY <2>1, VariantsAre, PlainCells
  <2>2. CASE \E c \in Variants(s[p]) \cup {Zero, Space, Junk} : Replaced(s, g, p, c)
    BY <2>1, <2>2 DEF Replaced
  <2>3. CASE \E c \in {Zero, Space, Junk} : Inserted(s, g, p, c)
    <3>1. PICK c \in {Zero, Space, Junk} : Inserted(s, g, p, c)
      BY <2>3
    <3>2. k < p \/ k = p \/ k - 1 \in p..Len(s)
      BY <1>2, <3>1 DEF Inserted
    <3>3. CASE k < p
      BY <3>1, <3>3 DEF Inserted
    <3>4. CASE k = p
      BY <3>1, <3>4, PlainCells DEF Inserted
    <3>5. CASE k - 1 \in p..Len(s)
      <4>1. PICK j \in p..Len(s) : j = k - 1
        BY <3>5
      <4>2. j + 1 = k /\ j \in 1..Len(s)
        BY <1>2, <4>1
      <4>3. g[j + 1] = s[j]
        BY <3>1 DEF Inserted
      <4> QED
        BY <4>2, <4>3
    <3> QED
      BY <3>2, <3>3, <3>4, <3>5
  <2>4. CASE Removed(s, g, p)
    <3>1. k \in 1..(p - 1) \/ k \in p..(Len(s) - 1)
      BY <1>2, <2>4 DEF Removed
    <3>2. CASE k \in 1..(p - 1)
      BY <1>2, <2>4, <3>2 DEF Removed
    <3>3. CASE k \in p..(Len(s) - 1)
      <4>1. k + 1 \in 1..Len(s) /\ g[k] = s[k + 1]
        BY <1>2, <2>4, <3>3 DEF Removed
      <4> QED
        BY <4>1
    <3> QED
      BY <3>1, <3>2, <3>3
  <2> QED
    BY <1>1, <2>2, <2>3, <2>4 DEF EditAt
<1> QED
  BY <1>3 DEF AnyCell, AllCells

-----------------------------------------------------------------------------
\* A damaged file is refused

\* The file holds b, up to the damage.
FileFrom(b) ==
  /\ IsSeq(b) /\ AllCells(b)
  /\ damaged => file \in Edits(Sealed(b)) /\ file # Sealed(b)
  /\ ~damaged => file = Sealed(b)

FileOK ==
  /\ IsSeq(file) /\ (\A k \in 1..Len(file) : AnyCell(file[k])) /\ Fits(file)
  /\ damaged \in BOOLEAN /\ \E b : FileFrom(b)

LEMMA HashIs ==
  ASSUME NEW a, NEW b, [t |-> "hash", of |-> a] = [t |-> "hash", of |-> b]
  PROVE  a = b
<1>1. [t |-> "hash", of |-> a].of = [t |-> "hash", of |-> b].of
  OBVIOUS
<1> QED
  BY <1>1

LEMMA SealedCells ==
  ASSUME NEW b, IsSeq(b), NEW s, s = Sealed(b)
  PROVE  /\ IsSeq(s) /\ Len(s) = Len(b) + 2
         /\ \A k \in 1..Len(b) : s[k] = b[k]
         /\ s[Len(b) + 1] = [t |-> "hash", of |-> b] /\ s[Len(b) + 2] = [t |-> "end"]
<1>1. PICK e : e = << [t |-> "hash", of |-> b], [t |-> "end"] >>
  OBVIOUS
<1>2. IsSeq(e) /\ Len(e) = 2 /\ e[1] = [t |-> "hash", of |-> b] /\ e[2] = [t |-> "end"]
  BY <1>1, LiesPair
<1>3. s = b \o e
  BY <1>1 DEF Sealed
<1>4. /\ IsSeq(b \o e) /\ Len(b \o e) = Len(b) + Len(e)
      /\ \A k \in 1..Len(b) : (b \o e)[k] = b[k]
      /\ \A k \in 1..Len(e) : (b \o e)[Len(b) + k] = e[k]
  <2>1. IsSeq(e)
    BY <1>2
  <2> QED
    BY <2>1, Joined
<1>5. 1 \in 1..Len(e) /\ 2 \in 1..Len(e)
  BY <1>2
<1> QED
  BY <1>2, <1>3, <1>4, <1>5

\* What a good header says of the file.
LEMMA GoodFile ==
  ASSUME FileOK, HeaderGood
  PROVE  /\ FooterStart \in Nat /\ FooterStart >= 2 /\ Len(file) = FooterStart + 2
         /\ IsSeq(Body) /\ Len(Body) = FooterStart
         /\ \A k \in 1..FooterStart : Body[k] = file[k]
         /\ file[FooterStart + 1] = [t |-> "hash", of |-> Body]
         /\ file[FooterStart + 2] = [t |-> "end"]
         /\ file = Sealed(Body)
         /\ \A k \in 1..Len(file) : Cell(k) = file[k]
<1>1. PICK n \in Nat : n = FooterStart /\ n >= 2 /\ Len(file) = n + 2 /\ n = Len(file) - 2
  <2>1. Len(file) \in Nat /\ ~(Len(file) < 2 + 2) /\ FooterStart = Len(file) - 2
    BY ConstantsAre DEF FileOK, HeaderGood, FooterStart, IsSeq
  <2>2. Len(file) - 2 \in Nat /\ Len(file) - 2 >= 2 /\ Len(file) = (Len(file) - 2) + 2
    BY <2>1
  <2> QED
    BY <2>1, <2>2
<1>2. DOMAIN file = 1..Len(file)
  BY DEF FileOK, IsSeq
<1>3. \A k \in 1..Len(file) : Cell(k) = file[k]
  BY <1>2 DEF Cell
<1>4. PICK b : b = Body
  OBVIOUS
<1>5. b = SubSeq(file, 1, n)
  BY <1>1, <1>4, ConstantsAre DEF Body
<1>6. IsSeq(b) /\ Len(b) = n /\ \A k \in 1..n : b[k] = file[k]
  <2>1. 0 \in Nat /\ 0 <= n /\ n <= Len(file) /\ 0 + 1 = 1 /\ n - 0 = n /\ IsSeq(file)
    BY <1>1 DEF FileOK
  <2>2. /\ IsSeq(SubSeq(file, 0 + 1, n)) /\ Len(SubSeq(file, 0 + 1, n)) = n - 0
        /\ \A k \in 1..(n - 0) : SubSeq(file, 0 + 1, n)[k] = file[0 + k]
    BY <2>1, CutIs
  <2>3. \A k \in 1..n : 0 + k = k
    OBVIOUS
  <2> QED
    BY <1>5, <2>1, <2>2, <2>3
<1>7. file[n + 1] = [t |-> "hash", of |-> b]
  <2>1. n + 1 \in 1..Len(file)
    BY <1>1
  <2>2. Cell(n + 1) = [t |-> "hash", of |-> b]
    BY <1>1, <1>4 DEF HeaderGood
  <2> QED
    BY <1>3, <2>1, <2>2
<1>8. file[n + 2] = [t |-> "end"]
  <2>1. n + 2 \in 1..Len(file) /\ Len(file) = n + 2
    BY <1>1
  <2>2. Cell(Len(file)).t = "end"
    BY DEF HeaderGood
  <2>3. file[n + 2].t = "end"
    BY <1>3, <2>1, <2>2
  <2> QED
    BY <2>1, <2>3, CellIs DEF FileOK
<1>9. file = Sealed(b)
  <2>1. Lies(b, file, 0)
    <3>1. \A k \in 1..n : 0 + k = k
      OBVIOUS
    <3>2. 0 + n <= Len(file)
      BY <1>1
    <3> QED
      BY <1>6, <3>1, <3>2 DEF Lies
  <2>2. file[n + 1] = [t |-> "hash", of |-> SubSeq(file, 1, n)]
    BY <1>5, <1>7
  <2> QED
    BY <1>1, <1>6, <1>8, <2>1, <2>2, SealedIs DEF FileOK
<1> QED
  BY <1>1, <1>3, <1>4, <1>6, <1>7, <1>8, <1>9

LEMMA DamageIsSeen ==
  ASSUME FileOK, HeaderGood
  PROVE  ~damaged /\ AllCells(Body)
<1>1. PICK b : FileFrom(b)
  BY DEF FileOK
<1>2. PICK s : s = Sealed(b)
  OBVIOUS
<1>3. PICK n \in Nat : n = Len(b)
  BY <1>1 DEF FileFrom, IsSeq
<1>4. /\ IsSeq(s) /\ Len(s) = n + 2
      /\ \A k \in 1..n : s[k] = b[k]
      /\ s[n + 1] = [t |-> "hash", of |-> b] /\ s[n + 2] = [t |-> "end"]
  BY <1>1, <1>2, <1>3, SealedCells DEF FileFrom
<1>5. PICK c : \E m \in Nat :
        /\ c = Body /\ m = FooterStart /\ m >= 2 /\ Len(file) = m + 2 /\ Len(c) = m
        /\ file[m + 1] = [t |-> "hash", of |-> c] /\ file[m + 2] = [t |-> "end"]
        /\ file = Sealed(c)
  BY GoodFile
<1>6. PICK m \in Nat :
        /\ c = Body /\ m = FooterStart /\ m >= 2 /\ Len(file) = m + 2 /\ Len(c) = m
        /\ file[m + 1] = [t |-> "hash", of |-> c] /\ file[m + 2] = [t |-> "end"]
        /\ file = Sealed(c)
  BY <1>5
<1>7. \A k \in 1..Len(s) : AnyCell(s[k])
  <2>1. AnyCell([t |-> "end"]) /\ AnyCell([t |-> "hash", of |-> b])
    BY DEF AnyCell, IsFooterCell
  <2>2. \A k \in 1..(n + 2) : k \in 1..n \/ k = n + 1 \/ k = n + 2
    OBVIOUS
  <2>3. \A k \in 1..n : AnyCell(b[k])
    BY <1>1, <1>3 DEF FileFrom, AllCells, AnyCell
  <2> QED
    BY <1>4, <2>1, <2>2, <2>3
<1>8. ~damaged
  <2> SUFFICES ASSUME damaged PROVE FALSE
    BY DEF FileOK
  <2>1. file \in Edits(s) /\ file # s
    BY <1>1, <1>2 DEF FileFrom
  <2>2. PICK p \in 1..Len(s) : EditAt(s, file, p)
    BY <1>4, <2>1, EditsAre
  <2>3. c # b
    BY <1>2, <1>6, <2>1
  <2>4. file[m + 1] # s[n + 1]
    BY <1>4, <1>6, <2>3, HashIs
  <2>5. ~IsCell(file[m + 1]) /\ ~IsCell(file[m + 2])
    <3>1. AnyCell(file[m + 1]) /\ AnyCell(file[m + 2])
      BY <1>6 DEF FileOK
    <3>2. file[m + 1].t = "hash" /\ file[m + 2].t = "end"
      BY <1>6
    <3> QED
      BY <3>1, <3>2, CellIs
  <2>6. p \in 1..n \/ p = n + 1 \/ p = n + 2
    BY <1>4
  <2>7. ASSUME NEW x \in Variants(s[p]) \cup {Zero, Space, Junk} PROVE IsCell(x)
    BY <1>7, <2>7, VariantsAre, PlainCells
  <2>8. CASE \E x \in Variants(s[p]) \cup {Zero, Space, Junk} : Replaced(s, file, p, x)
    <3>1. PICK x : IsCell(x) /\ Replaced(s, file, p, x)
      BY <2>7, <2>8
    <3>2. m = n /\ file[p] = x /\ \A k \in 1..Len(s) : k # p => file[k] = s[k]
      BY <1>4, <1>6, <3>1 DEF Replaced
    <3>3. CASE p \in 1..n
      BY <1>4, <2>4, <3>2, <3>3
    <3>4. CASE p = n + 1 \/ p = n + 2
      BY <2>5, <3>1, <3>2, <3>4
    <3> QED
      BY <2>6, <3>3, <3>4
  <2>9. CASE \E x \in {Zero, Space, Junk} : Inserted(s, file, p, x)
    <3>1. PICK x : IsCell(x) /\ Inserted(s, file, p, x)
      BY <2>9, PlainCells
    <3>2. m = n + 1 /\ file[p] = x /\ \A k \in p..Len(s) : file[k + 1] = s[k]
      BY <1>4, <1>6, <3>1 DEF Inserted
    <3>3. CASE p \in 1..(n + 1)
      <4>1. n + 1 \in p..Len(s)
        BY <1>4, <3>3
      <4>2. file[n + 1 + 1] = s[n + 1]
        BY <3>2, <4>1
      <4> QED
        BY <2>4, <3>2, <4>2
    <3>4. CASE p = n + 2
      <4>1. p = m + 1
        BY <3>2, <3>4
      <4> QED
        BY <2>5, <3>1, <3>2, <4>1
    <3> QED
      BY <2>6, <3>3, <3>4
  <2>10. CASE Removed(s, file, p)
    <3>1. /\ m + 1 = n /\ \A k \in 1..(p - 1) : file[k] = s[k]
          /\ \A k \in p..(Len(s) - 1) : file[k] = s[k + 1]
      BY <1>4, <1>6, <2>10 DEF Removed
    <3>2. CASE p \in 1..n
      <4>1. n \in p..(Len(s) - 1)
        BY <1>4, <3>2
      <4>2. file[n] = s[n + 1]
        BY <3>1, <4>1
      <4> QED
        BY <2>4, <3>1, <4>2
    <3>3. CASE p = n + 1
      <4>1. n \in 1..(p - 1) /\ n \in 1..n
        BY <3>1, <3>3
      <4>2. file[n] = b[n] /\ IsCell(b[n])
        BY <1>1, <1>3, <1>4, <3>1, <4>1 DEF FileFrom, AllCells
      <4> QED
        BY <2>5, <3>1, <4>2
    <3>4. CASE p = n + 2
      <4>1. n + 1 \in 1..(p - 1)
        BY <3>4
      <4>2. file[n + 1] = s[n + 1] /\ m + 2 = n + 1
        BY <3>1, <4>1
      <4>3. [t |-> "end"] = [t |-> "hash", of |-> b]
        BY <1>4, <1>6, <4>2
      <4>4. [t |-> "end"].t = "end" /\ [t |-> "hash", of |-> b].t = "hash"
        OBVIOUS
      <4> QED
        BY <4>3, <4>4
    <3> QED
      BY <2>6, <3>2, <3>3, <3>4
  <2> QED
    BY <2>2, <2>8, <2>9, <2>10 DEF EditAt
<1>9. AllCells(c)
  <2>1. s = Sealed(c) /\ IsSeq(c)
    BY <1>1, <1>2, <1>6, <1>8, GoodFile DEF FileFrom
  <2>2. n = m
    BY <1>4, <1>6, <2>1, SealedCells
  <2>3. s[n + 1] = [t |-> "hash", of |-> c]
    BY <1>6, <2>1, <2>2, SealedCells
  <2>4. b = c
    BY <1>4, <2>3, HashIs
  <2> QED
    BY <1>1, <2>4 DEF FileFrom
<1> QED
  BY <1>6, <1>8, <1>9

-----------------------------------------------------------------------------
\* What write makes is made of cells

LEMMA JoinedCells ==
  ASSUME NEW s, NEW t, IsSeq(s), IsSeq(t), AllCells(s), AllCells(t)
  PROVE  AllCells(s \o t)
<1>1. /\ Len(s \o t) = Len(s) + Len(t)
      /\ \A k \in 1..Len(s) : (s \o t)[k] = s[k]
      /\ \A k \in 1..Len(t) : (s \o t)[Len(s) + k] = t[k]
  BY Joined
<1>2. Len(s) \in Nat /\ Len(t) \in Nat
  BY DEF IsSeq
<1>3. ASSUME NEW k \in 1..Len(s \o t) PROVE IsCell((s \o t)[k])
  <2>1. CASE k \in 1..Len(s)
    BY <1>1, <2>1 DEF AllCells
  <2>2. CASE k \notin 1..Len(s)
    <3>1. PICK j \in 1..Len(t) : k = Len(s) + j
      <4>1. k - Len(s) \in 1..Len(t) /\ k = Len(s) + (k - Len(s))
        BY <1>1, <1>2, <2>2
      <4> QED
        BY <4>1
    <3> QED
      BY <1>1, <3>1 DEF AllCells
  <2> QED
    BY <2>1, <2>2
<1> QED
  BY <1>3 DEF AllCells

LEMMA PaddedCells ==
  ASSUME NEW s, IsSeq(s), Paddable(Len(s)), AllCells(s)
  PROVE  AllCells(Padded(s))
<1>1. PICK m \in Nat : m = Pad(Len(s)) - Len(s)
  BY PadIs DEF Paddable
<1>2. PICK z : z = [k \in 1..m |-> Zero]
  OBVIOUS
<1>3. IsSeq(z) /\ AllCells(z)
  BY <1>2, PlainCells DEF IsSeq, AllCells
<1>4. Padded(s) = s \o z
  BY <1>1, <1>2 DEF Padded
<1> QED
  BY <1>3, <1>4, JoinedCells

LEMMA FlattenedCells ==
  ASSUME NEW fs, NEW off, Parts(fs, off), \A i \in 1..Len(fs) : AllCells(fs[i])
  PROVE  AllCells(FlattenSeq(fs))
<1>1. PICK n \in Nat : n = Len(fs) /\ n # 0
  BY DEF Parts
<1>2. PICK h : Flattens(h, fs, n) /\ FlattenSeq(fs) = h[n]
  BY <1>1, FlattenIs
<1>3. \A i \in 1..n : h[i] = IF i = 1 THEN fs[i] ELSE h[i - 1] \o fs[i]
  BY <1>2 DEF Flattens
<1> DEFINE Good(k) == IsSeq(h[k]) /\ AllCells(h[k])
           T == {k \in Nat : k \in 1..n => Good(k)}
<1>4. 0 \in T
  OBVIOUS
<1>5. ASSUME NEW k \in Nat, k \in T PROVE k + 1 \in T
  <2> SUFFICES ASSUME k + 1 \in 1..n PROVE Good(k + 1)
    OBVIOUS
  <2>1. PICK j \in 1..n : j = k + 1
    OBVIOUS
  <2>2. h[j] = IF j = 1 THEN fs[j] ELSE h[j - 1] \o fs[j]
    BY <1>3
  <2>3. IsSeq(fs[j]) /\ AllCells(fs[j])
    BY <1>1 DEF Parts
  <2>4. CASE j = 1
    BY <2>1, <2>2, <2>3, <2>4
  <2>5. CASE j # 1
    <3>1. j - 1 = k /\ k \in 1..n
      BY <2>1, <2>5
    <3>2. Good(k) /\ h[j] = h[k] \o fs[j]
      BY <1>5, <2>2, <2>5, <3>1
    <3>3. IsSeq(h[k]) /\ AllCells(h[k])
      BY <3>2
    <3>4. IsSeq(h[k] \o fs[j]) /\ AllCells(h[k] \o fs[j])
      BY <2>3, <3>3, Joined, JoinedCells
    <3> QED
      BY <2>1, <3>2, <3>4
  <2> QED
    BY <2>4, <2>5
<1>6. Nat \subseteq T
  <2> HIDE DEF T
  <2> QED
    BY <1>4, <1>5, SetInduction
<1> QED
  BY <1>1, <1>2, <1>6

LEMMA StoredCells ==
  ASSUME NEW c, IsContainer(c), BodyLen(c) <= UsizeMax, AllCells(c.meta),
         \A i \in 1..Len(c.segments) : AllCells(c.segments[i].blob)
  PROVE  AllCells(BodyOf(c))
<1>1. PICK n \in Nat : n = Len(c.segments) /\ n # 0 /\ DOMAIN c.segments = 1..n
  BY DEF IsContainer, IsSeq
<1>2. PICK h, p : h = <<HeaderCell(c), Zero>> /\ p = Padded(c.meta)
  OBVIOUS
<1>3. PICK ts, to, bs, bo :
        /\ ts = [i \in DOMAIN c.segments |-> TableEntry(c, i)]
        /\ to = [i \in 1..(Len(c.segments) + 1) |-> 2 * (i - 1)]
        /\ bs = [i \in DOMAIN c.segments |-> Padded(c.segments[i].blob)]
        /\ bo = [i \in 1..(Len(c.segments) + 1) |-> BlobsBefore(c.segments, i)]
  OBVIOUS
<1>4. /\ Parts(ts, to) /\ Len(ts) = n
      /\ \A i \in 1..n : ts[i] = <<EntryCell(c.segments[i]), ExtentCell(c, i)>>
  BY <1>1, <1>3, TableParts
<1>5. Parts(bs, bo) /\ Len(bs) = n
  BY <1>1, <1>3, BlobParts
<1>6. \A x, y : IsCell(x) /\ IsCell(y) => AllCells(<<x, y>>)
  <2> SUFFICES ASSUME NEW x, NEW y, IsCell(x), IsCell(y) PROVE AllCells(<<x, y>>)
    OBVIOUS
  <2>1. PICK s : s = <<x, y>>
    OBVIOUS
  <2>2. Len(s) = 2 /\ s[1] = x /\ s[2] = y
    BY <2>1
  <2>3. \A k : k \in 1..2 <=> k = 1 \/ k = 2
    OBVIOUS
  <2>4. AllCells(s)
    BY <2>2, <2>3 DEF AllCells
  <2> QED
    BY <2>1, <2>4
<1>7. AllCells(h)
  <2>1. PICK e : e = HeaderCell(c)
    OBVIOUS
  <2>2. Len(c.segments) % (U32Max + 1) \in 0..U32Max /\ Len(c.meta) % (U32Max + 1) \in 0..U32Max
    <3>1. U32Max \in Nat
      BY ConstantsAre
    <3>2. \A x \in Nat : x % (U32Max + 1) \in 0..U32Max
      BY <3>1
    <3>3. Len(c.segments) \in Nat /\ Len(c.meta) \in Nat
      BY DEF IsContainer, IsSeq
    <3> QED
      BY <3>2, <3>3
  <2>3. IsHead(e)
    BY <2>1, <2>2 DEF HeaderCell, IsHead
  <2> QED
    BY <1>2, <1>6, <2>1, <2>3, PlainCells DEF IsCell
<1>8. IsSeq(h) /\ IsSeq(p) /\ AllCells(p)
  <2>1. 0 \in Nat /\ IsSeq(c.meta)
    BY DEF IsContainer
  <2> QED
    BY <1>2, <2>1, LiesPair, LiesPadded, PaddedCells DEF IsContainer
<1>9. \A i \in 1..n : AllCells(bs[i])
  BY <1>1, <1>3, PaddedCells DEF IsContainer
<1>10. \A i \in 1..n : AllCells(ts[i])
  <2> SUFFICES ASSUME NEW i \in 1..n PROVE AllCells(ts[i])
    OBVIOUS
  <2>1. IsEntry(EntryCell(c.segments[i]))
    BY DEF EntryCell, IsEntry
  <2>2. BlobOffset(c, i) \in 0..UsizeMax
    <3>1. PICK b : b = BodyOf(c)
      OBVIOUS
    <3>2. PICK g : g = [k \in 1..BodyLen(c) |-> Zero]
      OBVIOUS
    <3>3. BodyLen(c) \in Nat
      <4>1. n + 1 \in 1..(n + 1)
        OBVIOUS
      <4> QED
        BY <1>1, <4>1, OffsetsAre DEF BodyLen
    <3>4. IsSeq(g) /\ Len(g) = BodyLen(c)
      BY <3>2, <3>3 DEF IsSeq
    <3>5. IsSeq(b) /\ Len(b) = BodyLen(c)
      BY <3>1, <3>3, <3>4, BodyIs
    <3>6. Lies(b, b, 0)
      BY <3>5, LiesWhole
    <3>7. BodyLies(b, c)
      BY <3>1, <3>3, <3>5, <3>6, BodyIs
    <3>8. Lies(Padded(c.segments[i].blob), b, BlobOffset(c, i))
      BY <1>1, <3>7 DEF BodyLies
    <3>9. BlobOffset(c, i) \in Nat /\ Len(Padded(c.segments[i].blob)) \in Nat
      BY <1>1, OffsetsAre, LiesPadded DEF IsContainer, IsSeq
    <3>10. BlobOffset(c, i) <= BodyLen(c)
      BY <3>3, <3>5, <3>8, <3>9 DEF Lies
    <3> QED
      BY <3>3, <3>9, <3>10, ConstantsAre
  <2>3. Len(c.segments[i].blob) \in 0..UsizeMax
    BY <1>1, ConstantsAre DEF IsContainer, Paddable
  <2>4. IsExtent(ExtentCell(c, i))
    BY <2>2, <2>3 DEF ExtentCell, IsExtent
  <2>5. IsCell(EntryCell(c.segments[i])) /\ IsCell(ExtentCell(c, i))
    BY <2>1, <2>4 DEF IsCell
  <2> QED
    BY <1>4, <1>6, <2>5
<1>11. PICK u, v : u = FlattenSeq(ts) /\ v = FlattenSeq(bs)
  OBVIOUS
<1>12. AllCells(u) /\ AllCells(v)
  BY <1>4, <1>5, <1>9, <1>10, <1>11, FlattenedCells
<1>13. IsSeq(u) /\ IsSeq(v)
  <2>1. 0 \in Nat
    OBVIOUS
  <2> QED
    BY <1>4, <1>5, <1>8, <1>11, <2>1, LiesFlattened
<1>14. BodyOf(c) = h \o p \o u \o v
  BY <1>2, <1>3, <1>11 DEF BodyOf
<1>15. IsSeq(h \o p) /\ AllCells(h \o p)
  BY <1>7, <1>8, Joined, JoinedCells
<1>16. IsSeq(h \o p \o u) /\ AllCells(h \o p \o u)
  BY <1>12, <1>13, <1>15, Joined, JoinedCells
<1>17. AllCells(h \o p \o u \o v)
  BY <1>12, <1>13, <1>16, JoinedCells
<1> QED
  BY <1>14, <1>17

-----------------------------------------------------------------------------
\* The container assembled

LEMMA BlobIs ==
  ASSUME NEW i, NEW n \in Nat
  PROVE  /\ IsSeq(Blob(i, n)) /\ Len(Blob(i, n)) = n /\ AllCells(Blob(i, n))
         /\ \A k \in 1..n : Blob(i, n)[k] = [t |-> "blob", seg |-> i, part |-> k, of |-> n]
<1>1. PICK s : s = Blob(i, n)
  OBVIOUS
<1>2. s = [k \in 1..n |-> [t |-> "blob", seg |-> i, part |-> k, of |-> n]]
  BY <1>1 DEF Blob
<1>3. IsSeq(s) /\ Len(s) = n
  BY <1>2 DEF IsSeq
<1>4. \A k \in 1..n : s[k] = [t |-> "blob", seg |-> i, part |-> k, of |-> n]
  BY <1>2
<1>5. ASSUME NEW k \in 1..n PROVE IsCell(s[k])
  <2>1. PICK c : c = s[k]
    OBVIOUS
  <2>2. c = [t |-> "blob", seg |-> i, part |-> k, of |-> n]
    BY <1>4, <2>1
  <2>3. c.seg = i /\ c.part = k /\ c.of = n
    BY <2>2
  <2>4. IsText(c)
    BY <2>2, <2>3 DEF IsText
  <2> QED
    BY <2>1, <2>4 DEF IsCell
<1> QED
  BY <1>1, <1>3, <1>4, <1>5 DEF AllCells

LEMMA MetaIs ==
  ASSUME NEW g, NEW n \in Nat
  PROVE  /\ IsSeq(Meta(g, n)) /\ Len(Meta(g, n)) = n /\ AllCells(Meta(g, n))
         /\ \A k \in 1..n : Meta(g, n)[k] = [t |-> "meta", goal |-> g, part |-> k, of |-> n]
<1>1. PICK s : s = Meta(g, n)
  OBVIOUS
<1>2. s = [k \in 1..n |-> [t |-> "meta", goal |-> g, part |-> k, of |-> n]]
  BY <1>1 DEF Meta
<1>3. IsSeq(s) /\ Len(s) = n
  BY <1>2 DEF IsSeq
<1>4. \A k \in 1..n : s[k] = [t |-> "meta", goal |-> g, part |-> k, of |-> n]
  BY <1>2
<1>5. ASSUME NEW k \in 1..n PROVE IsCell(s[k])
  <2>1. PICK c : c = s[k]
    OBVIOUS
  <2>2. c = [t |-> "meta", goal |-> g, part |-> k, of |-> n]
    BY <1>4, <2>1
  <2>3. c.goal = g /\ c.part = k /\ c.of = n
    BY <2>2
  <2>4. IsText(c)
    BY <2>2, <2>3 DEF IsText
  <2> QED
    BY <2>1, <2>4 DEF IsCell
<1> QED
  BY <1>1, <1>3, <1>4, <1>5 DEF AllCells

\* What a container assembled holds: its segments are the path's.
Assembles(c, m, ls) ==
  /\ c = [root |-> Node(0).ref, machine |-> Seg(1).machine, clock |-> Seg(1).clock,
          epochs |-> EpochHashesEverywhere, meta |-> Meta(Node(NSegs).id, m),
          segments |-> c.segments]
  /\ IsSeq(c.segments) /\ Len(c.segments) = NSegs
  /\ \A i \in 1..NSegs :
       c.segments[i] = [node |-> Node(i).id, base |-> Seg(i).base, child |-> Seg(i).end,
                        hash |-> Seg(i).endHash, blob |-> Blob(i, ls[i])]

LEMMA AssemblyIs ==
  ASSUME IInv, path \in Paths, result.kind = "Container",
         NEW m \in MetaLens, NEW ls \in [1..NSegs -> BlobLens], NEW c, c = Assembly(m, ls)
  PROVE  /\ Assembles(c, m, ls)
         /\ NSegs \in Nat /\ NSegs # 0 /\ NSegs <= U32Max
         /\ m \in Nat /\ m # 0 /\ m <= U32Max /\ Len(c.meta) = m
         /\ \A i \in 1..NSegs : ls[i] \in Nat /\ ls[i] # 0
         /\ IsContainer(c) /\ AllCells(c.meta)
         /\ \A i \in 1..NSegs : AllCells(c.segments[i].blob)
<1>1. /\ stage = "entries" /\ NSegs > 0 /\ NSegs \in Nat /\ at = NSegs + 1
      /\ result.segments = entries /\ result.root = Node(0).ref
      /\ result.machine = Seg(1).machine /\ result.clock = Seg(1).clock
      /\ result.epochs = EpochHashesEverywhere /\ result.goal = Node(NSegs).id
  BY DEF IInv, Stopped, Typed, IsPath, NSegs
<1>2. Len(entries) = NSegs /\ \A i \in 1..NSegs : entries[i] = Entry(i)
  BY <1>1 DEF IInv, Swept
<1>3. NSegs <= U32Max
  BY EdgesAssumption DEF NSegs
<1>4. m \in Nat /\ m # 0 /\ m <= U32Max /\ Paddable(m)
  <2>1. m \in 1..U32Max /\ U32Max \in Nat
    BY LengthsAssumption, ConstantsAre
  <2> QED
    BY <2>1, ConstantsAre DEF Paddable
<1>5. \A i \in 1..NSegs : ls[i] \in Nat /\ ls[i] # 0 /\ Paddable(ls[i])
  <2> SUFFICES ASSUME NEW i \in 1..NSegs PROVE ls[i] \in Nat /\ ls[i] # 0 /\ Paddable(ls[i])
    OBVIOUS
  <2>1. PICK l : l = ls[i] /\ l \in 1..(UsizeMax \div 2)
    BY LengthsAssumption
  <2>2. UsizeMax \div 2 + Align - 1 <= UsizeMax /\ UsizeMax \div 2 \in Nat
    BY ConstantsAre
  <2>3. l \in Nat /\ l # 0 /\ l + Align - 1 <= UsizeMax
    BY <2>1, <2>2, ConstantsAre
  <2> QED
    BY <2>1, <2>3 DEF Paddable
<1>6. PICK ss : ss = c.segments
  OBVIOUS
<1>7. ss = [i \in 1..NSegs |->
             [node |-> result.segments[i].node, base |-> result.segments[i].base,
              child |-> result.segments[i].child, hash |-> result.segments[i].hash,
              blob |-> Blob(i, ls[i])]]
  BY <1>6 DEF Assembly
<1>8. IsSeq(ss) /\ Len(ss) = NSegs
  BY <1>1, <1>7 DEF IsSeq
<1>9. \A i \in 1..NSegs :
        ss[i] = [node |-> Node(i).id, base |-> Seg(i).base, child |-> Seg(i).end,
                 hash |-> Seg(i).endHash, blob |-> Blob(i, ls[i])]
  <2> SUFFICES ASSUME NEW i \in 1..NSegs
               PROVE  ss[i] = [node |-> Node(i).id, base |-> Seg(i).base, child |-> Seg(i).end,
                               hash |-> Seg(i).endHash, blob |-> Blob(i, ls[i])]
    OBVIOUS
  <2>1. result.segments[i] = [node |-> Node(i).id, base |-> Seg(i).base,
                              child |-> Seg(i).end, hash |-> Seg(i).endHash]
    BY <1>1, <1>2 DEF Entry
  <2>2. ss[i] = [node |-> result.segments[i].node, base |-> result.segments[i].base,
                 child |-> result.segments[i].child, hash |-> result.segments[i].hash,
                 blob |-> Blob(i, ls[i])]
    BY <1>7
  <2> QED
    BY <2>1, <2>2
<1>10. c = [root |-> Node(0).ref, machine |-> Seg(1).machine, clock |-> Seg(1).clock,
            epochs |-> EpochHashesEverywhere, meta |-> Meta(Node(NSegs).id, m),
            segments |-> ss]
  <2>1. c = [root |-> result.root, machine |-> result.machine, clock |-> result.clock,
             epochs |-> result.epochs, meta |-> Meta(result.goal, m), segments |-> ss]
    BY <1>6, <1>7 DEF Assembly
  <2> QED
    BY <1>1, <2>1
<1>11. Assembles(c, m, ls)
  BY <1>6, <1>8, <1>9, <1>10 DEF Assembles
<1>12. c.meta = Meta(Node(NSegs).id, m) /\ IsSeq(c.meta) /\ Len(c.meta) = m /\ AllCells(c.meta)
  BY <1>4, <1>10, MetaIs
<1>13. \A i \in 1..NSegs : /\ ss[i].blob = Blob(i, ls[i])
                           /\ IsSeq(ss[i].blob) /\ Len(ss[i].blob) = ls[i] /\ AllCells(ss[i].blob)
  <2> SUFFICES ASSUME NEW i \in 1..NSegs
               PROVE  /\ ss[i].blob = Blob(i, ls[i])
                      /\ IsSeq(ss[i].blob) /\ Len(ss[i].blob) = ls[i] /\ AllCells(ss[i].blob)
    OBVIOUS
  <2>1. ss[i].blob = Blob(i, ls[i])
    <3>1. PICK x, y : x = ss[i] /\ y = Blob(i, ls[i])
      OBVIOUS
    <3>2. x = [node |-> Node(i).id, base |-> Seg(i).base, child |-> Seg(i).end,
               hash |-> Seg(i).endHash, blob |-> y]
      BY <1>9, <3>1
    <3>3. x.blob = y
      BY <3>2
    <3> QED
      BY <3>1, <3>3
  <2>2. ls[i] \in Nat
    BY <1>5
  <2> QED
    BY <2>1, <2>2, BlobIs
<1>14. IsContainer(c)
  BY <1>1, <1>4, <1>5, <1>6, <1>8, <1>12, <1>13 DEF IsContainer
<1> QED
  BY <1>1, <1>3, <1>4, <1>5, <1>6, <1>11, <1>12, <1>13, <1>14

-----------------------------------------------------------------------------
\* What a good header says

LEMMA CellsIs ==
  ASSUME IsSeq(file), NEW a \in Nat, NEW b \in Nat, a <= b, b <= Len(file)
  PROVE  /\ IsSeq(Cells(a + 1, b)) /\ Len(Cells(a + 1, b)) = b - a
         /\ \A k \in 1..(b - a) : Cells(a + 1, b)[k] = file[a + k]
         /\ Lies(Cells(a + 1, b), file, a)
<1>1. PICK s : s = Cells(a + 1, b)
  OBVIOUS
<1>2. PICK n \in Nat : n = b - a /\ b - (a + 1) + 1 = n /\ a + n = b
  <2>1. b - a \in Nat /\ b - (a + 1) + 1 = b - a /\ a + (b - a) = b
    OBVIOUS
  <2> QED
    BY <2>1
<1>3. s = [k \in 1..n |-> Cell(a + 1 + k - 1)]
  BY <1>1, <1>2 DEF Cells
<1>4. IsSeq(s) /\ Len(s) = n
  BY <1>2, <1>3 DEF IsSeq
<1>5. ASSUME NEW k \in 1..n PROVE s[k] = file[a + k]
  <2>1. a + 1 + k - 1 = a + k /\ a + k \in 1..Len(file)
    BY <1>2 DEF IsSeq
  <2>2. s[k] = Cell(a + 1 + k - 1)
    BY <1>3
  <2>3. DOMAIN file = 1..Len(file)
    BY DEF IsSeq
  <2> QED
    BY <2>1, <2>2, <2>3 DEF Cell
<1>6. Lies(s, file, a)
  BY <1>2, <1>4, <1>5 DEF Lies
<1> QED
  BY <1>1, <1>2, <1>4, <1>5, <1>6

LEMMA HeaderIs ==
  ASSUME FileOK, HeaderGood
  PROVE  /\ IsHead(Header) /\ Header = file[1] /\ file[2] = Zero
         /\ Header.version = 2 /\ Header.flags \in {0, 1}
         /\ Count = Header.count /\ MetaLen = Header.metaLen
         /\ Number(Header, "flags") = Header.flags /\ Number(Header, "root") = Header.root
         /\ Text(Header, "machine") = Header.machine /\ Text(Header, "clock") = Header.clock
         /\ Count \in 1..U32Max /\ MetaLen \in 1..U32Max /\ Paddable(MetaLen)
         /\ TableOff \in Nat /\ TableOff = 2 + Pad(MetaLen) /\ 2 + MetaLen <= TableOff
         /\ BlobsOff \in Nat /\ BlobsOff = TableOff + 2 * Count /\ BlobsOff <= FooterStart
         /\ BlobsOff % Align = 0
<1>1. /\ FooterStart \in Nat /\ FooterStart >= 2 /\ Len(file) = FooterStart + 2
      /\ \A k \in 1..Len(file) : Cell(k) = file[k]
  BY GoodFile
<1>2. 1 \in 1..Len(file) /\ 2 \in 1..Len(file)
  BY <1>1
<1>3. PICK h : h = Header
  OBVIOUS
<1>4. h = file[1] /\ file[2] = Zero /\ h.t = "head" /\ AnyCell(h)
  BY <1>1, <1>2, <1>3 DEF Header, HeaderGood, FileOK
<1>5. IsHead(h)
  BY <1>4, CellIs
<1>6. DOMAIN h = {"t", "version", "flags", "count", "metaLen", "root", "machine", "clock"}
  BY <1>5, HeadIs
<1>7. /\ \A f \in {"version", "flags", "count", "metaLen", "root"} : Number(h, f) = h[f]
      /\ \A f \in {"machine", "clock"} : Text(h, f) = h[f]
  BY <1>6 DEF Number, Text
<1>8. /\ Count = h.count /\ MetaLen = h.metaLen /\ h.version = 2 /\ h.flags \in {0, 1}
      /\ Number(h, "flags") = h.flags /\ Number(h, "root") = h.root
      /\ Text(h, "machine") = h.machine /\ Text(h, "clock") = h.clock
  BY <1>3, <1>7 DEF Count, MetaLen, HeaderGood
<1>9. PICK n, m \in Nat : n = Count /\ m = MetaLen /\ n # 0 /\ n <= U32Max /\ m <= U32Max
  BY <1>5, <1>8, ConstantsAre DEF IsHead, HeaderGood
<1>10. m # 0
  <2> SUFFICES ASSUME m = 0 PROVE FALSE
    OBVIOUS
  <2>1. PICK c : c = MetaCells
    OBVIOUS
  <2>2. c = [k \in 1..0 |-> Cell(2 + 1 + k - 1)]
    <3>1. 2 + m - (2 + 1) + 1 = 0
      BY <1>9
    <3> QED
      BY <1>9, <2>1, <3>1, ConstantsAre DEF MetaCells, Cells
  <2>3. Len(c) = 0
    BY <2>2
  <2>4. \E k \in 1..Len(c) : TRUE
    BY <2>1 DEF HeaderGood, Parses
  <2> QED
    BY <2>3, <2>4
<1>11. Paddable(m)
  BY <1>9, ConstantsAre DEF Paddable
<1>12. PICK p \in Nat : p = Pad(m) /\ m <= p /\ p % Align = 0
  BY <1>11, PadIs
<1>13. TableOff = 2 + p /\ BlobsOff = 2 + p + n * 2
  BY <1>9, <1>12, ConstantsAre DEF TableOff, BlobsOff
<1>14. n * 2 = 2 * n
  OBVIOUS
<1>15. BlobsOff <= FooterStart
  BY <1>1, <1>13 DEF HeaderGood
<1>16. (2 + p + n * 2) % Align = 0
  <2>1. CASE Align = 1
    BY <2>1
  <2>2. CASE Align = 2
    <3>1. p % 2 = 0
      BY <1>12, <2>2
    <3>2. (2 + p + n * 2) % 2 = 0
      BY <3>1
    <3> QED
      BY <2>2, <3>2
  <2> QED
    BY <2>1, <2>2, ConstantsAre
<1> QED
  BY <1>3, <1>4, <1>5, <1>8, <1>9, <1>10, <1>11, <1>12, <1>13, <1>14, <1>15, <1>16

LEMMA MetaCellsAre ==
  ASSUME FileOK, HeaderGood
  PROVE  /\ IsSeq(MetaCells) /\ Len(MetaCells) = MetaLen
         /\ \E g : MetaCells = Meta(g, MetaLen)
         /\ Lies(Padded(MetaCells), file, 2)
<1>1. PICK m \in Nat : m = MetaLen /\ Paddable(m) /\ m # 0
  BY HeaderIs
<1>2. PICK t \in Nat : t = TableOff /\ t = 2 + Pad(m) /\ 2 + m <= t /\ t <= FooterStart
  <2>1. PICK t, n \in Nat : t = TableOff /\ n = Count
    BY HeaderIs
  <2>2. t = 2 + Pad(m) /\ 2 + m <= t /\ t + 2 * n <= FooterStart /\ FooterStart \in Nat
    BY <1>1, <2>1, HeaderIs, GoodFile
  <2> QED
    BY <2>1, <2>2
<1>3. /\ FooterStart \in Nat /\ Len(file) = FooterStart + 2 /\ IsSeq(file)
      /\ \A k \in 1..Len(file) : Cell(k) = file[k]
  BY GoodFile DEF FileOK
<1>4. PICK c : c = MetaCells
  OBVIOUS
<1>5. IsSeq(c) /\ Len(c) = m /\ Lies(c, file, 2)
  <2>1. PICK a, b \in Nat : a = 2 /\ b = 2 + m /\ a <= b /\ b <= Len(file) /\ b - a = m
    <3>1. 2 \in Nat /\ 2 + m \in Nat /\ 2 <= 2 + m /\ 2 + m <= Len(file) /\ 2 + m - 2 = m
      BY <1>2, <1>3
    <3> QED
      BY <3>1
  <2>2. /\ IsSeq(Cells(a + 1, b)) /\ Len(Cells(a + 1, b)) = b - a
        /\ Lies(Cells(a + 1, b), file, a)
    BY <1>3, <2>1, CellsIs
  <2>3. c = Cells(a + 1, b)
    BY <1>1, <1>4, <2>1, ConstantsAre DEF MetaCells
  <2> QED
    BY <2>1, <2>2, <2>3
<1>6. Pad(m) \in Nat /\ 2 + Pad(m) <= Len(file)
  BY <1>1, <1>2, <1>3, PadIs
<1>7. \A p \in (2 + m + 1)..(2 + Pad(m)) : file[p] = Zero
  <2> SUFFICES ASSUME NEW p \in (2 + m + 1)..(2 + Pad(m)) PROVE file[p] = Zero
    OBVIOUS
  <2>1. p \in 1..Len(file)
    BY <1>6, <1>3
  <2>2. p \in (HeaderLen + MetaLen + 1)..TableOff
    BY <1>1, <1>2, ConstantsAre
  <2>3. Cell(p) = Zero
    BY <2>2 DEF HeaderGood, AllZero
  <2> QED
    BY <1>3, <2>1, <2>3
<1>8. Lies(Padded(c), file, 2)
  <2>1. 2 \in Nat /\ Paddable(Len(c))
    BY <1>1, <1>5
  <2> QED
    BY <1>3, <1>5, <1>6, <1>7, <2>1, LiesPadded
<1>9. \E g : c = Meta(g, m)
  <2>1. Parses(c) /\ CanonicalJson(c)
    BY <1>4 DEF HeaderGood
  <2>2. PICK n \in 1..m : /\ SubSeq(c, 1, n) = Meta(Number(c[1], "goal"), n)
                          /\ \A k \in (n + 1)..m : c[k] = Space
    BY <1>5, <2>1 DEF Parses
  <2>3. n = m
    <3> SUFFICES ASSUME n # m PROVE FALSE
      OBVIOUS
    <3>1. n + 1 \in (n + 1)..m /\ n + 1 \in 1..m
      BY <1>1
    <3>2. DOMAIN c = 1..m
      BY <1>5 DEF IsSeq
    <3> QED
      BY <2>1, <2>2, <3>1, <3>2 DEF CanonicalJson
  <2>4. SubSeq(c, 1, m) = c
    <3>1. 0 \in Nat /\ 0 <= m /\ m <= Len(c) /\ 0 + 1 = 1 /\ m - 0 = m /\ \A k \in 1..m : 0 + k = k
      BY <1>1, <1>5
    <3>2. /\ IsSeq(SubSeq(c, 0 + 1, m)) /\ Len(SubSeq(c, 0 + 1, m)) = m - 0
          /\ \A k \in 1..(m - 0) : SubSeq(c, 0 + 1, m)[k] = c[0 + k]
      BY <1>1, <1>5, <3>1, CutIs
    <3>3. IsSeq(SubSeq(c, 1, m)) /\ Len(SubSeq(c, 1, m)) = Len(c)
      BY <1>5, <3>1, <3>2
    <3>4. \A k \in 1..Len(SubSeq(c, 1, m)) : SubSeq(c, 1, m)[k] = c[k]
      BY <1>5, <3>1, <3>2
    <3> QED
      BY <1>5, <3>3, <3>4, SameSeq
  <2> QED
    BY <2>2, <2>3, <2>4
<1> QED
  BY <1>1, <1>4, <1>5, <1>8, <1>9

-----------------------------------------------------------------------------
\* What has been read

\* Segment i of ss is what the file holds there, and is one of the path's.
Taken(ss, i) ==
  /\ ss[i] = [node |-> ss[i].node, base |-> ss[i].base, child |-> ss[i].child,
              hash |-> ss[i].hash, blob |-> ss[i].blob]
  /\ IsSeq(ss[i].blob) /\ Paddable(Len(ss[i].blob)) /\ Len(ss[i].blob) # 0
  /\ \E j \in 1..NSegs :
       /\ ss[i].blob = Blob(j, Len(ss[i].blob))
       /\ Seg(j).version \in SupportedVersions /\ Seg(j).structure = "Ok"
       /\ Seg(j).machine = Header.machine /\ Seg(j).clock = Header.clock
       /\ ss[i].base = Seg(j).base /\ ss[i].child = Seg(j).end /\ ss[i].hash = Seg(j).endHash
  /\ ss[i].base = IF i = 1 THEN Header.root ELSE ss[i - 1].child
  /\ file[TableOff + 2 * (i - 1) + 1] = EntryCell(ss[i])
  /\ file[TableOff + 2 * (i - 1) + 2]
       = [t |-> "extent", offset |-> BlobsOff + BlobsBefore(ss, i), len |-> Len(ss[i].blob)]
  /\ Lies(Padded(ss[i].blob), file, BlobsOff + BlobsBefore(ss, i))

\* The segments ss have been taken, and their blobs end at e.
Reads(ss, e) ==
  /\ HeaderGood
  /\ IsSeq(ss) /\ Len(ss) <= Count
  /\ \A i \in 1..Len(ss) : Taken(ss, i)
  /\ e = BlobsOff + BlobsBefore(ss, Len(ss) + 1) /\ e <= FooterStart

LEMMA ReadsAre ==
  ASSUME FileOK, NEW ss, NEW e, Reads(ss, e)
  PROVE  /\ e \in Nat /\ e % Align = 0 /\ Len(ss) \in Nat
         /\ \A i \in 1..(Len(ss) + 1) :
              BlobsBefore(ss, i) \in Nat /\ (BlobsOff + BlobsBefore(ss, i)) % Align = 0
<1>1. PICK b \in Nat : b = BlobsOff /\ b % Align = 0
  BY HeaderIs DEF Reads
<1>2. PICK n \in Nat : n = Len(ss)
  BY DEF Reads, IsSeq
<1>3. \A i \in 1..(n + 1) : BlobsBefore(ss, i) \in Nat /\ BlobsBefore(ss, i) % Align = 0
  <2>1. Len(ss) \in Nat /\ \A i \in 1..Len(ss) : Paddable(Len(ss[i].blob))
    BY <1>2 DEF Reads, Taken
  <2> QED
    BY <1>2, <2>1, BlobsBeforeNat
<1>4. ASSUME NEW i \in 1..(n + 1)
      PROVE  BlobsBefore(ss, i) \in Nat /\ (b + BlobsBefore(ss, i)) % Align = 0
  <2>1. PICK q \in Nat : q = BlobsBefore(ss, i) /\ q % Align = 0
    BY <1>3
  <2>2. CASE Align = 1
    BY <2>1, <2>2
  <2>3. CASE Align = 2
    <3>1. b % 2 = 0 /\ q % 2 = 0
      BY <1>1, <2>1, <2>3
    <3>2. (b + q) % 2 = 0
      BY <3>1
    <3> QED
      BY <2>1, <2>3, <3>2
  <2> QED
    BY <2>2, <2>3, ConstantsAre
<1>5. n + 1 \in 1..(n + 1)
  OBVIOUS
<1>6. PICK q \in Nat : q = BlobsBefore(ss, n + 1) /\ (b + q) % Align = 0
  BY <1>4, <1>5
<1>7. e = b + q
  BY <1>1, <1>2, <1>6 DEF Reads
<1> QED
  BY <1>1, <1>2, <1>4, <1>6, <1>7

\* The table entry of the segment in hand, and where its blob lies.
LEMMA EntryRead ==
  ASSUME FileOK, HeaderGood, Len(segments) \in Nat, expected \in Nat, expected <= FooterStart,
         ExtentGood
  PROVE  /\ EntryAt \in Nat /\ EntryAt = TableOff + 2 * Len(segments)
         /\ Refs = file[EntryAt + 1] /\ AnyCell(Refs)
         /\ BlobLen \in Nat
         /\ file[EntryAt + 2] = [t |-> "extent", offset |-> expected, len |-> BlobLen]
         /\ BlobEnd = expected + BlobLen /\ Paddable(expected + BlobLen)
         /\ expected + BlobLen <= FooterStart /\ Pad(expected + BlobLen) <= FooterStart
         /\ \A p \in (expected + BlobLen + 1)..Pad(expected + BlobLen) : file[p] = Zero
<1>1. PICK f \in Nat : /\ f = FooterStart /\ Len(file) = f + 2
                       /\ \A k \in 1..Len(file) : Cell(k) = file[k]
  BY GoodFile
<1>2. PICK t, n \in Nat : t = TableOff /\ n = Len(segments)
  BY HeaderIs
<1>3. PICK a \in Nat : a = EntryAt /\ a = t + 2 * n
  <2>1. t + n * 2 \in Nat /\ t + n * 2 = t + 2 * n
    OBVIOUS
  <2> QED
    BY <1>2, <2>1, ConstantsAre DEF EntryAt
<1>4. a + 2 <= Len(file)
  BY <1>1, <1>3, ConstantsAre DEF ExtentGood
<1>5. a + 1 \in 1..Len(file) /\ a + 2 \in 1..Len(file)
  BY <1>1, <1>4
<1>6. Refs = file[a + 1] /\ AnyCell(Refs)
  BY <1>1, <1>3, <1>5 DEF Refs, FileOK
<1>7. PICK c : c = file[a + 2] /\ c = Cell(EntryAt + 2) /\ AnyCell(c)
  BY <1>1, <1>3, <1>5 DEF FileOK
<1>8. PICK x \in Nat : x = expected /\ x <= f
  BY <1>1
<1>9. f < UsizeMax
  <2>1. f + 2 <= UsizeMax \div 2 /\ UsizeMax \in Nat
    BY <1>1, ConstantsAre DEF FileOK, Fits
  <2> QED
    BY <2>1
<1>10. "offset" \in DOMAIN c
  <2>1. Number(c, "offset") = x
    BY <1>7, <1>8 DEF ExtentGood
  <2>2. x # UsizeMax
    BY <1>8, <1>9, ConstantsAre
  <2> QED
    BY <2>1, <2>2 DEF Number
<1>11. IsExtent(c)
  BY <1>7, <1>10, CellIs
<1>12. DOMAIN c = {"t", "offset", "len"}
  BY <1>11, ExtentIs
<1>13. c.offset = x /\ BlobLen = c.len
  BY <1>7, <1>8, <1>12 DEF ExtentGood, Number, BlobLen
<1>14. PICK l \in Nat : l = BlobLen /\ c = [t |-> "extent", offset |-> x, len |-> l]
  BY <1>11, <1>13, ConstantsAre DEF IsExtent
<1>15. BlobEnd = x + l
  BY <1>8, <1>14 DEF BlobEnd
<1>16. Paddable(x + l)
  BY <1>15, ConstantsAre DEF Paddable, ExtentGood
<1>17. PICK p \in Nat : p = Pad(x + l)
  BY <1>16, PadIs
<1>18. x + l <= f /\ p <= f
  BY <1>1, <1>15, <1>17 DEF ExtentGood
<1>19. \A k \in (x + l + 1)..p : file[k] = Zero
  <2> SUFFICES ASSUME NEW k \in (x + l + 1)..p PROVE file[k] = Zero
    OBVIOUS
  <2>1. k \in 1..Len(file)
    BY <1>1, <1>18
  <2>2. Cell(k) = Zero
    BY <1>15, <1>17 DEF ExtentGood, AllZero
  <2> QED
    BY <1>1, <2>1, <2>2
<1> QED
  BY <1>1, <1>2, <1>3, <1>6, <1>7, <1>8, <1>14, <1>15, <1>16, <1>17, <1>18, <1>19

LEMMA Appended ==
  ASSUME NEW s, IsSeq(s), NEW x
  PROVE  /\ IsSeq(Append(s, x)) /\ Len(Append(s, x)) = Len(s) + 1
         /\ \A i \in 1..Len(s) : Append(s, x)[i] = s[i]
         /\ Append(s, x)[Len(s) + 1] = x
<1>1. PICK S : S = {s[k] : k \in 1..Len(s)} \cup {x}
  OBVIOUS
<1>2. s \in Seq(S) /\ x \in S
  BY <1>1, InSeq
<1>3. PICK t : t = Append(s, x)
  OBVIOUS
<1>4. /\ t \in Seq(S) /\ Len(t) = Len(s) + 1 /\ \A i \in 1..Len(s) : t[i] = s[i]
      /\ t[Len(s) + 1] = x
  BY <1>2, <1>3, AppendProperties
<1>5. IsSeq(t)
  BY <1>4, SeqIs
<1> QED
  BY <1>3, <1>4, <1>5

LEMMA BlobsBeforeAppend ==
  ASSUME NEW s, IsSeq(s), NEW x
  PROVE  \A i \in 1..(Len(s) + 1) : BlobsBefore(Append(s, x), i) = BlobsBefore(s, i)
<1>1. PICK t : t = Append(s, x)
  OBVIOUS
<1>2. PICK n \in Nat : n = Len(s)
  BY DEF IsSeq
<1>3. Len(t) = n + 1 /\ \A i \in 1..n : t[i] = s[i]
  BY <1>1, <1>2, Appended
<1>4. /\ Len(t) \in Nat /\ Len(s) \in Nat /\ n <= Len(t) /\ n <= Len(s)
      /\ \A i \in 1..n : t[i].blob = s[i].blob
  BY <1>2, <1>3
<1>5. \A i \in 1..(n + 1) : BlobsBefore(t, i) = BlobsBefore(s, i)
  BY <1>4, BlobsBeforeAgree
<1> QED
  BY <1>1, <1>2, <1>5

\* What was taken stays taken when another segment follows.
LEMMA StaysTaken ==
  ASSUME FileOK, NEW ss, NEW e, Reads(ss, e), NEW x, NEW tt, tt = Append(ss, x),
         NEW i \in 1..Len(ss)
  PROVE  Taken(tt, i)
<1>1. PICK n \in Nat : n = Len(ss)
  BY DEF Reads, IsSeq
<1>2. IsSeq(tt) /\ Len(tt) = n + 1 /\ \A k \in 1..n : tt[k] = ss[k]
  BY <1>1, Appended DEF Reads
<1>3. Taken(ss, i)
  BY DEF Reads
<1>4. tt[i] = ss[i] /\ (i # 1 => tt[i - 1] = ss[i - 1])
  BY <1>1, <1>2
<1>5. BlobsBefore(tt, i) = BlobsBefore(ss, i)
  <2>1. IsSeq(ss)
    BY DEF Reads
  <2>2. \A k \in 1..(Len(ss) + 1) : BlobsBefore(Append(ss, x), k) = BlobsBefore(ss, k)
    BY <2>1, BlobsBeforeAppend
  <2> QED
    BY <1>1, <2>2
<1> QED
  BY <1>3, <1>4, <1>5 DEF Taken

LEMMA TakesOne ==
  ASSUME FileOK, path \in Paths, Reads(segments, expected), Len(segments) < Count,
         ExtentGood, NEW blob, blob = Cells(expected + 1, BlobEnd), ContentGood(blob),
         NEW ss, ss = Append(segments,
                        [node |-> Number(Refs, "node"), base |-> Number(Refs, "base"),
                         child |-> Number(Refs, "child"), hash |-> Text(Refs, "hash"),
                         blob |-> blob])
  PROVE  Reads(ss, Pad(BlobEnd))
<1>1. PICK n, x \in Nat : n = Len(segments) /\ x = expected /\ x % Align = 0 /\ x <= FooterStart
  BY ReadsAre DEF Reads
<1>2. HeaderGood
  BY DEF Reads
<1>3. PICK l, a \in Nat :
        /\ l = BlobLen /\ a = EntryAt /\ a = TableOff + 2 * n
        /\ Refs = file[a + 1] /\ AnyCell(Refs)
        /\ file[a + 2] = [t |-> "extent", offset |-> x, len |-> l]
        /\ BlobEnd = x + l /\ Paddable(x + l)
        /\ x + l <= FooterStart /\ Pad(x + l) <= FooterStart
        /\ \A p \in (x + l + 1)..Pad(x + l) : file[p] = Zero
  BY <1>1, <1>2, EntryRead
<1>4. Pad(x + l) = x + Pad(l) /\ Paddable(l)
  BY <1>1, <1>3, PadAfter
<1>5. PICK f \in Nat : f = FooterStart /\ Len(file) = f + 2 /\ IsSeq(file)
  BY <1>2, GoodFile DEF FileOK
<1>6. IsSeq(blob) /\ Len(blob) = l /\ Lies(blob, file, x)
  <2>1. PICK b \in Nat : b = x + l /\ x <= b /\ b - x = l /\ b <= Len(file)
    <3>1. x + l \in Nat /\ x <= x + l /\ x + l - x = l /\ x + l <= Len(file)
      BY <1>3, <1>5
    <3> QED
      BY <3>1
  <2>2. IsSeq(Cells(x + 1, b)) /\ Len(Cells(x + 1, b)) = b - x /\ Lies(Cells(x + 1, b), file, x)
    BY <1>5, <2>1, CellsIs
  <2> QED
    BY <1>1, <1>3, <2>1, <2>2
<1>7. PICK p \in Nat : p = Pad(l)
  BY <1>4, PadIs
<1>8. Lies(Padded(blob), file, x)
  <2>1. x + p <= Len(file) /\ \A k \in (x + l + 1)..(x + p) : file[k] = Zero
    BY <1>3, <1>4, <1>5, <1>7
  <2>2. Paddable(Len(blob))
    BY <1>4, <1>6
  <2> QED
    BY <1>5, <1>6, <1>7, <2>1, <2>2, LiesPadded
<1>9. blob # <<>> /\ \E j \in 1..NSegs : blob = Blob(j, l)
  BY <1>6 DEF ContentGood, IsBlob
<1>10. l # 0
  <2> SUFFICES ASSUME l = 0 PROVE FALSE
    OBVIOUS
  <2>1. blob = [k \in 1..0 |-> blob[k]]
    BY <1>6 DEF IsSeq
  <2>2. IsSeq(<<>>) /\ Len(<<>>) = 0
    BY DEF IsSeq
  <2>3. \A k \in 1..Len(blob) : blob[k] = <<>>[k]
    BY <1>6
  <2>4. blob = <<>>
    BY <1>6, <2>2, <2>3, SameSeq
  <2> QED
    BY <1>9, <2>4
<1>11. PICK j \in 1..NSegs : blob = Blob(j, l)
  BY <1>9
<1>12. blob[1].seg = j
  <2>1. 1 \in 1..l
    BY <1>10
  <2>2. PICK y : y = blob[1]
    OBVIOUS
  <2>3. y = [t |-> "blob", seg |-> j, part |-> 1, of |-> l]
    BY <1>11, <2>1, <2>2, BlobIs
  <2>4. y.seg = j
    BY <2>3
  <2> QED
    BY <2>2, <2>4
<1>13. /\ Seg(j).version \in SupportedVersions /\ Seg(j).structure = "Ok"
       /\ Number(Refs, "base") = Seg(j).base /\ Number(Refs, "child") = Seg(j).end
       /\ Text(Refs, "hash") = Seg(j).endHash
       /\ Seg(j).machine = Header.machine /\ Seg(j).clock = Header.clock
  <2>1. Text(Header, "machine") = Header.machine /\ Text(Header, "clock") = Header.clock
    BY <1>2, HeaderIs
  <2> QED
    BY <1>12, <2>1 DEF ContentGood
<1>14. PICK r : r = Refs
  OBVIOUS
<1>15. "hash" \in DOMAIN r
  <2>1. Seg(j).endHash # "x"
    BY <1>11, EdgesAssumption DEF Seg, NSegs
  <2>2. Text(r, "hash") # "x"
    BY <1>13, <1>14, <2>1
  <2> QED
    BY <2>2 DEF Text
<1>16. IsEntry(r)
  BY <1>3, <1>14, <1>15, CellIs
<1>17. DOMAIN r = {"t", "node", "base", "child", "hash"}
  BY <1>16, EntryIs
<1>18. /\ Number(r, "node") = r.node /\ Number(r, "base") = r.base
       /\ Number(r, "child") = r.child /\ Text(r, "hash") = r.hash
  BY <1>17 DEF Number, Text
<1>19. PICK g : g = [node |-> r.node, base |-> r.base, child |-> r.child, hash |-> r.hash,
                     blob |-> blob]
  OBVIOUS
<1>20. g.node = r.node /\ g.base = r.base /\ g.child = r.child /\ g.hash = r.hash /\ g.blob = blob
  BY <1>19
<1>21. ss = Append(segments, g)
  BY <1>14, <1>18, <1>19
<1>22. /\ IsSeq(ss) /\ Len(ss) = n + 1 /\ ss[n + 1] = g
       /\ \A i \in 1..n : ss[i] = segments[i]
  BY <1>1, <1>21, Appended DEF Reads
<1>23. \A i \in 1..(n + 1) : BlobsBefore(ss, i) = BlobsBefore(segments, i)
  <2>1. IsSeq(segments)
    BY DEF Reads
  <2>2. \A i \in 1..(Len(segments) + 1) :
          BlobsBefore(Append(segments, g), i) = BlobsBefore(segments, i)
    BY <2>1, BlobsBeforeAppend
  <2> QED
    BY <1>1, <1>21, <2>2
<1>24. x = BlobsOff + BlobsBefore(ss, n + 1)
  <2>1. n + 1 \in 1..(n + 1)
    OBVIOUS
  <2> QED
    BY <1>1, <1>23, <2>1 DEF Reads
<1>25. r = EntryCell(g) /\ file[a + 1] = EntryCell(g)
  BY <1>3, <1>14, <1>16, <1>20 DEF IsEntry, EntryCell
<1>26. g.base = IF n + 1 = 1 THEN Header.root ELSE ss[n + 1 - 1].child
  <2>1. Adjacent(g.base)
    BY <1>14, <1>18, <1>20 DEF ContentGood
  <2>2. Number(Header, "root") = Header.root
    BY <1>2, HeaderIs
  <2>3. CASE n = 0
    <3>1. segments = <<>>
      <4>1. IsSeq(<<>>) /\ Len(<<>>) = 0 /\ IsSeq(segments)
        BY DEF IsSeq, Reads
      <4>2. \A k \in 1..Len(segments) : segments[k] = <<>>[k]
        BY <1>1, <2>3
      <4> QED
        BY <1>1, <2>3, <4>1, <4>2, SameSeq
    <3> QED
      BY <2>1, <2>2, <2>3, <3>1 DEF Adjacent
  <2>4. CASE n # 0
    <3>1. segments # <<>> /\ n + 1 # 1 /\ n + 1 - 1 = n /\ n \in 1..n
      BY <1>1, <2>4
    <3> QED
      BY <1>1, <1>22, <2>1, <3>1 DEF Adjacent
  <2> QED
    BY <2>3, <2>4
<1>27. Taken(ss, n + 1)
  <2>1. n + 1 - 1 = n /\ TableOff + 2 * (n + 1 - 1) = a
    BY <1>3
  <2>2. ss[n + 1] = g /\ g.blob = blob /\ Len(blob) = l
    BY <1>6, <1>20, <1>22
  <2>3. g = [node |-> g.node, base |-> g.base, child |-> g.child, hash |-> g.hash, blob |-> g.blob]
    BY <1>19, <1>20
  <2>4. /\ file[TableOff + 2 * (n + 1 - 1) + 1] = EntryCell(g)
        /\ file[TableOff + 2 * (n + 1 - 1) + 2]
             = [t |-> "extent", offset |-> BlobsOff + BlobsBefore(ss, n + 1), len |-> l]
        /\ Lies(Padded(blob), file, BlobsOff + BlobsBefore(ss, n + 1))
    BY <1>3, <1>8, <1>24, <1>25, <2>1
  <2>5. /\ blob = Blob(j, l) /\ g.base = Seg(j).base /\ g.child = Seg(j).end
        /\ g.hash = Seg(j).endHash
    BY <1>11, <1>13, <1>14, <1>18, <1>20
  <2>6. \E k \in 1..NSegs :
          /\ blob = Blob(k, l)
          /\ Seg(k).version \in SupportedVersions /\ Seg(k).structure = "Ok"
          /\ Seg(k).machine = Header.machine /\ Seg(k).clock = Header.clock
          /\ g.base = Seg(k).base /\ g.child = Seg(k).end /\ g.hash = Seg(k).endHash
    BY <1>13, <2>5
  <2>7. PICK i \in Nat : i = n + 1
    OBVIOUS
  <2>8. /\ ss[i] = g /\ g.blob = blob /\ Len(blob) = l
        /\ IsSeq(blob) /\ Paddable(l) /\ l # 0
        /\ g.base = IF i = 1 THEN Header.root ELSE ss[i - 1].child
    <3>1. g.base = IF i = 1 THEN Header.root ELSE ss[i - 1].child
      <4>1. n + 1 = 1 <=> i = 1
        BY <2>7
      <4>2. n + 1 - 1 = i - 1
        BY <2>7
      <4>3. CASE i = 1
        BY <1>26, <4>1, <4>3
      <4>4. CASE i # 1
        BY <1>26, <4>1, <4>2, <4>4
      <4> QED
        BY <4>3, <4>4
    <3>2. ss[i] = g /\ g.blob = blob /\ Len(blob) = l
      BY <2>2, <2>7
    <3> QED
      BY <1>4, <1>6, <1>10, <3>1, <3>2
  <2>9. /\ file[TableOff + 2 * (i - 1) + 1] = EntryCell(g)
        /\ file[TableOff + 2 * (i - 1) + 2]
             = [t |-> "extent", offset |-> BlobsOff + BlobsBefore(ss, i), len |-> l]
        /\ Lies(Padded(blob), file, BlobsOff + BlobsBefore(ss, i))
    BY <2>4, <2>7
  <2>10. Taken(ss, i)
    BY <2>3, <2>6, <2>8, <2>9 DEF Taken
  <2> QED
    BY <2>7, <2>10
<1>28. \A i \in 1..(n + 1) : Taken(ss, i)
  <2>1. \A i \in 1..n : Taken(ss, i)
    BY <1>1, <1>21, StaysTaken
  <2>2. \A i \in 1..(n + 1) : i \in 1..n \/ i = n + 1
    OBVIOUS
  <2> QED
    BY <1>27, <2>1, <2>2
<1>29. Pad(BlobEnd) = BlobsOff + BlobsBefore(ss, n + 1 + 1)
  <2>1. BlobsBefore(ss, n + 1 + 1) = BlobsBefore(ss, n + 1) + p
    <3>1. n + 1 \in 1..Len(ss) /\ Len(ss) \in Nat
      BY <1>22
    <3>2. BlobsBefore(ss, n + 1 + 1) = BlobsBefore(ss, n + 1) + Pad(Len(ss[n + 1].blob))
      BY <3>1, BlobsBeforeIs
    <3> QED
      BY <1>6, <1>7, <1>20, <1>22, <3>2
  <2>2. PICK b, q \in Nat : b = BlobsOff /\ q = BlobsBefore(ss, n + 1)
    <3>1. n + 1 \in 1..(n + 1)
      OBVIOUS
    <3> QED
      BY <1>1, <1>2, <1>23, <3>1, HeaderIs, ReadsAre
  <2>3. Pad(BlobEnd) = x + p /\ x = b + q
    BY <1>3, <1>4, <1>7, <1>24, <2>2
  <2>4. x + p = b + (q + p)
    BY <2>2, <2>3
  <2> QED
    BY <2>1, <2>2, <2>3, <2>4
<1>30. Len(ss) <= Count /\ Pad(BlobEnd) <= FooterStart
  <2>1. Count \in Nat /\ n < Count
    BY <1>1, <1>2, HeaderIs, ConstantsAre
  <2> QED
    BY <1>3, <1>22, <2>1
<1> QED
  BY <1>2, <1>22, <1>28, <1>29, <1>30 DEF Reads

\* The segment of the path a blob taken holds.
LEMMA TakenIs ==
  ASSUME FileOK, NEW ss, NEW e, Reads(ss, e), NEW i \in 1..Len(ss)
  PROVE  /\ ss[i].blob[1].seg \in 1..NSegs /\ ss[i].blob[1].of = Len(ss[i].blob)
         /\ ss[i].blob = Blob(ss[i].blob[1].seg, Len(ss[i].blob))
         /\ Seg(ss[i].blob[1].seg).version \in SupportedVersions
         /\ Seg(ss[i].blob[1].seg).structure = "Ok"
         /\ Seg(ss[i].blob[1].seg).machine = Header.machine
         /\ Seg(ss[i].blob[1].seg).clock = Header.clock
         /\ ss[i].base = Seg(ss[i].blob[1].seg).base
         /\ ss[i].child = Seg(ss[i].blob[1].seg).end
         /\ ss[i].hash = Seg(ss[i].blob[1].seg).endHash
         /\ ss[i].base = IF i = 1 THEN Header.root ELSE ss[i - 1].child
<1>1. Taken(ss, i)
  BY DEF Reads
<1>2. PICK b : b = ss[i].blob
  OBVIOUS
<1>3. PICK l \in Nat : l = Len(b) /\ l # 0
  BY <1>1, <1>2 DEF Taken, Paddable
<1>4. PICK j \in 1..NSegs :
        /\ b = Blob(j, l)
        /\ Seg(j).version \in SupportedVersions /\ Seg(j).structure = "Ok"
        /\ Seg(j).machine = Header.machine /\ Seg(j).clock = Header.clock
        /\ ss[i].base = Seg(j).base /\ ss[i].child = Seg(j).end /\ ss[i].hash = Seg(j).endHash
  BY <1>1, <1>2, <1>3 DEF Taken
<1>5. b[1].seg = j /\ b[1].of = l
  <2>1. 1 \in 1..l
    BY <1>3
  <2>2. PICK y : y = b[1]
    OBVIOUS
  <2>3. y = [t |-> "blob", seg |-> j, part |-> 1, of |-> l]
    BY <1>4, <2>1, <2>2, BlobIs
  <2>4. y.seg = j /\ y.of = l
    BY <2>3
  <2> QED
    BY <2>2, <2>4
<1>6. ss[i].base = IF i = 1 THEN Header.root ELSE ss[i - 1].child
  BY <1>1 DEF Taken
<1> QED
  BY <1>2, <1>3, <1>4, <1>5, <1>6

LEMMA ReadsReplay ==
  ASSUME FileOK, Reads(segments, expected)
  PROVE  AcceptedIsReplayable
<1>1. DOMAIN segments = 1..Len(segments) /\ Len(segments) \in Nat
  BY DEF Reads, IsSeq
<1>2. ASSUME NEW i \in 1..Len(segments)
      PROVE  Seg(segments[i].blob[1].seg).base
               = IF i = 1 THEN Header.root ELSE Seg(segments[i - 1].blob[1].seg).end
  <2>1. /\ segments[i].base = Seg(segments[i].blob[1].seg).base
        /\ segments[i].base = IF i = 1 THEN Header.root ELSE segments[i - 1].child
    BY TakenIs
  <2>2. CASE i = 1
    BY <2>1, <2>2
  <2>3. CASE i # 1
    <3>1. i - 1 \in 1..Len(segments)
      BY <1>1, <2>3
    <3>2. segments[i - 1].child = Seg(segments[i - 1].blob[1].seg).end
      BY <3>1, TakenIs
    <3> QED
      BY <2>1, <2>3, <3>2
  <2> QED
    BY <2>2, <2>3
<1> QED
  BY <1>1, <1>2, TakenIs DEF AcceptedIsReplayable

\* What an accepted file is written of.
LEMMA ReadsCanonical ==
  ASSUME FileOK, Reads(segments, FooterStart), Len(segments) = Count,
         (Number(Header, "flags") = 1) <=> AllEpochs
  PROVE  file = Stored(Container)
<1>1. PICK n, f \in Nat : n = Len(segments) /\ n # 0 /\ n <= U32Max /\ f = FooterStart /\ n = Count
  BY HeaderIs, ReadsAre, ConstantsAre DEF Reads
<1>2. PICK m \in Nat : m = MetaLen /\ m <= U32Max /\ Paddable(m)
  BY HeaderIs, ConstantsAre DEF Reads
<1>3. PICK c : c = Container
  OBVIOUS
<1>4. c.meta = MetaCells /\ c.segments = segments
  BY <1>3 DEF Container
<1>5. IsSeq(MetaCells) /\ Len(MetaCells) = m /\ Lies(Padded(MetaCells), file, 2)
  BY <1>2, MetaCellsAre DEF Reads
<1>6. IsContainer(c)
  BY <1>1, <1>2, <1>4, <1>5 DEF IsContainer, Reads, Taken
<1>7. PICK h : h = Header
  OBVIOUS
<1>8. /\ IsHead(h) /\ h = file[1] /\ file[2] = Zero /\ h.version = 2 /\ h.flags \in {0, 1}
      /\ h.count = n /\ h.metaLen = m
      /\ h.flags = 1 <=> AllEpochs
  BY <1>1, <1>2, <1>7, HeaderIs DEF Reads
<1>9. n % (U32Max + 1) = n /\ m % (U32Max + 1) = m
  BY <1>1, <1>2, ConstantsAre
<1>10. HeaderCell(c) = h
  <2>1. /\ c.root = h.root /\ c.machine = h.machine /\ c.clock = h.clock
        /\ c.epochs = AllEpochs
    BY <1>3, <1>7 DEF Container
  <2>2. h.flags = IF c.epochs THEN 1 ELSE 0
    BY <1>8, <2>1
  <2>3. HeaderCell(c) = [t |-> "head", version |-> 2, flags |-> h.flags, count |-> n,
                         metaLen |-> m, root |-> h.root, machine |-> h.machine,
                         clock |-> h.clock]
    BY <1>1, <1>4, <1>5, <1>9, <2>1, <2>2 DEF HeaderCell
  <2> QED
    BY <1>8, <2>3 DEF IsHead
<1>11. PICK t, b \in Nat : t = TableOff /\ b = BlobsOff /\ t = 2 + Pad(m) /\ b = t + 2 * n
  BY <1>1, <1>2, HeaderIs DEF Reads
<1>12. \A i \in 1..(n + 1) : TableAt(c, i) = t + 2 * (i - 1)
                             /\ BlobOffset(c, i) = b + BlobsBefore(segments, i)
  <2>1. \A i : TableAt(c, i) = 2 + Pad(m) + 2 * (i - 1)
    BY <1>4, <1>5, ConstantsAre DEF TableAt
  <2>2. \A i : BlobOffset(c, i) = 2 + Pad(m) + n * 2 + BlobsBefore(segments, i)
    BY <1>1, <1>4, <1>5, ConstantsAre DEF BlobOffset
  <2>3. n * 2 = 2 * n
    OBVIOUS
  <2> QED
    BY <1>11, <2>1, <2>2, <2>3
<1>13. BodyLen(c) = f
  <2>1. n + 1 \in 1..(n + 1)
    OBVIOUS
  <2>2. FooterStart = BlobsOff + BlobsBefore(segments, n + 1)
    BY <1>1 DEF Reads
  <2> QED
    BY <1>1, <1>4, <1>11, <1>12, <2>1, <2>2 DEF BodyLen
<1>14. BodyLies(file, c)
  <2>1. ASSUME NEW i \in 1..n
        PROVE  /\ file[TableAt(c, i) + 1] = EntryCell(c.segments[i])
               /\ file[TableAt(c, i) + 2] = ExtentCell(c, i)
               /\ Lies(Padded(c.segments[i].blob), file, BlobOffset(c, i))
    <3>1. Taken(segments, i)
      BY <1>1 DEF Reads
    <3>2. /\ TableAt(c, i) = TableOff + 2 * (i - 1)
          /\ BlobOffset(c, i) = BlobsOff + BlobsBefore(segments, i)
      BY <1>11, <1>12
    <3> QED
      BY <1>4, <3>1, <3>2 DEF Taken, ExtentCell
  <2> QED
    BY <1>1, <1>4, <1>5, <1>8, <1>10, <2>1 DEF BodyLies
<1>15. /\ Len(file) = f + 2
       /\ file[f + 1] = [t |-> "hash", of |-> SubSeq(file, 1, f)]
       /\ file[f + 2] = [t |-> "end"]
  <2>1. Body = SubSeq(file, 1, f)
    BY <1>1, ConstantsAre DEF Body, FooterStart
  <2>2. HeaderGood
    BY DEF Reads
  <2> QED
    BY <1>1, <2>1, <2>2, GoodFile
<1>16. file = Stored(c)
  BY <1>6, <1>13, <1>14, <1>15, StoredIs DEF FileOK
<1> QED
  BY <1>3, <1>16

-----------------------------------------------------------------------------
\* The assembled container is read back

LEMMA InBody ==
  ASSUME NEW c, IsContainer(c)
  PROVE  /\ BodyLen(c) \in Nat /\ TableAt(c, Len(c.segments) + 1) <= BodyLen(c)
         /\ \A i \in 1..Len(c.segments) : BlobOffset(c, i + 1) <= BodyLen(c)
<1>1. PICK n \in Nat : n = Len(c.segments)
  BY DEF IsContainer, IsSeq
<1>2. BodyLen(c) \in Nat /\ TableAt(c, n + 1) <= BodyLen(c)
  <2>1. n + 1 \in 1..(n + 1)
    OBVIOUS
  <2> QED
    BY <1>1, <2>1, OffsetsAre DEF BodyLen
<1>3. ASSUME NEW i \in 1..n PROVE BlobOffset(c, i + 1) <= BodyLen(c)
  <2>1. PICK b : b = BodyOf(c)
    OBVIOUS
  <2>2. PICK g : g = [k \in 1..BodyLen(c) |-> Zero]
    OBVIOUS
  <2>3. IsSeq(g) /\ Len(g) = BodyLen(c)
    BY <1>2, <2>2 DEF IsSeq
  <2>4. IsSeq(b) /\ Len(b) = BodyLen(c)
    BY <1>2, <2>1, <2>3, BodyIs
  <2>5. Lies(b, b, 0)
    BY <2>4, LiesWhole
  <2>6. BodyLies(b, c)
    BY <1>2, <2>1, <2>4, <2>5, BodyIs
  <2>7. Lies(Padded(c.segments[i].blob), b, BlobOffset(c, i))
    BY <1>1, <2>6 DEF BodyLies
  <2>8. Len(Padded(c.segments[i].blob)) = Pad(Len(c.segments[i].blob))
    BY <1>1, LiesPadded DEF IsContainer
  <2>9. BlobOffset(c, i + 1) = BlobOffset(c, i) + Pad(Len(c.segments[i].blob))
    BY <1>1, OffsetsAre
  <2> QED
    BY <2>4, <2>7, <2>8, <2>9 DEF Lies
<1> QED
  BY <1>1, <1>2, <1>3

\* The file is as write made it of the container assembled.
Wrote(c, m, ls) ==
  /\ path \in Paths /\ IInv /\ result.kind = "Container" /\ FileOK
  /\ m \in MetaLens /\ ls \in [1..NSegs -> BlobLens]
  /\ c = Assembly(m, ls) /\ file = Stored(c)

LEMMA WroteIs ==
  ASSUME NEW c, NEW m, NEW ls, Wrote(c, m, ls)
  PROVE  /\ Assembles(c, m, ls) /\ IsContainer(c)
         /\ NSegs \in Nat /\ NSegs # 0 /\ Len(c.segments) = NSegs
         /\ m \in Nat /\ m # 0 /\ Len(c.meta) = m
         /\ \A i \in 1..NSegs : ls[i] \in Nat /\ ls[i] # 0
         /\ FooterStart = BodyLen(c) /\ BodyLen(c) \in Nat /\ Len(file) = BodyLen(c) + 2
         /\ BodyLies(file, c)
         /\ file[BodyLen(c) + 1] = [t |-> "hash", of |-> Body]
         /\ file[BodyLen(c) + 2] = [t |-> "end"]
         /\ Header = [t |-> "head", version |-> 2,
                      flags |-> IF EpochHashesEverywhere THEN 1 ELSE 0, count |-> NSegs,
                      metaLen |-> m, root |-> Node(0).ref, machine |-> Seg(1).machine,
                      clock |-> Seg(1).clock]
         /\ TableOff = TableAt(c, 1) /\ TableOff = 2 + Pad(m)
         /\ BlobsOff = TableAt(c, NSegs + 1)
         /\ Count = NSegs /\ MetaLen = m
         /\ \A k \in 1..Len(file) : Cell(k) = file[k]
<1>1. /\ Assembles(c, m, ls)
      /\ NSegs \in Nat /\ NSegs # 0 /\ NSegs <= U32Max
      /\ m \in Nat /\ m # 0 /\ m <= U32Max /\ Len(c.meta) = m
      /\ \A i \in 1..NSegs : ls[i] \in Nat /\ ls[i] # 0
      /\ IsContainer(c)
  BY AssemblyIs DEF Wrote
<1>2. Len(c.segments) = NSegs
  BY <1>1 DEF Assembles
<1>3. PICK f \in Nat : f = BodyLen(c)
  BY <1>1, InBody
<1>4. /\ Len(file) = f + 2 /\ BodyLies(file, c)
      /\ file[f + 1] = [t |-> "hash", of |-> SubSeq(file, 1, f)]
      /\ file[f + 2] = [t |-> "end"]
  BY <1>1, <1>3, StoredIs DEF Wrote, FileOK
<1>5. FooterStart = f
  BY <1>3, <1>4, ConstantsAre DEF FooterStart
<1>6. Body = SubSeq(file, 1, f)
  BY <1>5 DEF Body, FooterStart
<1>7. DOMAIN file = 1..Len(file)
  BY DEF Wrote, FileOK, IsSeq
<1>8. \A k \in 1..Len(file) : Cell(k) = file[k]
  BY <1>7 DEF Cell
<1>9. PICK h : h = Header
  OBVIOUS
<1>10. h = [t |-> "head", version |-> 2,
            flags |-> IF EpochHashesEverywhere THEN 1 ELSE 0, count |-> NSegs,
            metaLen |-> m, root |-> Node(0).ref, machine |-> Seg(1).machine,
            clock |-> Seg(1).clock]
  <2>1. 1 \in 1..Len(file)
    BY <1>3, <1>4
  <2>2. h = HeaderCell(c)
    BY <1>4, <1>8, <1>9, <2>1 DEF Header, BodyLies
  <2>3. NSegs % (U32Max + 1) = NSegs /\ m % (U32Max + 1) = m
    BY <1>1, ConstantsAre
  <2>4. PICK e, me : e = EpochHashesEverywhere /\ me = Meta(Node(NSegs).id, m)
    OBVIOUS
  <2>5. PICK ss : ss = c.segments
    OBVIOUS
  <2>6. c = [root |-> Node(0).ref, machine |-> Seg(1).machine, clock |-> Seg(1).clock,
             epochs |-> e, meta |-> me, segments |-> ss]
    BY <1>1, <2>4, <2>5 DEF Assembles
  <2>7. /\ c.root = Node(0).ref /\ c.machine = Seg(1).machine /\ c.clock = Seg(1).clock
        /\ c.epochs = e
    BY <2>6
  <2>8. HeaderCell(c)
          = [t |-> "head", version |-> 2, flags |-> IF e THEN 1 ELSE 0, count |-> NSegs,
             metaLen |-> m, root |-> Node(0).ref, machine |-> Seg(1).machine,
             clock |-> Seg(1).clock]
    BY <1>1, <1>2, <2>3, <2>7 DEF HeaderCell
  <2> QED
    BY <2>2, <2>4, <2>8
<1>11. Count = NSegs /\ MetaLen = m
  <2>1. h.count = NSegs /\ h.metaLen = m /\ "count" \in DOMAIN h /\ "metaLen" \in DOMAIN h
    BY <1>10
  <2> QED
    BY <1>9, <2>1 DEF Count, MetaLen, Number
<1>12. TableOff = 2 + Pad(m)
  BY <1>11, ConstantsAre DEF TableOff
<1>13. TableOff = TableAt(c, 1)
  <2>1. 2 * (1 - 1) = 0
    OBVIOUS
  <2>2. PICK p \in Nat : p = Pad(m)
    BY <1>1, PadIs DEF IsContainer
  <2>3. TableAt(c, 1) = 2 + p + 2 * (1 - 1)
    BY <1>1, <2>2, ConstantsAre DEF TableAt
  <2> QED
    BY <1>12, <2>1, <2>2, <2>3
<1>14. BlobsOff = TableAt(c, NSegs + 1)
  <2>1. PICK p \in Nat : p = Pad(m)
    BY <1>1, PadIs DEF IsContainer
  <2>2. TableAt(c, NSegs + 1) = 2 + p + 2 * (NSegs + 1 - 1)
    BY <1>1, <2>1, ConstantsAre DEF TableAt
  <2>3. BlobsOff = 2 + p + NSegs * 2
    BY <1>11, <1>12, <2>1, ConstantsAre DEF BlobsOff
  <2> QED
    BY <1>1, <2>2, <2>3
<1> QED
  BY <1>1, <1>2, <1>3, <1>4, <1>5, <1>6, <1>8, <1>9, <1>10, <1>11, <1>12, <1>13, <1>14

\* Every check of the header passes.
LEMMA WroteHeader ==
  ASSUME NEW c, NEW m, NEW ls, Wrote(c, m, ls)
  PROVE  HeaderGood /\ MetaCells = c.meta
<1>1. PICK f \in Nat : /\ f = FooterStart /\ f = BodyLen(c) /\ Len(file) = f + 2
                       /\ file[f + 1] = [t |-> "hash", of |-> Body]
                       /\ file[f + 2] = [t |-> "end"] /\ BodyLies(file, c)
                       /\ \A k \in 1..Len(file) : Cell(k) = file[k]
  BY WroteIs
<1>2. PICK n \in Nat : n = NSegs /\ n # 0 /\ n = Len(c.segments) /\ n = Count
  BY WroteIs
<1>3. m \in Nat /\ m # 0 /\ m = MetaLen /\ Len(c.meta) = m /\ IsContainer(c) /\ Assembles(c, m, ls)
  BY WroteIs
<1>4. IsSeq(c.meta) /\ Paddable(m)
  BY <1>3 DEF IsContainer
<1>5. PICK p \in Nat : p = Pad(m) /\ m <= p
  BY <1>4, PadIs
<1>6. TableOff = 2 + p /\ BlobsOff = 2 + p + 2 * n
  <2>1. TableOff = 2 + p /\ BlobsOff = TableAt(c, n + 1)
    BY <1>2, <1>5, WroteIs
  <2>2. TableAt(c, n + 1) = 2 + p + 2 * (n + 1 - 1)
    BY <1>3, <1>5, ConstantsAre DEF TableAt
  <2> QED
    BY <2>1, <2>2
<1>7. BlobsOff <= f
  BY <1>1, <1>2, <1>3, InBody, WroteIs
<1>8. f + 2 <= UsizeMax \div 2 /\ UsizeMax \div 2 <= UsizeMax /\ UsizeMax \div 2 \in Nat
  BY <1>1, ConstantsAre DEF Wrote, FileOK, Fits
<1>9. /\ 1 \in 1..Len(file) /\ 2 \in 1..Len(file) /\ f + 1 \in 1..Len(file)
      /\ Len(file) \in 1..Len(file) /\ Len(file) = f + 2
  BY <1>1
<1>10. /\ Header.t = "head" /\ Number(Header, "version") = 2 /\ Number(Header, "flags") \in {0, 1}
  <2>1. PICK h : h = Header
    OBVIOUS
  <2>2. PICK r, a, k, fl :
          /\ fl \in {0, 1}
          /\ h = [t |-> "head", version |-> 2, flags |-> fl, count |-> NSegs, metaLen |-> m,
                  root |-> r, machine |-> a, clock |-> k]
    <3>1. PICK fl \in {0, 1} : fl = IF EpochHashesEverywhere THEN 1 ELSE 0
      OBVIOUS
    <3>2. PICK r, a, k : r = Node(0).ref /\ a = Seg(1).machine /\ k = Seg(1).clock
      OBVIOUS
    <3>3. h = [t |-> "head", version |-> 2, flags |-> fl, count |-> NSegs, metaLen |-> m,
               root |-> r, machine |-> a, clock |-> k]
      BY <2>1, <3>1, <3>2, WroteIs
    <3> QED
      BY <3>3
  <2> QED
    BY <2>1, <2>2 DEF Number
<1>11. Cell(2) = Zero /\ Cell(Len(file)).t = "end" /\ Cell(f + 1) = [t |-> "hash", of |-> Body]
  BY <1>1, <1>9 DEF BodyLies
<1>12. Lies(Padded(c.meta), file, 2)
  BY <1>1 DEF BodyLies
<1>13. /\ Lies(c.meta, file, 2)
       /\ \A k \in (2 + m + 1)..(2 + p) : file[k] = Zero
  <2>1. 2 \in Nat /\ IsSeq(file) /\ Paddable(Len(c.meta))
    BY <1>3, <1>4 DEF Wrote, FileOK
  <2> QED
    BY <1>3, <1>4, <1>5, <1>12, <2>1, LiesPadded
<1>14. AllZero(HeaderLen + MetaLen + 1, TableOff)
  <2>1. ASSUME NEW k \in (2 + m + 1)..(2 + p) PROVE Cell(k) = Zero
    <3>1. k \in 1..Len(file)
      BY <1>1, <1>3, <1>5, <1>6, <1>7
    <3> QED
      BY <1>1, <1>13, <3>1
  <2> QED
    BY <1>3, <1>6, <2>1, ConstantsAre DEF AllZero
<1>15. MetaCells = c.meta
  <2>1. PICK a, b \in Nat : a = 2 /\ b = 2 + m /\ a <= b /\ b <= Len(file) /\ b - a = m
    <3>1. 2 \in Nat /\ 2 + m \in Nat /\ 2 <= 2 + m /\ 2 + m <= Len(file) /\ 2 + m - 2 = m
      BY <1>1, <1>3, <1>5, <1>6, <1>7
    <3> QED
      BY <1>3, <3>1
  <2>2. PICK s : s = Cells(a + 1, b)
    OBVIOUS
  <2>3. IsSeq(s) /\ Len(s) = m /\ \A k \in 1..m : s[k] = file[a + k]
    <3>1. IsSeq(file)
      BY DEF Wrote, FileOK
    <3>2. /\ IsSeq(Cells(a + 1, b)) /\ Len(Cells(a + 1, b)) = b - a
          /\ \A k \in 1..(b - a) : Cells(a + 1, b)[k] = file[a + k]
      BY <2>1, <3>1, CellsIs
    <3> QED
      BY <2>1, <2>2, <3>2
  <2>4. \A k \in 1..m : c.meta[k] = file[a + k]
    BY <1>3, <1>13, <2>1 DEF Lies
  <2>5. s = c.meta
    BY <1>3, <1>4, <2>3, <2>4, SameSeq
  <2> QED
    BY <1>3, <2>1, <2>2, <2>5, ConstantsAre DEF MetaCells
<1>16. PICK g, s : s = c.meta /\ s = Meta(g, m)
  <2>1. PICK g, e : g = Node(NSegs).id /\ e = EpochHashesEverywhere
    OBVIOUS
  <2>2. PICK ss : ss = c.segments
    OBVIOUS
  <2>3. c = [root |-> Node(0).ref, machine |-> Seg(1).machine, clock |-> Seg(1).clock,
             epochs |-> e, meta |-> Meta(g, m), segments |-> ss]
    BY <1>3, <2>1, <2>2 DEF Assembles
  <2>4. c.meta = Meta(g, m)
    BY <2>3
  <2> QED
    BY <2>4
<1>17. \A k \in 1..m : s[k] = [t |-> "meta", goal |-> g, part |-> k, of |-> m]
  <2>1. m \in Nat
    BY <1>3
  <2>2. \A k \in 1..m : Meta(g, m)[k] = [t |-> "meta", goal |-> g, part |-> k, of |-> m]
    BY <2>1, MetaIs
  <2> QED
    BY <1>16, <2>2
<1>18. Parses(s)
  <2>1. m \in 1..Len(s)
    BY <1>3, <1>16
  <2>2. SubSeq(s, 1, m) = s
    <3>1. 0 \in Nat /\ 0 <= m /\ m <= Len(s) /\ 0 + 1 = 1 /\ m - 0 = m /\ \A k \in 1..m : 0 + k = k
      BY <1>3, <1>16
    <3>2. /\ IsSeq(SubSeq(s, 0 + 1, m)) /\ Len(SubSeq(s, 0 + 1, m)) = m - 0
          /\ \A k \in 1..(m - 0) : SubSeq(s, 0 + 1, m)[k] = s[0 + k]
      BY <1>3, <1>4, <1>16, <3>1, CutIs
    <3>3. IsSeq(SubSeq(s, 1, m)) /\ Len(SubSeq(s, 1, m)) = Len(s)
      BY <1>3, <1>16, <3>1, <3>2
    <3>4. \A k \in 1..Len(SubSeq(s, 1, m)) : SubSeq(s, 1, m)[k] = s[k]
      BY <1>3, <1>16, <3>1, <3>2, <3>3
    <3> QED
      BY <1>4, <1>16, <3>3, <3>4, SameSeq
  <2>3. Number(s[1], "goal") = g
    <3>1. PICK x : x = s[1]
      OBVIOUS
    <3>2. 1 \in 1..m
      BY <1>3
    <3>3. x = [t |-> "meta", goal |-> g, part |-> 1, of |-> m]
      BY <1>17, <3>1, <3>2
    <3>4. x.goal = g /\ "goal" \in DOMAIN x
      BY <3>3
    <3> QED
      BY <3>1, <3>4 DEF Number
  <2>4. \A k \in (m + 1)..Len(s) : s[k] = Space
    BY <1>3, <1>16
  <2> QED
    BY <1>16, <2>1, <2>2, <2>3, <2>4 DEF Parses
<1>19. CanonicalJson(s)
  <2> SUFFICES ASSUME NEW k \in DOMAIN s PROVE s[k] # Space
    BY DEF CanonicalJson
  <2>1. k \in 1..m
    BY <1>3, <1>4, <1>16 DEF IsSeq
  <2>2. PICK x : x = s[k]
    OBVIOUS
  <2>3. x = [t |-> "meta", goal |-> g, part |-> k, of |-> m]
    BY <1>17, <2>1, <2>2
  <2>4. x.t = "meta" /\ Space.t = "space"
    BY <2>3 DEF Space
  <2> QED
    BY <2>2, <2>4
<1>20. ~(MetaLen + Align - 1 > UsizeMax)
  BY <1>3, <1>4, ConstantsAre DEF Paddable
<1>21. ~(BlobsOff > UsizeMax) /\ ~(BlobsOff > FooterStart)
  BY <1>1, <1>6, <1>7, <1>8, ConstantsAre
<1>22. ~(HeaderLen + MetaLen > TableOff) /\ Count # 0 /\ ~(Len(file) < HeaderLen + FooterLen)
  BY <1>1, <1>2, <1>3, <1>5, <1>6, <1>7, ConstantsAre
<1> QED
  BY <1>1, <1>10, <1>11, <1>14, <1>15, <1>16, <1>18, <1>19, <1>20, <1>21, <1>22 DEF HeaderGood

\* Two segments with the same entry, the same extent and blobs in the same place.
LEMMA SameSegment ==
  ASSUME NEW s, NEW t,
         s = [node |-> s.node, base |-> s.base, child |-> s.child, hash |-> s.hash, blob |-> s.blob],
         t = [node |-> t.node, base |-> t.base, child |-> t.child, hash |-> t.hash, blob |-> t.blob],
         EntryCell(s) = EntryCell(t),
         IsSeq(s.blob), IsSeq(t.blob), Paddable(Len(s.blob)), Len(s.blob) = Len(t.blob),
         NEW f, IsSeq(f), NEW o \in Nat, Lies(Padded(s.blob), f, o), Lies(Padded(t.blob), f, o)
  PROVE  s = t
<1>1. s.node = t.node /\ s.base = t.base /\ s.child = t.child /\ s.hash = t.hash
  <2>1. PICK x, y : x = EntryCell(s) /\ y = EntryCell(t)
    OBVIOUS
  <2>2. /\ x.node = s.node /\ x.base = s.base /\ x.child = s.child /\ x.hash = s.hash
        /\ y.node = t.node /\ y.base = t.base /\ y.child = t.child /\ y.hash = t.hash
    BY <2>1 DEF EntryCell
  <2> QED
    BY <2>1, <2>2
<1>2. PICK a, b : a = s.blob /\ b = t.blob
  OBVIOUS
<1>3. Lies(a, f, o) /\ Lies(b, f, o)
  <2>1. IsSeq(a) /\ Paddable(Len(a)) /\ IsSeq(b) /\ Paddable(Len(b))
    BY <1>2
  <2> QED
    BY <1>2, <2>1, LiesPadded
<1>4. \A k \in 1..Len(a) : a[k] = b[k]
  BY <1>2, <1>3 DEF Lies
<1>5. a = b
  BY <1>2, <1>4, SameSeq
<1> QED
  BY <1>1, <1>2, <1>5

LEMMA WroteSegments ==
  ASSUME NEW c, NEW m, NEW ls, Wrote(c, m, ls), Reads(segments, expected)
  PROVE  /\ Len(segments) \in Nat /\ Len(segments) <= NSegs
         /\ \A i \in 1..Len(segments) : segments[i] = c.segments[i]
         /\ expected = BlobOffset(c, Len(segments) + 1) /\ expected \in Nat
<1>1. PICK n, q \in Nat : n = NSegs /\ n = Len(c.segments) /\ n = Count /\ n # 0 /\ q = Len(segments)
  BY WroteIs DEF Reads, IsSeq
<1>2. q <= n
  BY <1>1 DEF Reads
<1>3. FileOK /\ IsContainer(c) /\ Assembles(c, m, ls) /\ BodyLies(file, c) /\ IsSeq(file)
  BY WroteIs DEF Wrote, FileOK
<1>4. PICK t, b \in Nat : /\ t = TableOff /\ b = BlobsOff
                          /\ t = TableAt(c, 1) /\ b = TableAt(c, n + 1)
  <2>1. 1 \in 1..(n + 1) /\ n + 1 \in 1..(n + 1)
    OBVIOUS
  <2> QED
    BY <1>1, <1>3, <2>1, WroteIs, OffsetsAre
<1>5. \A i \in 1..(n + 1) : BlobOffset(c, i) \in Nat /\ BlobOffset(c, i) = b + BlobsBefore(c.segments, i)
  BY <1>1, <1>3, <1>4, OffsetsAre
<1>6. \A i \in 1..n : TableAt(c, i) = t + 2 * (i - 1)
  <2>1. \A i : TableAt(c, i) = 2 + Pad(m) + 2 * (i - 1)
    BY WroteIs, ConstantsAre DEF TableAt
  <2>2. t = 2 + Pad(m)
    BY <1>4, WroteIs
  <2> QED
    BY <2>1, <2>2
<1>7. ASSUME NEW i \in 1..q PROVE segments[i] = c.segments[i]
  <2>1. Taken(segments, i)
    BY <1>1 DEF Reads
  <2>2. PICK a, d : a = segments[i] /\ d = c.segments[i]
    OBVIOUS
  <2>3. i \in 1..n
    BY <1>1, <1>2
  <2>4. d = [node |-> d.node, base |-> d.base, child |-> d.child, hash |-> d.hash, blob |-> d.blob]
    <3>1. PICK v, w, x, y, z : d = [node |-> v, base |-> w, child |-> x, hash |-> y, blob |-> z]
      <4>1. \A k \in 1..NSegs :
              c.segments[k] = [node |-> Node(k).id, base |-> Seg(k).base, child |-> Seg(k).end,
                               hash |-> Seg(k).endHash, blob |-> Blob(k, ls[k])]
        BY <1>3 DEF Assembles
      <4>2. d = [node |-> Node(i).id, base |-> Seg(i).base, child |-> Seg(i).end,
                 hash |-> Seg(i).endHash, blob |-> Blob(i, ls[i])]
        BY <1>1, <2>2, <2>3, <4>1
      <4> QED
        BY <4>2
    <3>2. d.node = v /\ d.base = w /\ d.child = x /\ d.hash = y /\ d.blob = z
      BY <3>1
    <3> QED
      BY <3>1, <3>2
  <2>5. /\ a = [node |-> a.node, base |-> a.base, child |-> a.child, hash |-> a.hash, blob |-> a.blob]
        /\ IsSeq(a.blob) /\ Paddable(Len(a.blob))
    BY <2>1, <2>2 DEF Taken
  <2>6. IsSeq(d.blob)
    BY <1>1, <1>3, <2>2, <2>3 DEF IsContainer
  <2>7. PICK p \in Nat : p = t + 2 * (i - 1) /\ p = TableAt(c, i)
    <3>1. t + 2 * (i - 1) \in Nat
      BY <1>1
    <3> QED
      BY <1>6, <2>3, <3>1
  <2>8. EntryCell(a) = EntryCell(d)
    <3>1. file[p + 1] = EntryCell(a)
      BY <1>4, <2>1, <2>2, <2>7 DEF Taken
    <3>2. file[p + 1] = EntryCell(d)
      BY <1>1, <1>3, <2>2, <2>3, <2>7 DEF BodyLies
    <3> QED
      BY <3>1, <3>2
  <2>9. PICK o \in Nat : o = BlobOffset(c, i)
    <3>1. i \in 1..(n + 1)
      BY <2>3
    <3> QED
      BY <1>5, <3>1
  <2>10. b + BlobsBefore(segments, i) = o /\ Len(a.blob) = Len(d.blob)
    <3>1. PICK x, y : x = b + BlobsBefore(segments, i) /\ y = Len(a.blob)
      OBVIOUS
    <3>2. PICK l : l = Len(d.blob)
      OBVIOUS
    <3>3. file[p + 2] = [t |-> "extent", offset |-> x, len |-> y]
      BY <1>4, <2>1, <2>2, <2>7, <3>1 DEF Taken
    <3>4. file[p + 2] = [t |-> "extent", offset |-> o, len |-> l]
      BY <1>1, <1>3, <2>2, <2>3, <2>7, <2>9, <3>2 DEF BodyLies, ExtentCell
    <3>5. PICK e : e = file[p + 2]
      OBVIOUS
    <3>6. e.offset = x /\ e.len = y /\ e.offset = o /\ e.len = l
      BY <3>3, <3>4, <3>5
    <3> QED
      BY <3>1, <3>2, <3>6
  <2>11. Lies(Padded(a.blob), file, o) /\ Lies(Padded(d.blob), file, o)
    <3>1. Lies(Padded(a.blob), file, b + BlobsBefore(segments, i))
      BY <1>4, <2>1, <2>2 DEF Taken
    <3>2. Lies(Padded(d.blob), file, o)
      BY <1>1, <1>3, <2>2, <2>3, <2>9 DEF BodyLies
    <3> QED
      BY <2>10, <3>1, <3>2
  <2>12. a = d
    BY <1>3, <2>4, <2>5, <2>6, <2>8, <2>9, <2>10, <2>11, SameSegment
  <2> QED
    BY <2>2, <2>12
<1>8. expected = BlobOffset(c, q + 1)
  <2>1. PICK ss, cs : ss = segments /\ cs = c.segments
    OBVIOUS
  <2>2. Len(ss) \in Nat /\ Len(cs) \in Nat /\ q <= Len(ss) /\ q <= Len(cs)
    <3>1. Len(ss) = q /\ Len(cs) = n
      BY <1>1, <2>1
    <3> QED
      BY <1>2, <3>1
  <2>3. \A i \in 1..(q + 1) : BlobsBefore(ss, i) = BlobsBefore(cs, i)
    <3>1. \A i \in 1..q : ss[i] = cs[i]
      BY <1>7, <2>1
    <3>2. \A i \in 1..q : ss[i].blob = cs[i].blob
      BY <3>1
    <3> QED
      BY <2>2, <3>2, BlobsBeforeAgree
  <2>4. q + 1 \in 1..(q + 1) /\ q + 1 \in 1..(n + 1)
    BY <1>2
  <2>5. expected = b + BlobsBefore(segments, q + 1)
    BY <1>1, <1>4 DEF Reads
  <2> QED
    BY <1>5, <2>1, <2>3, <2>4, <2>5
<1>9. expected \in Nat
  BY <1>3, ReadsAre
<1> QED
  BY <1>1, <1>2, <1>7, <1>8, <1>9

\* Every check of the segment in hand passes.
LEMMA WroteExtent ==
  ASSUME NEW c, NEW m, NEW ls, Wrote(c, m, ls), Reads(segments, expected),
         Len(segments) < Count
  PROVE  /\ ExtentGood /\ Len(segments) + 1 \in 1..NSegs
         /\ Refs = EntryCell(c.segments[Len(segments) + 1])
         /\ Cells(expected + 1, BlobEnd) = c.segments[Len(segments) + 1].blob
<1>1. PICK n, q \in Nat : n = NSegs /\ n = Len(c.segments) /\ n = Count /\ n # 0 /\ q = Len(segments)
  BY WroteIs DEF Reads, IsSeq
<1>2. PICK i \in 1..n : i = q + 1
  BY <1>1
<1>3. FileOK /\ IsContainer(c) /\ BodyLies(file, c) /\ IsSeq(file)
  BY WroteIs DEF Wrote, FileOK
<1>4. PICK f \in Nat : /\ f = FooterStart /\ f = BodyLen(c) /\ Len(file) = f + 2
                       /\ \A k \in 1..Len(file) : Cell(k) = file[k]
  BY WroteIs
<1>5. PICK o \in Nat : o = expected /\ o = BlobOffset(c, i)
  BY <1>1, <1>2, WroteSegments
<1>6. PICK s : s = c.segments[i]
  OBVIOUS
<1>7. PICK b : b = s.blob
  OBVIOUS
<1>8. PICK l \in Nat : l = Len(b) /\ IsSeq(b) /\ Paddable(l)
  BY <1>1, <1>3, <1>6, <1>7 DEF IsContainer, Paddable
<1>9. PICK p \in Nat : p = Pad(l) /\ l <= p
  BY <1>8, PadIs
<1>10. o + p <= f
  <2>1. BlobOffset(c, i + 1) = o + p
    BY <1>1, <1>3, <1>5, <1>6, <1>7, <1>8, <1>9, OffsetsAre
  <2> QED
    BY <1>1, <1>3, <1>4, <2>1, InBody
<1>11. PICK a \in Nat : a = EntryAt /\ a = TableAt(c, i) /\ a + 2 <= f
  <2>1. i \in 1..(n + 1) /\ n + 1 \in 1..(n + 1)
    OBVIOUS
  <2>2. PICK a, t \in Nat : a = TableAt(c, i) /\ t = TableAt(c, n + 1) /\ a + 2 <= t
    BY <1>1, <1>3, <2>1, OffsetsAre
  <2>3. t <= f
    BY <1>1, <1>3, <1>4, <2>2, InBody
  <2>4. PICK g \in Nat : g = Pad(m) /\ TableOff = 2 + g
    <3>1. Paddable(m)
      BY <1>3, WroteIs DEF IsContainer
    <3>2. Pad(m) \in Nat
      BY <3>1, PadIs
    <3> QED
      BY <3>2, WroteIs
  <2>5. TableAt(c, i) = 2 + g + 2 * (i - 1)
    BY <2>4, WroteIs, ConstantsAre DEF TableAt
  <2>6. EntryAt = 2 + g + q * 2
    BY <1>1, <2>4, ConstantsAre DEF EntryAt
  <2>7. EntryAt = a
    BY <1>2, <2>2, <2>5, <2>6
  <2> QED
    BY <2>2, <2>3, <2>7
<1>12. a + 1 \in 1..Len(file) /\ a + 2 \in 1..Len(file)
  BY <1>4, <1>11
<1>13. Refs = EntryCell(s)
  BY <1>1, <1>3, <1>4, <1>6, <1>11, <1>12 DEF Refs, BodyLies
<1>14. PICK e : e = Cell(EntryAt + 2)
  OBVIOUS
<1>15. e = [t |-> "extent", offset |-> o, len |-> l]
  BY <1>1, <1>3, <1>4, <1>5, <1>6, <1>7, <1>8, <1>11, <1>12, <1>14 DEF BodyLies, ExtentCell
<1>16. e.offset = o /\ e.len = l /\ "offset" \in DOMAIN e /\ "len" \in DOMAIN e
  BY <1>15
<1>17. Number(e, "offset") = o /\ BlobLen = l
  BY <1>14, <1>16 DEF Number, BlobLen
<1>18. BlobEnd = o + l
  BY <1>5, <1>17 DEF BlobEnd
<1>19. f + 2 <= UsizeMax \div 2 /\ UsizeMax \div 2 + Align - 1 <= UsizeMax /\ UsizeMax \in Nat
  <2>1. f + 2 <= UsizeMax \div 2
    BY <1>3, <1>4 DEF FileOK, Fits
  <2>2. /\ UsizeMax \in Nat /\ Align \in {1, 2} /\ 2 <= UsizeMax
    BY <1>4, <2>1, ConstantsAre
  <2>3. UsizeMax \div 2 + Align - 1 <= UsizeMax
    BY <2>2
  <2> QED
    BY <2>1, <2>2, <2>3
<1>20. Paddable(o + l)
  BY <1>9, <1>10, <1>19, ConstantsAre DEF Paddable
<1>21. Pad(o + l) = o + p
  <2>1. o % Align = 0
    BY <1>3, <1>5, ReadsAre
  <2> QED
    BY <1>9, <1>20, <2>1, PadAfter
<1>22. Lies(Padded(b), file, o)
  BY <1>1, <1>3, <1>5, <1>6, <1>7 DEF BodyLies
<1>23. Lies(b, file, o) /\ \A k \in (o + l + 1)..(o + p) : file[k] = Zero
  BY <1>3, <1>8, <1>9, <1>22, LiesPadded
<1>24. AllZero(BlobEnd + 1, Pad(BlobEnd))
  <2>1. ASSUME NEW k \in (o + l + 1)..(o + p) PROVE Cell(k) = Zero
    <3>1. k \in 1..Len(file)
      BY <1>4, <1>10
    <3> QED
      BY <1>4, <1>23, <3>1
  <2> QED
    BY <1>18, <1>21, <2>1 DEF AllZero
<1>25. ExtentGood
  <2>1. ~(EntryAt + EntryLen > Len(file)) /\ Number(Cell(EntryAt + 2), "offset") = expected
    <3>1. ~(EntryAt + EntryLen > Len(file))
      BY <1>4, <1>11, ConstantsAre
    <3> QED
      BY <1>5, <1>14, <1>17, <3>1
  <2>2. /\ ~(BlobEnd > UsizeMax) /\ ~(BlobEnd > FooterStart)
        /\ ~(BlobEnd > Len(file))
    BY <1>4, <1>9, <1>10, <1>18, <1>19, ConstantsAre
  <2>3. ~(BlobEnd + Align - 1 > UsizeMax)
    BY <1>18, <1>20, ConstantsAre DEF Paddable
  <2>4. ~(Pad(BlobEnd) > FooterStart)
    BY <1>4, <1>10, <1>18, <1>21
  <2> QED
    BY <1>24, <2>1, <2>2, <2>3, <2>4 DEF ExtentGood
<1>26. Cells(expected + 1, BlobEnd) = b
  <2>1. PICK d \in Nat : d = o + l /\ o <= d /\ d - o = l /\ d <= Len(file)
    <3>1. o + l \in Nat /\ o <= o + l /\ o + l - o = l /\ o + l <= Len(file)
      BY <1>4, <1>9, <1>10
    <3> QED
      BY <3>1
  <2>2. PICK x : x = Cells(o + 1, d)
    OBVIOUS
  <2>3. IsSeq(x) /\ Len(x) = l /\ Lies(x, file, o)
    <3>1. IsSeq(Cells(o + 1, d)) /\ Len(Cells(o + 1, d)) = d - o /\ Lies(Cells(o + 1, d), file, o)
      BY <1>3, <2>1, CellsIs
    <3> QED
      BY <2>1, <2>2, <3>1
  <2>4. \A k \in 1..Len(x) : x[k] = b[k]
    BY <1>8, <1>23, <2>3 DEF Lies
  <2>5. x = b
    BY <1>8, <2>3, <2>4, SameSeq
  <2> QED
    BY <1>5, <1>18, <2>1, <2>2, <2>5
<1> QED
  BY <1>1, <1>2, <1>6, <1>7, <1>13, <1>25, <1>26

LEMMA WroteContent ==
  ASSUME NEW c, NEW m, NEW ls, Wrote(c, m, ls), Reads(segments, expected),
         Len(segments) < Count
  PROVE  ContentGood(Cells(expected + 1, BlobEnd))
<1>1. PICK q \in Nat, i \in 1..NSegs : q = Len(segments) /\ i = q + 1
  BY WroteExtent DEF Reads, IsSeq
<1>2. PICK s, b, r : s = c.segments[i] /\ b = s.blob /\ r = Refs
  OBVIOUS
<1>3. PICK l : l = ls[i] /\ l \in Nat /\ l # 0
  BY WroteIs
<1>4. s = [node |-> Node(i).id, base |-> Seg(i).base, child |-> Seg(i).end,
           hash |-> Seg(i).endHash, blob |-> Blob(i, l)]
  <2>1. Assembles(c, m, ls)
    BY WroteIs
  <2>2. \A k \in 1..NSegs :
          c.segments[k] = [node |-> Node(k).id, base |-> Seg(k).base, child |-> Seg(k).end,
                           hash |-> Seg(k).endHash, blob |-> Blob(k, ls[k])]
    BY <2>1 DEF Assembles
  <2> QED
    BY <1>2, <1>3, <2>2
<1>5. /\ s.base = Seg(i).base /\ s.child = Seg(i).end /\ s.hash = Seg(i).endHash
      /\ b = Blob(i, l)
  <2>1. PICK x : x = Blob(i, l)
    OBVIOUS
  <2>2. s = [node |-> Node(i).id, base |-> Seg(i).base, child |-> Seg(i).end,
             hash |-> Seg(i).endHash, blob |-> x]
    BY <1>4, <2>1
  <2>3. /\ s.base = Seg(i).base /\ s.child = Seg(i).end /\ s.hash = Seg(i).endHash
        /\ s.blob = x
    BY <2>2
  <2> QED
    BY <1>2, <2>1, <2>3
<1>6. Cells(expected + 1, BlobEnd) = b /\ r = EntryCell(s)
  BY <1>1, <1>2, WroteExtent
<1>7. /\ Number(r, "base") = Seg(i).base /\ Number(r, "child") = Seg(i).end
      /\ Text(r, "hash") = Seg(i).endHash
  <2>1. /\ "base" \in DOMAIN r /\ "child" \in DOMAIN r /\ "hash" \in DOMAIN r
        /\ r.base = s.base /\ r.child = s.child /\ r.hash = s.hash
    BY <1>6 DEF EntryCell
  <2> QED
    BY <1>5, <2>1 DEF Number, Text
<1>8. Len(b) = l /\ b[1].seg = i
  <2>1. 1 \in 1..l
    BY <1>3
  <2>2. PICK y : y = b[1]
    OBVIOUS
  <2>3. y = [t |-> "blob", seg |-> i, part |-> 1, of |-> l] /\ Len(b) = l
    BY <1>3, <1>5, <2>1, <2>2, BlobIs
  <2>4. y.seg = i
    BY <2>3
  <2> QED
    BY <2>2, <2>3, <2>4
<1>9. IsBlob(b)
  <2>1. b # <<>>
    <3>1. Len(<<>>) = 0
      OBVIOUS
    <3> QED
      BY <1>3, <1>8, <3>1
  <2> QED
    BY <1>5, <1>8, <2>1 DEF IsBlob
<1>10. /\ Number(Header, "root") = Node(0).ref
       /\ Text(Header, "machine") = Seg(1).machine /\ Text(Header, "clock") = Seg(1).clock
  <2>1. PICK h, x, y, z, e :
          /\ h = Header /\ x = Node(0).ref /\ y = Seg(1).machine /\ z = Seg(1).clock
          /\ e = IF EpochHashesEverywhere THEN 1 ELSE 0
    OBVIOUS
  <2>2. h = [t |-> "head", version |-> 2, flags |-> e, count |-> NSegs, metaLen |-> m,
             root |-> x, machine |-> y, clock |-> z]
    BY <2>1, WroteIs
  <2>3. /\ "root" \in DOMAIN h /\ "machine" \in DOMAIN h /\ "clock" \in DOMAIN h
        /\ h.root = x /\ h.machine = y /\ h.clock = z
    BY <2>2
  <2> QED
    BY <2>1, <2>3 DEF Number, Text
<1>11. PICK n \in Nat : n = NSegs /\ n # 0
  BY WroteIs
<1>12. /\ Seg(i).version \in SupportedVersions /\ Seg(i).structure = "Ok"
       /\ Seg(i).machine = Seg(1).machine /\ Seg(i).clock = Seg(1).clock
       /\ Seg(i).base = IF i = 1 THEN Node(0).ref ELSE Seg(i - 1).end
  <2>1. IInv /\ result.kind = "Container"
    BY DEF Wrote
  <2>2. stage = "entries"
    BY <2>1 DEF IInv, Stopped
  <2>3. ~R1Broken(i) /\ ~R2Broken(i) /\ ~R3Broken(i) /\ Seg(i).structure = "Ok"
    BY <2>1, <2>2 DEF IInv, Swept, Holds, PassedBefore, Stops
  <2>4. Seg(i).base = IF i = 1 THEN Node(0).ref ELSE Seg(i - 1).end
    <3>1. Seg(i).base = Node(i - 1).ref /\ (i > 1 => Node(i - 1).ref = Seg(i - 1).end)
      BY <2>3 DEF R3Broken
    <3>2. CASE i = 1
      <4>1. i - 1 = 0
        BY <3>2
      <4> QED
        BY <3>1, <3>2, <4>1
    <3>3. CASE i # 1
      <4>1. i > 1
        BY <3>3
      <4> QED
        BY <3>1, <3>3, <4>1
    <3> QED
      BY <3>2, <3>3
  <2> QED
    BY <2>3, <2>4 DEF R1Broken, R2Broken
<1>13. Adjacent(Seg(i).base)
  <2>1. CASE q = 0
    <3>1. segments = <<>>
      <4>1. IsSeq(<<>>) /\ Len(<<>>) = 0 /\ IsSeq(segments)
        BY DEF IsSeq, Reads
      <4>2. \A k \in 1..Len(segments) : segments[k] = <<>>[k]
        BY <1>1, <2>1
      <4> QED
        BY <1>1, <2>1, <4>1, <4>2, SameSeq
    <3>2. i = 1
      BY <1>1, <2>1
    <3> QED
      BY <1>10, <1>12, <3>1, <3>2 DEF Adjacent
  <2>2. CASE q # 0
    <3>1. segments # <<>>
      <4>1. Len(<<>>) = 0
        OBVIOUS
      <4> QED
        BY <1>1, <2>2, <4>1
    <3>2. PICK j \in 1..NSegs : j = q /\ j = i - 1 /\ i # 1
      <4>1. q \in 1..NSegs /\ q = i - 1 /\ i # 1
        BY <1>1, <1>11, <2>2
      <4> QED
        BY <4>1
    <3>3. PICK d : d = c.segments[j]
      OBVIOUS
    <3>4. segments[j] = d
      <4>1. j \in 1..Len(segments)
        BY <1>1, <3>2
      <4> QED
        BY <3>3, <4>1, WroteSegments
    <3>5. d.child = Seg(j).end
      <4>1. Assembles(c, m, ls)
        BY WroteIs
      <4>2. \A k \in 1..NSegs :
              c.segments[k] = [node |-> Node(k).id, base |-> Seg(k).base, child |-> Seg(k).end,
                               hash |-> Seg(k).endHash, blob |-> Blob(k, ls[k])]
        BY <4>1 DEF Assembles
      <4>3. d = [node |-> Node(j).id, base |-> Seg(j).base, child |-> Seg(j).end,
                 hash |-> Seg(j).endHash, blob |-> Blob(j, ls[j])]
        BY <3>3, <4>2
      <4> QED
        BY <4>3
    <3>6. Seg(i).base = Seg(j).end
      BY <1>12, <3>2
    <3>7. segments[Len(segments)].child = Seg(j).end
      BY <1>1, <3>2, <3>4, <3>5
    <3> QED
      BY <3>1, <3>6, <3>7 DEF Adjacent
  <2> QED
    BY <2>1, <2>2
<1>14. ContentGood(b)
  BY <1>2, <1>7, <1>8, <1>9, <1>10, <1>12, <1>13 DEF ContentGood
<1> QED
  BY <1>6, <1>14

LEMMA WroteEnd ==
  ASSUME NEW c, NEW m, NEW ls, Wrote(c, m, ls), Reads(segments, expected),
         Len(segments) = Count
  PROVE  /\ expected = FooterStart /\ ((Number(Header, "flags") = 1) <=> AllEpochs)
         /\ Container = c
<1>1. PICK n \in Nat : n = NSegs /\ n = Len(c.segments) /\ n = Len(segments) /\ n # 0
  BY WroteIs
<1>2. Assembles(c, m, ls) /\ IsContainer(c)
  BY WroteIs
<1>3. expected = FooterStart
  <2>1. expected = BlobOffset(c, Len(segments) + 1)
    BY WroteSegments
  <2>2. FooterStart = BlobOffset(c, Len(c.segments) + 1)
    BY WroteIs DEF BodyLen
  <2> QED
    BY <1>1, <2>1, <2>2
<1>4. PICK ss : ss = c.segments
  OBVIOUS
<1>5. segments = ss
  <2>1. IsSeq(segments) /\ IsSeq(ss)
    BY <1>2, <1>4 DEF Reads, IsContainer
  <2>2. Len(segments) = Len(ss) /\ \A k \in 1..Len(segments) : segments[k] = ss[k]
    BY <1>1, <1>4, WroteSegments
  <2> QED
    BY <2>1, <2>2, SameSeq
<1>6. ASSUME NEW i \in 1..n PROVE segments[i].blob[1].seg = i
  <2>1. PICK l : l = ls[i] /\ l \in Nat /\ l # 0
    BY <1>1, WroteIs
  <2>2. \A k \in 1..NSegs :
          c.segments[k] = [node |-> Node(k).id, base |-> Seg(k).base, child |-> Seg(k).end,
                           hash |-> Seg(k).endHash, blob |-> Blob(k, ls[k])]
    BY <1>2 DEF Assembles
  <2>3. PICK b, s : b = Blob(i, l) /\ s = segments[i]
    OBVIOUS
  <2>4. s = [node |-> Node(i).id, base |-> Seg(i).base, child |-> Seg(i).end,
             hash |-> Seg(i).endHash, blob |-> b]
    BY <1>1, <1>4, <1>5, <2>1, <2>2, <2>3
  <2>5. s.blob = b
    BY <2>4
  <2>6. 1 \in 1..l
    BY <2>1
  <2>7. PICK y : y = b[1]
    OBVIOUS
  <2>8. y = [t |-> "blob", seg |-> i, part |-> 1, of |-> l]
    BY <2>1, <2>3, <2>6, <2>7, BlobIs
  <2>9. y.seg = i
    BY <2>8
  <2> QED
    BY <2>3, <2>5, <2>7, <2>9
<1>7. AllEpochs <=> EpochHashesEverywhere
  <2>1. DOMAIN segments = 1..n
    BY <1>1 DEF Reads, IsSeq
  <2> QED
    BY <1>1, <1>6, <2>1 DEF AllEpochs, EpochHashesEverywhere
<1>8. PICK h, x, y, z, f :
        /\ h = Header /\ x = Node(0).ref /\ y = Seg(1).machine /\ z = Seg(1).clock
        /\ f = IF EpochHashesEverywhere THEN 1 ELSE 0
  OBVIOUS
<1>9. h = [t |-> "head", version |-> 2, flags |-> f, count |-> NSegs, metaLen |-> m,
           root |-> x, machine |-> y, clock |-> z]
  BY <1>8, WroteIs
<1>10. h.flags = f /\ "flags" \in DOMAIN h /\ h.root = x /\ h.machine = y /\ h.clock = z
  BY <1>9
<1>11. (Number(Header, "flags") = 1) <=> AllEpochs
  BY <1>7, <1>8, <1>10 DEF Number
<1>12. Container = c
  <2>1. PICK e, d : e = EpochHashesEverywhere /\ d = Meta(Node(NSegs).id, m)
    OBVIOUS
  <2>2. AllEpochs = e
    BY <1>7, <2>1 DEF AllEpochs, EpochHashesEverywhere
  <2>3. c = [root |-> x, machine |-> y, clock |-> z, epochs |-> e, meta |-> d, segments |-> ss]
    BY <1>2, <1>4, <1>8, <2>1 DEF Assembles
  <2>4. MetaCells = d
    <3>1. c.meta = d
      BY <2>3
    <3> QED
      BY <3>1, WroteHeader
  <2>5. Container = [root |-> x, machine |-> y, clock |-> z, epochs |-> e, meta |-> d,
                     segments |-> ss]
    BY <1>5, <1>8, <1>10, <2>2, <2>4 DEF Container
  <2> QED
    BY <2>3, <2>5
<1> QED
  BY <1>3, <1>11, <1>12

-----------------------------------------------------------------------------
\* The invariant of a file and its reader

FInv ==
  /\ path \in Paths /\ IInv
  /\ reading \in {"NoFile", "Written", "Segments", "Done"} /\ edits \in Nat
  /\ damaged \in BOOLEAN /\ (edits = 0 => ~damaged)
  /\ reading = "NoFile" => edits = 0
  /\ reading \in {"NoFile", "Written"} => segments = <<>>
  /\ reading # "NoFile" => result.kind = "Container" /\ FileOK
  /\ reading # "NoFile" /\ edits = 0 => \E c, m, ls : Wrote(c, m, ls)
  /\ reading = "Segments" => Reads(segments, expected)
  /\ reading # "Done" => outcome = "None"
  /\ reading = "Done" /\ edits = 0 => outcome = "Ok"
  /\ outcome # "Panic"
  /\ outcome = "Ok" =>
       /\ reading = "Done" /\ Reads(segments, expected)
       /\ Len(segments) = Count /\ expected = FooterStart
       /\ (Number(Header, "flags") = 1) <=> AllEpochs

\* The reader leaves the file as it is.
LEMMA FileKept ==
  ASSUME UNCHANGED <<vars, file, edits, damaged>>
  PROVE  /\ FileOK' <=> FileOK
         /\ \A ss, e : Reads(ss, e)' <=> Reads(ss, e)
         /\ \A c, m, ls : Wrote(c, m, ls) => Wrote(c, m, ls)'
         /\ Header' = Header /\ Count' = Count /\ FooterStart' = FooterStart
         /\ IInv => IInv'
<1>1. UNCHANGED <<path, stage, at, entries, result, file, edits, damaged>>
  BY DEF vars
<1>2. /\ NSegs' = NSegs /\ \A i : Seg(i)' = Seg(i) /\ Node(i)' = Node(i) /\ Entry(i)' = Entry(i)
      /\ \A s, i : Stops(s, i)' <=> Stops(s, i) /\ RuleOf(s, i)' = RuleOf(s, i)
      /\ \A s : Holds(s)' <=> Holds(s)
      /\ MissingHashes' = MissingHashes
  BY <1>1, PathFixed
<1>3. IInv => IInv'
  BY StepIInv
<1>4. \A p : Cell(p)' = Cell(p)
  BY <1>1 DEF Cell
<1>5. \A a, b : Cells(a, b)' = Cells(a, b) /\ (AllZero(a, b)' <=> AllZero(a, b))
  BY <1>4 DEF Cells, AllZero
<1>6. /\ Header' = Header /\ Count' = Count /\ MetaLen' = MetaLen /\ FooterStart' = FooterStart
      /\ TableOff' = TableOff /\ BlobsOff' = BlobsOff /\ Body' = Body
  BY <1>1, <1>4 DEF Header, Count, MetaLen, FooterStart, TableOff, BlobsOff, Body
<1>7. MetaCells' = MetaCells
  BY <1>5, <1>6 DEF MetaCells
<1>8. HeaderGood' <=> HeaderGood
  BY <1>1, <1>4, <1>5, <1>6, <1>7 DEF HeaderGood
<1>9. \A ss, i : Taken(ss, i)' <=> Taken(ss, i)
  BY <1>1, <1>2, <1>6 DEF Taken
<1>10. \A ss, e : Reads(ss, e)' <=> Reads(ss, e)
  BY <1>6, <1>8, <1>9 DEF Reads
<1>11. FileOK' <=> FileOK
  BY <1>1 DEF FileOK, FileFrom, Fits
<1>12. \A m, ls : Assembly(m, ls)' = Assembly(m, ls)
  BY <1>1, <1>2 DEF Assembly
<1>13. \A c, m, ls : Wrote(c, m, ls) => Wrote(c, m, ls)'
  BY <1>1, <1>2, <1>3, <1>11, <1>12 DEF Wrote
<1> QED
  BY <1>3, <1>6, <1>10, <1>11, <1>13

LEMMA SealedAny ==
  ASSUME NEW b, IsSeq(b), AllCells(b), NEW f, f = Sealed(b)
  PROVE  IsSeq(f) /\ \A k \in 1..Len(f) : AnyCell(f[k])
<1>1. PICK n \in Nat : n = Len(b)
  BY DEF IsSeq
<1>2. /\ IsSeq(f) /\ Len(f) = n + 2 /\ \A k \in 1..n : f[k] = b[k]
      /\ f[n + 1] = [t |-> "hash", of |-> b] /\ f[n + 2] = [t |-> "end"]
  BY <1>1, SealedCells
<1>3. AnyCell([t |-> "end"]) /\ AnyCell([t |-> "hash", of |-> b])
  BY DEF AnyCell, IsFooterCell
<1>4. \A k \in 1..(n + 2) : k \in 1..n \/ k = n + 1 \/ k = n + 2
  OBVIOUS
<1>5. \A k \in 1..n : AnyCell(b[k])
  BY <1>1 DEF AllCells, AnyCell
<1> QED
  BY <1>2, <1>3, <1>4, <1>5

LEMMA CutFirst ==
  ASSUME NEW f, IsSeq(f), NEW b, IsSeq(b), Len(b) <= Len(f), \A k \in 1..Len(b) : f[k] = b[k]
  PROVE  SubSeq(f, 1, Len(b)) = b
<1>1. PICK n \in Nat : n = Len(b)
  BY DEF IsSeq
<1>2. PICK c : c = SubSeq(f, 1, n)
  OBVIOUS
<1>3. IsSeq(c) /\ Len(c) = n /\ \A k \in 1..n : c[k] = f[k]
  <2>1. 0 \in Nat /\ 0 <= n /\ n <= Len(f) /\ 0 + 1 = 1 /\ n - 0 = n /\ \A k \in 1..n : 0 + k = k
    BY <1>1
  <2>2. /\ IsSeq(SubSeq(f, 0 + 1, n)) /\ Len(SubSeq(f, 0 + 1, n)) = n - 0
        /\ \A k \in 1..(n - 0) : SubSeq(f, 0 + 1, n)[k] = f[0 + k]
    BY <2>1, CutIs
  <2> QED
    BY <1>2, <2>1, <2>2
<1>4. Len(c) = Len(b) /\ \A k \in 1..Len(c) : c[k] = b[k]
  BY <1>1, <1>3
<1> QED
  BY <1>1, <1>2, <1>3, <1>4, SameSeq

LEMMA SealedCut ==
  ASSUME NEW b, IsSeq(b), NEW f, f = Sealed(b)
  PROVE  SubSeq(f, 1, Len(f) - 2) = b
<1>1. PICK n \in Nat : n = Len(b)
  BY DEF IsSeq
<1>2. /\ IsSeq(f) /\ Len(f) = Len(b) + 2 /\ \A k \in 1..Len(b) : f[k] = b[k]
      /\ f[Len(b) + 1] = [t |-> "hash", of |-> b] /\ f[Len(b) + 2] = [t |-> "end"]
  BY SealedCells
<1>3. Len(b) <= Len(f) /\ Len(f) - 2 = Len(b)
  BY <1>1, <1>2
<1>4. SubSeq(f, 1, Len(b)) = b
  BY <1>2, <1>3, CutFirst
<1> QED
  BY <1>3, <1>4

LEMMA SealedBody ==
  ASSUME NEW b, IsSeq(b), file = Sealed(b)
  PROVE  Body = b
<1>1. PICK f : f = file
  OBVIOUS
<1>2. SubSeq(f, 1, Len(f) - 2) = b
  BY <1>1, SealedCut
<1>3. Body = SubSeq(f, 1, Len(f) - 2)
  BY <1>1, ConstantsAre DEF Body
<1> QED
  BY <1>2, <1>3

LEMMA AssemblyKept ==
  ASSUME UNCHANGED vars
  PROVE  NSegs' = NSegs /\ \A m, ls : Assembly(m, ls)' = Assembly(m, ls)
<1>1. UNCHANGED <<path, stage, at, entries, result>>
  BY DEF vars
<1>2. NSegs' = NSegs
  BY <1>1, PathFixed
<1>3. \A m, ls : Assembly(m, ls)' = Assembly(m, ls)
  BY <1>1, <1>2 DEF Assembly
<1> QED
  BY <1>2, <1>3

\* assemble runs before there is a file.
LEMMA AssembleFInv == ASSUME FInv, AssembleStep PROVE FInv'
<1>1. Step /\ UNCHANGED fileVars
  BY DEF AssembleStep
<1>2. UNCHANGED <<file, edits, damaged, reading, expected, segments, outcome>>
  BY <1>1 DEF fileVars
<1>3. path' = path /\ result = Working
  BY <1>1 DEF Step, EmptyPath, SegmentStops, SegmentPasses, PassEnds, HashesMissing,
              HashesPresent, Assembled, Abort
<1>4. IInv'
  BY <1>1, StepIInv DEF FInv, Next
<1>5. reading = "NoFile"
  <2>1. result.kind = "Working"
    BY <1>3 DEF Working
  <2> QED
    BY <2>1 DEF FInv
<1>6. outcome = "None"
  BY <1>5 DEF FInv
<1> QED
  BY <1>2, <1>3, <1>4, <1>5, <1>6 DEF FInv

LEMMA WriteFInv == ASSUME FInv, WriteFile PROVE FInv'
<1>1. /\ result.kind = "Container" /\ reading = "NoFile" /\ Fits(file')
      /\ reading' = "Written" /\ UNCHANGED <<vars, edits, damaged, expected, segments, outcome>>
  BY DEF WriteFile
<1>2. PICK m \in MetaLens, ls \in [1..NSegs -> BlobLens] : file' = Stored(Assembly(m, ls))
  BY DEF WriteFile
<1>3. PICK c, g : c = Assembly(m, ls) /\ g = file' /\ g = Stored(c)
  BY <1>2
<1>4. /\ edits = 0 /\ ~damaged /\ path \in Paths /\ IInv /\ outcome = "None" /\ segments = <<>>
      /\ edits \in Nat /\ damaged \in BOOLEAN
  BY <1>1 DEF FInv
<1>5. /\ IsContainer(c) /\ AllCells(c.meta) /\ NSegs \in Nat
      /\ Len(c.segments) = NSegs /\ \A i \in 1..NSegs : AllCells(c.segments[i].blob)
  BY <1>1, <1>3, <1>4, AssemblyIs DEF Assembles
<1>6. PICK b : b = BodyOf(c)
  OBVIOUS
<1>7. BodyLen(c) \in Nat /\ IsSeq(b) /\ Len(b) = BodyLen(c)
  <2>1. BodyLen(c) \in Nat
    BY <1>5, InBody
  <2>2. PICK z : z = [k \in 1..BodyLen(c) |-> Zero]
    OBVIOUS
  <2>3. IsSeq(z) /\ Len(z) = BodyLen(c)
    BY <2>1, <2>2 DEF IsSeq
  <2> QED
    BY <1>5, <1>6, <2>1, <2>3, BodyIs
<1>8. g = Sealed(b)
  BY <1>3, <1>6 DEF Stored, BodyOf
<1>9. Len(g) = BodyLen(c) + 2
  BY <1>7, <1>8, SealedCells
<1>10. BodyLen(c) <= UsizeMax
  <2>1. Len(g) <= UsizeMax \div 2
    BY <1>1, <1>3 DEF Fits
  <2> QED
    BY <1>7, <1>9, <2>1, ConstantsAre
<1>11. AllCells(b)
  BY <1>5, <1>6, <1>10, StoredCells
<1>12. IsSeq(g) /\ \A k \in 1..Len(g) : AnyCell(g[k])
  BY <1>7, <1>8, <1>11, SealedAny
<1>13. FileOK'
  <2>1. FileFrom(b)'
    BY <1>1, <1>3, <1>4, <1>7, <1>8, <1>11 DEF FileFrom
  <2>2. IsSeq(file') /\ (\A k \in 1..Len(file') : AnyCell(file'[k])) /\ Fits(file')
    BY <1>1, <1>3, <1>12
  <2>3. damaged' \in BOOLEAN
    BY <1>1, <1>4
  <2> QED
    BY <2>1, <2>2, <2>3 DEF FileOK
<1>14. IInv' /\ path' = path /\ result' = result
  BY <1>1, <1>4, StepIInv DEF vars
<1>15. Wrote(c, m, ls)'
  BY <1>1, <1>2, <1>3, <1>4, <1>13, <1>14, AssemblyKept DEF Wrote
<1>16. \E c1, m1, ls1 : Wrote(c1, m1, ls1)'
  BY <1>15
<1> QED
  BY <1>1, <1>4, <1>13, <1>14, <1>16 DEF FInv

LEMMA OtherFInv == ASSUME FInv, WrittenOtherwise PROVE FInv'
<1>1. /\ reading = "Written" /\ ~damaged /\ Fits(file') /\ edits' = edits + 1
      /\ UNCHANGED <<vars, damaged, reading, expected, segments, outcome>>
  BY DEF WrittenOtherwise, CanEdit
<1>2. /\ FileOK /\ IInv /\ path \in Paths /\ result.kind = "Container" /\ edits \in Nat
      /\ segments = <<>> /\ outcome = "None"
  BY <1>1 DEF FInv
<1>3. PICK b : IsSeq(b) /\ AllCells(b) /\ file = Sealed(b)
  BY <1>1, <1>2 DEF FileOK, FileFrom
<1>4. Body = b
  BY <1>3, SealedBody
<1>5. PICK d : d \in Edits(b) \cup {Append(b, Zero)} /\ file' = Sealed(d)
  BY <1>4 DEF WrittenOtherwise
<1>6. IsSeq(d) /\ AllCells(d)
  <2>1. CASE d \in Edits(b)
    <3>1. \A k \in 1..Len(b) : AnyCell(b[k])
      BY <1>3 DEF AllCells, AnyCell
    <3> QED
      BY <1>3, <2>1, <3>1, EditsAre, EditsCells
  <2>2. CASE d = Append(b, Zero)
    <3>1. PICK n \in Nat : n = Len(b)
      BY <1>3 DEF IsSeq
    <3>2. /\ IsSeq(d) /\ Len(d) = n + 1 /\ \A k \in 1..n : d[k] = b[k]
          /\ d[n + 1] = Zero
      BY <1>3, <2>2, <3>1, Appended
    <3>3. \A k \in 1..(n + 1) : k \in 1..n \/ k = n + 1
      OBVIOUS
    <3> QED
      BY <1>3, <3>1, <3>2, <3>3, PlainCells DEF AllCells
  <2> QED
    BY <1>5, <2>1, <2>2
<1>7. PICK g : g = file'
  OBVIOUS
<1>8. IsSeq(g) /\ \A k \in 1..Len(g) : AnyCell(g[k])
  BY <1>5, <1>6, <1>7, SealedAny
<1>9. FileOK'
  <2>1. FileFrom(d)'
    BY <1>1, <1>5, <1>6 DEF FileFrom
  <2>2. IsSeq(file') /\ (\A k \in 1..Len(file') : AnyCell(file'[k])) /\ Fits(file')
    BY <1>1, <1>7, <1>8
  <2>3. damaged' \in BOOLEAN
    BY <1>1 DEF FInv
  <2> QED
    BY <2>1, <2>2, <2>3 DEF FileOK
<1>10. IInv' /\ path' = path /\ result' = result
  BY <1>1, <1>2, StepIInv DEF vars
<1>11. edits' \in Nat /\ edits' # 0
  BY <1>1, <1>2
<1> QED
  BY <1>1, <1>2, <1>9, <1>10, <1>11 DEF FInv

LEMMA DamageFInv == ASSUME FInv, Damage PROVE FInv'
<1>1. /\ reading = "Written" /\ edits = 0 /\ Fits(file') /\ edits' = edits + 1
      /\ damaged' = TRUE /\ UNCHANGED <<vars, reading, expected, segments, outcome>>
  BY DEF Damage, CanEdit
<1>2. /\ FileOK /\ IInv /\ path \in Paths /\ result.kind = "Container" /\ ~damaged
      /\ segments = <<>> /\ outcome = "None"
  BY <1>1 DEF FInv
<1>3. PICK b : IsSeq(b) /\ AllCells(b) /\ file = Sealed(b)
  BY <1>2 DEF FileOK, FileFrom
<1>4. PICK g : g = file' /\ g \in Edits(file) /\ g # file
  BY DEF Damage
<1>5. IsSeq(g) /\ \A k \in 1..Len(g) : AnyCell(g[k])
  <2>1. IsSeq(file) /\ \A k \in 1..Len(file) : AnyCell(file[k])
    BY <1>2 DEF FileOK
  <2> QED
    BY <1>4, <2>1, EditsAre, EditsCells
<1>6. FileOK'
  <2>1. FileFrom(b)'
    BY <1>1, <1>3, <1>4 DEF FileFrom
  <2>2. IsSeq(file') /\ (\A k \in 1..Len(file') : AnyCell(file'[k])) /\ Fits(file')
    BY <1>1, <1>4, <1>5
  <2> QED
    BY <1>1, <2>1, <2>2 DEF FileOK
<1>7. IInv' /\ path' = path /\ result' = result
  BY <1>1, <1>2, StepIInv DEF vars
<1>8. edits' \in Nat /\ edits' # 0
  BY <1>1
<1> QED
  BY <1>1, <1>2, <1>6, <1>7, <1>8 DEF FInv

\* What a step of the reader leaves true.
LEMMA ReadKept ==
  ASSUME FInv, reading # "NoFile", UNCHANGED <<vars, file, edits, damaged>>
  PROVE  /\ path' \in Paths /\ IInv' /\ edits' \in Nat /\ damaged' \in BOOLEAN
         /\ edits' = 0 => ~damaged'
         /\ result'.kind = "Container" /\ FileOK /\ FileOK'
         /\ edits' = 0 => \E c, m, ls : Wrote(c, m, ls)'
         /\ edits' = 0 => \E c, m, ls : Wrote(c, m, ls)
<1>1. path' = path /\ result' = result
  BY DEF vars
<1>2. FileOK /\ FileOK' /\ IInv'
  BY FileKept DEF FInv
<1>3. ASSUME edits' = 0
      PROVE  /\ \E c, m, ls : Wrote(c, m, ls)'
             /\ \E c, m, ls : Wrote(c, m, ls)
  <2>1. PICK c, m, ls : Wrote(c, m, ls)
    BY <1>3 DEF FInv
  <2>2. Wrote(c, m, ls)'
    BY <2>1, FileKept
  <2> QED
    BY <2>1, <2>2
<1> QED
  BY <1>1, <1>2, <1>3 DEF FInv

LEMMA AcceptHeaderFInv == ASSUME FInv, HeaderAccepted PROVE FInv'
<1>1. /\ reading = "Written" /\ Passed(HeaderChecks) /\ reading' = "Segments"
      /\ expected' = BlobsOff /\ UNCHANGED <<vars, file, edits, damaged, segments, outcome>>
  BY DEF HeaderAccepted
<1>2. /\ path' \in Paths /\ IInv' /\ edits' \in Nat /\ damaged' \in BOOLEAN
      /\ edits' = 0 => ~damaged'
      /\ result'.kind = "Container" /\ FileOK /\ FileOK'
      /\ edits' = 0 => \E c, m, ls : Wrote(c, m, ls)'
  BY <1>1, ReadKept
<1>3. segments = <<>> /\ outcome = "None"
  BY <1>1 DEF FInv
<1>4. HeaderGood
  BY <1>1, HeaderPassed
<1>5. Reads(<<>>, BlobsOff)
  <2>1. PICK ss : ss = <<>>
    OBVIOUS
  <2>2. IsSeq(ss) /\ Len(ss) = 0
    BY <2>1 DEF IsSeq
  <2>3. BlobsBefore(ss, 0 + 1) = 0
    <3>1. Len(ss) \in Nat
      BY <2>2
    <3>2. BlobsBefore(ss, 1) = 0
      BY <3>1, BlobsBeforeIs
    <3> QED
      BY <3>2
  <2>4. PICK b, n \in Nat : b = BlobsOff /\ b <= FooterStart /\ n = Count
    BY <1>2, <1>4, HeaderIs
  <2>5. b = b + 0 /\ 0 <= n
    OBVIOUS
  <2>6. Reads(ss, b)
    BY <1>4, <2>2, <2>3, <2>4, <2>5 DEF Reads
  <2> QED
    BY <2>1, <2>4, <2>6
<1>6. Reads(segments, expected)'
  <2>1. PICK ss, e : ss = segments' /\ e = expected'
    OBVIOUS
  <2>2. Reads(ss, e)
    BY <1>1, <1>3, <1>5, <2>1
  <2>3. Reads(ss, e)'
    BY <1>1, <2>2, FileKept
  <2> QED
    BY <2>1, <2>3 DEF Reads, Taken
<1> QED
  BY <1>1, <1>2, <1>3, <1>6 DEF FInv

LEMMA RejectHeaderFInv == ASSUME FInv, HeaderRejected PROVE FInv'
<1>1. /\ reading = "Written" /\ RejectBy(HeaderChecks) /\ reading' = "Done"
      /\ UNCHANGED <<vars, file, edits, damaged, expected, segments>>
  BY DEF HeaderRejected
<1>2. /\ path' \in Paths /\ IInv' /\ edits' \in Nat /\ damaged' \in BOOLEAN
      /\ edits' = 0 => ~damaged'
      /\ result'.kind = "Container" /\ FileOK /\ FileOK'
      /\ edits' = 0 => \E c, m, ls : Wrote(c, m, ls)'
      /\ edits' = 0 => \E c, m, ls : Wrote(c, m, ls)
  BY <1>1, ReadKept
<1>3. /\ outcome' # "Ok" /\ ~Passed(HeaderChecks)
      /\ outcome' = "Panic" =>
           /\ Header.t = "head"
           /\ MetaLen + Align - 1 > UsizeMax \/ HeaderLen + MetaLen > TableOff
  BY <1>1, HeaderRefused
<1>4. edits' # 0
  <2>1. ASSUME NEW c, NEW m, NEW ls, Wrote(c, m, ls) PROVE FALSE
    BY <1>3, <2>1, WroteHeader, HeaderPassed
  <2> QED
    BY <1>2, <2>1
<1>5. ASSUME outcome' = "Panic" PROVE FALSE
  <2>1. PICK h : h = Header /\ h.t = "head" /\ h = Cell(1)
    BY <1>3, <1>5 DEF Header
  <2>2. h # Junk
    BY <2>1 DEF Junk
  <2>3. AnyCell(h)
    <3>1. 1 \in DOMAIN file /\ h = file[1]
      BY <2>1, <2>2 DEF Cell
    <3> QED
      BY <1>2, <3>1 DEF FileOK, IsSeq
  <2>4. IsHead(h)
    BY <2>1, <2>3, CellIs
  <2>5. "metaLen" \in DOMAIN h
    BY <2>4, HeadIs
  <2>6. PICK m \in Nat : m = MetaLen /\ m <= U32Max
    <3>1. MetaLen = h.metaLen
      BY <2>1, <2>5 DEF MetaLen, Number
    <3> QED
      BY <2>4, <3>1, ConstantsAre DEF IsHead
  <2>7. Paddable(m)
    BY <2>6, ConstantsAre DEF Paddable
  <2>8. Pad(m) \in Nat /\ m <= Pad(m)
    BY <2>7, PadIs
  <2>9. TableOff = 2 + Pad(m)
    BY <2>6, ConstantsAre DEF TableOff
  <2>10. ~(MetaLen + Align - 1 > UsizeMax)
    BY <2>6, <2>7, ConstantsAre DEF Paddable
  <2>11. ~(2 + m > 2 + Pad(m))
    BY <2>8
  <2>12. ~(HeaderLen + MetaLen > TableOff)
    BY <2>6, <2>9, <2>11, ConstantsAre
  <2> QED
    BY <1>3, <1>5, <2>10, <2>12
<1> QED
  BY <1>1, <1>2, <1>3, <1>4, <1>5 DEF FInv

\* The reader stays within the file, whatever the table says.
LEMMA ExtentStaysIn ==
  ASSUME FileOK, Reads(segments, expected), Len(segments) < Count, RejectBy(ExtentChecks)
  PROVE  outcome' # "Ok" /\ outcome' # "Panic" /\ ~Passed(ExtentChecks)
<1>1. /\ outcome' # "Ok" /\ ~Passed(ExtentChecks)
      /\ outcome' = "Panic" =>
           \/ EntryAt + EntryLen > Len(file)
           \/ /\ ~(BlobEnd > FooterStart)
              /\ BlobEnd + Align - 1 > UsizeMax \/ BlobEnd > Len(file)
  BY ExtentRefused
<1>2. PICK f \in Nat : /\ f = FooterStart /\ Len(file) = f + 2
                       /\ \A k \in 1..Len(file) : Cell(k) = file[k]
  BY GoodFile DEF Reads
<1>3. PICK x, n \in Nat : x = expected /\ n = Len(segments)
  BY ReadsAre
<1>4. PICK t, q \in Nat : t = TableOff /\ q = Count /\ t + 2 * q <= f /\ n < q
  BY <1>2, <1>3, HeaderIs, ConstantsAre DEF Reads
<1>5. PICK a \in Nat : a = EntryAt /\ a = t + 2 * n
  <2>1. t + n * 2 \in Nat /\ t + n * 2 = t + 2 * n
    OBVIOUS
  <2> QED
    BY <1>3, <1>4, <2>1, ConstantsAre DEF EntryAt
<1>6. a + 2 <= f
  BY <1>4, <1>5
<1>7. ~(EntryAt + EntryLen > Len(file))
  <2>1. ~(a + 2 > f + 2)
    BY <1>6
  <2> QED
    BY <1>2, <1>5, <2>1, ConstantsAre
<1>8. PICK c : c = file[a + 2] /\ c = Cell(EntryAt + 2) /\ AnyCell(c)
  <2>1. a + 2 \in 1..Len(file)
    BY <1>2, <1>6
  <2> QED
    BY <1>2, <1>5, <2>1 DEF FileOK
<1>9. PICK l \in Nat : l = BlobLen
  <2>1. CASE "len" \in DOMAIN c
    <3>1. IsExtent(c)
      BY <1>8, <2>1, CellIs
    <3>2. BlobLen = c.len
      BY <1>8, <2>1 DEF BlobLen, Number
    <3> QED
      BY <3>1, <3>2, ConstantsAre DEF IsExtent
  <2>2. CASE "len" \notin DOMAIN c
    <3>1. BlobLen = UsizeMax
      BY <1>8, <2>2 DEF BlobLen, Number
    <3> QED
      BY <3>1, ConstantsAre
  <2> QED
    BY <2>1, <2>2
<1>10. BlobEnd = x + l
  BY <1>3, <1>9 DEF BlobEnd
<1>11. f + 2 <= UsizeMax \div 2
  BY <1>2 DEF FileOK, Fits
<1>12. ASSUME x + l <= f PROVE x + l + Align - 1 <= UsizeMax /\ x + l <= f + 2
  BY <1>11, <1>12, ConstantsAre
<1>13. ~(BlobEnd > FooterStart) => ~(BlobEnd + Align - 1 > UsizeMax) /\ ~(BlobEnd > Len(file))
  BY <1>2, <1>10, <1>12, ConstantsAre
<1> QED
  BY <1>1, <1>7, <1>13

LEMMA AcceptSegmentFInv == ASSUME FInv, SegmentAccepted PROVE FInv'
<1>1. /\ reading = "Segments" /\ Len(segments) < Count /\ Passed(ExtentChecks)
      /\ Passed(ContentChecks(Cells(expected + 1, BlobEnd)))
      /\ segments' = Append(segments,
           [node |-> Number(Refs, "node"), base |-> Number(Refs, "base"),
            child |-> Number(Refs, "child"), hash |-> Text(Refs, "hash"),
            blob |-> Cells(expected + 1, BlobEnd)])
      /\ expected' = Pad(BlobEnd)
      /\ UNCHANGED <<vars, file, edits, damaged, reading, outcome>>
  BY DEF SegmentAccepted
<1>2. /\ path' \in Paths /\ IInv' /\ edits' \in Nat /\ damaged' \in BOOLEAN
      /\ edits' = 0 => ~damaged'
      /\ result'.kind = "Container" /\ FileOK /\ FileOK'
      /\ edits' = 0 => \E c, m, ls : Wrote(c, m, ls)'
  BY <1>1, ReadKept
<1>3. Reads(segments, expected) /\ outcome = "None" /\ path \in Paths
  BY <1>1 DEF FInv
<1>4. PICK b : b = Cells(expected + 1, BlobEnd) /\ ContentGood(b)
  BY <1>1, ContentPassed
<1>5. ExtentGood
  BY <1>1, ExtentPassed
<1>6. PICK ss, e : ss = segments' /\ e = expected'
  OBVIOUS
<1>7. ss = Append(segments,
             [node |-> Number(Refs, "node"), base |-> Number(Refs, "base"),
              child |-> Number(Refs, "child"), hash |-> Text(Refs, "hash"), blob |-> b])
  BY <1>1, <1>4, <1>6
<1>8. Reads(ss, Pad(BlobEnd))
  BY <1>1, <1>2, <1>3, <1>4, <1>5, <1>7, TakesOne
<1>9. Reads(ss, e)'
  BY <1>1, <1>6, <1>8, FileKept
<1>10. Reads(segments, expected)'
  BY <1>6, <1>9 DEF Reads, Taken
<1> QED
  BY <1>1, <1>2, <1>3, <1>10 DEF FInv

LEMMA RejectSegmentFInv == ASSUME FInv, SegmentRejected PROVE FInv'
<1>1. /\ reading = "Segments" /\ Len(segments) < Count
      /\ \/ RejectBy(ExtentChecks)
         \/ Passed(ExtentChecks) /\ RejectBy(ContentChecks(Cells(expected + 1, BlobEnd)))
      /\ reading' = "Done" /\ UNCHANGED <<vars, file, edits, damaged, expected, segments>>
  BY DEF SegmentRejected
<1>2. /\ path' \in Paths /\ IInv' /\ edits' \in Nat /\ damaged' \in BOOLEAN
      /\ edits' = 0 => ~damaged'
      /\ result'.kind = "Container" /\ FileOK /\ FileOK'
      /\ edits' = 0 => \E c, m, ls : Wrote(c, m, ls)'
      /\ edits' = 0 => \E c, m, ls : Wrote(c, m, ls)
  BY <1>1, ReadKept
<1>3. Reads(segments, expected)
  BY <1>1 DEF FInv
<1>4. /\ outcome' # "Ok" /\ outcome' # "Panic"
      /\ ~Passed(ExtentChecks) \/ ~Passed(ContentChecks(Cells(expected + 1, BlobEnd)))
  <2>1. CASE RejectBy(ExtentChecks)
    BY <1>1, <1>2, <1>3, <2>1, ExtentStaysIn
  <2>2. CASE RejectBy(ContentChecks(Cells(expected + 1, BlobEnd)))
    BY <2>2, ContentRefused
  <2> QED
    BY <1>1, <2>1, <2>2
<1>5. edits' # 0
  <2>1. ASSUME NEW c, NEW m, NEW ls, Wrote(c, m, ls) PROVE FALSE
    <3>1. ExtentGood /\ ContentGood(Cells(expected + 1, BlobEnd))
      BY <1>1, <1>3, <2>1, WroteExtent, WroteContent
    <3> QED
      BY <1>4, <3>1, ExtentPassed, ContentPassed
  <2> QED
    BY <1>2, <2>1
<1> QED
  BY <1>1, <1>2, <1>4, <1>5 DEF FInv

LEMMA EndsFInv == ASSUME FInv, ReadEnds PROVE FInv'
<1>1. /\ reading = "Segments" /\ Len(segments) = Count
      /\ \/ Passed(EndChecks) /\ outcome' = "Ok"
         \/ RejectBy(EndChecks)
      /\ reading' = "Done" /\ UNCHANGED <<vars, file, edits, damaged, expected, segments>>
  BY DEF ReadEnds
<1>2. /\ path' \in Paths /\ IInv' /\ edits' \in Nat /\ damaged' \in BOOLEAN
      /\ edits' = 0 => ~damaged'
      /\ result'.kind = "Container" /\ FileOK /\ FileOK'
      /\ edits' = 0 => \E c, m, ls : Wrote(c, m, ls)'
      /\ edits' = 0 => \E c, m, ls : Wrote(c, m, ls)
  BY <1>1, ReadKept
<1>3. Reads(segments, expected)
  BY <1>1 DEF FInv
<1>4. CASE Passed(EndChecks) /\ outcome' = "Ok"
  <2>1. expected = FooterStart /\ ((Number(Header, "flags") = 1) <=> AllEpochs)
    BY <1>4, EndPassed
  <2>2. /\ FooterStart' = FooterStart /\ Count' = Count /\ Header' = Header
        /\ Reads(segments, expected)'
    <3>1. PICK ss, e : ss = segments' /\ e = expected' /\ ss = segments /\ e = expected
      BY <1>1
    <3>2. Reads(ss, e)'
      BY <1>1, <1>3, <3>1, FileKept
    <3>3. Reads(segments, expected)'
      BY <3>1, <3>2 DEF Reads, Taken
    <3> QED
      BY <1>1, <3>3, FileKept
  <2>3. AllEpochs' <=> AllEpochs
    <3>1. path' = path /\ segments' = segments
      BY <1>1 DEF vars
    <3> QED
      BY <3>1, PathFixed DEF AllEpochs
  <2>4. ((Number(Header, "flags") = 1) <=> AllEpochs)'
    BY <2>1, <2>2, <2>3 DEF Number
  <2> QED
    BY <1>1, <1>2, <1>4, <2>1, <2>2, <2>4 DEF FInv
<1>5. CASE RejectBy(EndChecks)
  <2>1. outcome' \notin {"Ok", "Panic"} /\ ~Passed(EndChecks)
    BY <1>5, EndPassed
  <2>2. edits' # 0
    <3>1. ASSUME NEW c, NEW m, NEW ls, Wrote(c, m, ls) PROVE FALSE
      BY <1>1, <1>3, <2>1, <3>1, WroteEnd, EndPassed
    <3> QED
      BY <1>2, <3>1
  <2> QED
    BY <1>1, <1>2, <2>1, <2>2 DEF FInv
<1> QED
  BY <1>1, <1>4, <1>5

LEMMA StaysFInv == ASSUME FInv, UNCHANGED allVars PROVE FInv'
<1>1. /\ UNCHANGED <<vars, file, edits, damaged>>
      /\ UNCHANGED <<reading, expected, segments, outcome>>
  BY DEF allVars, fileVars
<1>2. path' = path /\ result' = result /\ IInv'
  BY <1>1, StepIInv DEF vars, FInv
<1>3. CASE reading = "NoFile"
  BY <1>1, <1>2, <1>3 DEF FInv
<1>4. CASE reading # "NoFile"
  <2>1. /\ path' \in Paths /\ IInv' /\ edits' \in Nat /\ damaged' \in BOOLEAN
        /\ edits' = 0 => ~damaged'
        /\ result'.kind = "Container" /\ FileOK /\ FileOK'
        /\ edits' = 0 => \E c, m, ls : Wrote(c, m, ls)'
    BY <1>1, <1>4, ReadKept
  <2>2. /\ FooterStart' = FooterStart /\ Count' = Count /\ Header' = Header
        /\ Reads(segments, expected)' <=> Reads(segments, expected)
    <3>1. PICK ss, e : ss = segments' /\ e = expected' /\ ss = segments /\ e = expected
      BY <1>1
    <3>2. Reads(ss, e)' <=> Reads(ss, e)
      BY <1>1, FileKept
    <3>3. Reads(segments, expected)' <=> Reads(ss, e)'
      BY <3>1 DEF Reads, Taken
    <3> QED
      BY <1>1, <3>1, <3>2, <3>3, FileKept
  <2>3. AllEpochs' <=> AllEpochs
    BY <1>1, <1>2, PathFixed DEF AllEpochs
  <2>4. ((Number(Header, "flags") = 1) <=> AllEpochs)' <=>
          ((Number(Header, "flags") = 1) <=> AllEpochs)
    BY <2>2, <2>3 DEF Number
  <2> QED
    BY <1>1, <1>4, <2>1, <2>2, <2>4 DEF FInv
<1> QED
  BY <1>3, <1>4

LEMMA InitFInv == FileInit => FInv
<1> SUFFICES ASSUME FileInit PROVE FInv
  OBVIOUS
<1>1. path \in Paths /\ IInv
  BY InitIInv DEF FileInit, Init
<1> QED
  BY <1>1 DEF FileInit, FInv

LEMMA StepFInv == FInv /\ [FileNext]_allVars => FInv'
<1> SUFFICES ASSUME FInv, [FileNext]_allVars PROVE FInv'
  OBVIOUS
<1>1. CASE AssembleStep
  BY <1>1, AssembleFInv
<1>2. CASE WriteFile
  BY <1>2, WriteFInv
<1>3. CASE WrittenOtherwise
  BY <1>3, OtherFInv
<1>4. CASE Damage
  BY <1>4, DamageFInv
<1>5. CASE ReadStep
  BY <1>5, AcceptHeaderFInv, RejectHeaderFInv, AcceptSegmentFInv, RejectSegmentFInv, EndsFInv
     DEF ReadStep
<1>6. CASE Over
  BY <1>6, StaysFInv DEF Over
<1>7. CASE UNCHANGED allVars
  BY <1>7, StaysFInv
<1> QED
  BY <1>1, <1>2, <1>3, <1>4, <1>5, <1>6, <1>7 DEF FileNext

LEMMA InvariantFInv == FileSpec => []FInv
BY InitFInv, StepFInv, PTL DEF FileSpec

-----------------------------------------------------------------------------
\* The theorems of the file

\* Whatever may stand in the header and the table, no offset or length makes the
\* reader add past usize or take a slice outside of the file: the bound each
\* check sets is enough for the arithmetic that follows it (container.rs:8-11,
\* 269-280).
THEOREM ReaderIsTotal == FileSpec => []ReaderNeverPanics
<1>1. FInv => ReaderNeverPanics
  BY DEF FInv, ReaderNeverPanics
<1> QED
  BY <1>1, InvariantFInv, PTL

\* A file that is accepted, whoever wrote it and with any number of segments,
\* can be replayed from its table alone (container.rs:309-358).
THEOREM AcceptedReplays == FileSpec => []AcceptedIsReplayable
<1>1. FInv => AcceptedIsReplayable
  <2> SUFFICES ASSUME FInv, outcome = "Ok" PROVE AcceptedIsReplayable
    BY DEF AcceptedIsReplayable
  <2>1. FileOK /\ Reads(segments, expected)
    BY DEF FInv
  <2> QED
    BY <2>1, ReadsReplay
<1> QED
  BY <1>1, InvariantFInv, PTL

\* A container has one encoding: whatever has become of a file, the reader
\* accepts it only when it is undamaged and is, cell for cell, what write makes
\* of the container it holds (container.rs:3-6, 182-184).
THEOREM OneEncoding == FileSpec => []AcceptedIsCanonical
<1>1. FInv => AcceptedIsCanonical
  <2> SUFFICES ASSUME FInv, outcome = "Ok" PROVE ~damaged /\ file = Stored(Container)
    BY DEF AcceptedIsCanonical
  <2>1. /\ FileOK /\ Reads(segments, FooterStart) /\ Len(segments) = Count
        /\ (Number(Header, "flags") = 1) <=> AllEpochs
    BY DEF FInv
  <2>2. HeaderGood
    BY <2>1 DEF Reads
  <2> QED
    BY <2>1, <2>2, DamageIsSeen, ReadsCanonical
<1> QED
  BY <1>1, InvariantFInv, PTL

\* What assemble lets through, write and read bring back unchanged, for paths of
\* every length and META and blobs of every length a Vec can hold: R1 to R6 are
\* enough for every check the reader makes (assemble.rs:59-80,
\* container.rs:117-376).
THEOREM ReadBack == FileSpec => []AssembledIsReadBack
<1>1. FInv => AssembledIsReadBack
  <2> SUFFICES ASSUME FInv, reading = "Done", edits = 0
               PROVE  /\ outcome = "Ok"
                      /\ \E m \in MetaLens, ls \in [1..NSegs -> BlobLens] :
                           Container = Assembly(m, ls)
    BY DEF AssembledIsReadBack
  <2>1. /\ outcome = "Ok" /\ Reads(segments, expected) /\ Len(segments) = Count
    BY DEF FInv
  <2>2. PICK c, m, ls : Wrote(c, m, ls)
    BY DEF FInv
  <2>3. Container = c
    BY <2>1, <2>2, WroteEnd
  <2>4. m \in MetaLens /\ ls \in [1..NSegs -> BlobLens] /\ c = Assembly(m, ls)
    BY <2>2 DEF Wrote
  <2> QED
    BY <2>1, <2>3, <2>4
<1> QED
  BY <1>1, InvariantFInv, PTL
=============================================================================
