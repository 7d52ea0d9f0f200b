----------------------- MODULE MockHypervisorProofs -----------------------
(***************************************************************************)
(* What holds of a verify_segment call for every set of segments and every *)
(* budget, and of bisect, which makes such calls, for any number of runs.  *)
(* Struct is the shape of the two searches, which no hash value disturbs;  *)
(* Truth is what the probes have established about the first divergent     *)
(* icount: their conjunction is inductive.  Cost adds what the search may  *)
(* still spend, and DriverInv carries the invariant of the call through    *)
(* the driver, with what each phase knows.                                 *)
(*                                                                         *)
(* Induction over a number is the existence of a least one in a set of     *)
(* naturals that is not empty (LeastNatural, SetInduction).                *)
(***************************************************************************)
EXTENDS BisectDriver, WellFoundedInduction, TLAPS

\* Both searches keep their bounds in order and their window tied to them.
Struct ==
  /\ pc = "start" => outcome = "Pending" /\ eb < ea /\ lo = 0 /\ hi = seg.end
  /\ pc = "epochs" =>
       /\ outcome = "Pending" /\ bisecting
       /\ ea <= eb + 1
       /\ IF firstBad = 0 THEN eb = NEpochs ELSE eb = firstBad - 1
       /\ lo = IF ea > 1 THEN seg.at[ea - 1] ELSE 0
       /\ hi = IF firstBad > 0 THEN seg.at[firstBad] ELSE seg.end
  /\ pc = "narrow" => outcome = "Pending" /\ bisecting /\ lo <= na /\ na <= nb /\ nb = hi
  /\ pc = "done" => outcome # "Pending"
  /\ EpochSearchCut => Exhausted

\* What is known of the first divergent icount of a genuine recording.
Truth ==
  Genuine(seg) =>
    /\ pc = "epochs" => Holds(lo, hi)
    /\ (pc = "narrow" /\ ~EpochSearchCut) => Holds(na, nb)
    /\ (pc = "done" /\ outcome = "Diverged" /\ ~EpochSearchCut) => Holds(lo, hi)
    /\ (pc = "done" /\ outcome = "Diverged" /\ bisecting /\ ~Exhausted)
         => lo = seg.defect /\ hi = seg.defect

IInv == TypeOK /\ Struct /\ Truth

-----------------------------------------------------------------------------
\* Induction, and what is computed by halving

\* Every non-empty set of naturals has a least element.
LEMMA LeastNatural ==
  ASSUME NEW T, T \subseteq Nat, T # {}
  PROVE  \E x \in T : \A y \in T : x <= y
<1> DEFINE R == {ss \in Nat \X Nat : ss[1] < ss[2]}
<1>1. IsWellFoundedOn(R, Nat)
  BY NatLessThanWellFounded DEF OpToRel
<1>2. \A x, y \in Nat : <<y, x>> \notin R => x <= y
  OBVIOUS
<1> HIDE DEF R
<1>3. \E x \in T : \A y \in T : <<y, x>> \notin R
  BY <1>1, WFMin
<1>4. QED
  BY <1>2, <1>3

\* Induction, for the numbers of a set instead of those with a property.
LEMMA SetInduction ==
  ASSUME NEW T, 0 \in T, \A n \in Nat : n \in T => n + 1 \in T
  PROVE  Nat \subseteq T
<1> DEFINE C == Nat \ T
<1> SUFFICES ASSUME C # {} PROVE FALSE
  OBVIOUS
<1>1. PICK x \in C : \A y \in C : x <= y
  BY LeastNatural
<1>2. x # 0 /\ x - 1 \in Nat /\ x - 1 \notin C
  BY <1>1
<1>3. QED
  BY <1>2, x - 1 + 1 = x

\* g counts halvings on 0..k.
Counts(g, k) ==
  /\ g \in [0..k -> Nat]
  /\ \A m \in 0..k : g[m] = IF m = 0 THEN 0 ELSE 1 + g[m \div 2]

\* Halving a positive number makes it smaller.
LEMMA HalfIsLess == \A n \in Nat \ {0} : n \div 2 \in 0..(n - 1)
  BY SMT

LEMMA CountsExists == \A k \in Nat : \E g : Counts(g, k)
<1> DEFINE T == {k \in Nat : \E g : Counts(g, k)}
<1>1. 0 \in T
  <2>1. Counts([m \in 0..0 |-> 0], 0)
    BY DEF Counts
  <2>2. QED
    BY <2>1
<1>2. ASSUME NEW k \in Nat, k \in T PROVE k + 1 \in T
  <2>1. PICK g : Counts(g, k)
    BY <1>2
  <2> DEFINE last == 1 + g[(k + 1) \div 2]
             h == [m \in 0..(k + 1) |-> IF m = k + 1 THEN last ELSE g[m]]
  <2>2. (k + 1) \div 2 \in 0..k
    BY HalfIsLess
  <2>3. last \in Nat
    BY <2>1, <2>2 DEF Counts
  <2>4. h \in [0..(k + 1) -> Nat]
    BY <2>1, <2>3 DEF Counts
  <2>5. ASSUME NEW m \in 0..(k + 1)
        PROVE  h[m] = IF m = 0 THEN 0 ELSE 1 + h[m \div 2]
    <3>1. CASE m = k + 1
      BY <2>2, <3>1
    <3>2. CASE m \in 0..k
      <4>1. m # 0 => m \div 2 \in 0..(m - 1)
        BY <3>2, HalfIsLess
      <4>2. h[m] = g[m] /\ (m # 0 => h[m \div 2] = g[m \div 2])
        BY <3>2, <4>1
      <4>3. QED
        BY <2>1, <3>2, <4>2 DEF Counts
    <3>3. QED
      BY <3>1, <3>2
  <2>6. Counts(h, k + 1)
    <3> HIDE DEF h
    <3>1. QED
      BY <2>4, <2>5 DEF Counts
  <2>7. QED
    BY <2>6
<1>3. QED
  <2> HIDE DEF T
  <2>1. Nat \subseteq T
    BY <1>1, <1>2, SetInduction
  <2>2. QED
    BY <2>1 DEF T

LEMMA CountsAgree ==
  ASSUME NEW g, NEW j \in Nat, Counts(g, j), NEW h, NEW k \in Nat, Counts(h, k),
         NEW n \in Nat, n <= j, n <= k
  PROVE  g[n] = h[n]
<1> DEFINE T == {m \in 0..n : g[m] # h[m]}
<1> SUFFICES ASSUME T # {} PROVE FALSE
  OBVIOUS
<1>1. PICK m \in T : \A i \in T : m <= i
  <2>1. T \subseteq Nat
    OBVIOUS
  <2> HIDE DEF T
  <2>2. QED
    BY <2>1, LeastNatural
<1>2. m \in 0..j /\ m \in 0..k /\ g[m] # h[m]
  OBVIOUS
<1>3. CASE m = 0
  BY <1>2, <1>3 DEF Counts
<1>4. CASE m # 0
  <2>1. m \div 2 \in 0..(m - 1)
    BY <1>4, HalfIsLess
  <2>2. g[m \div 2] = h[m \div 2]
    BY <1>1, <2>1
  <2>3. QED
    BY <1>2, <1>4, <2>2 DEF Counts
<1>5. QED
  BY <1>3, <1>4

\* The recursive definition defines a function on the naturals.
LEMMA HalvingsDefined ==
  /\ Halvings \in [Nat -> Nat]
  /\ \A n \in Nat : Halvings[n] = IF n = 0 THEN 0 ELSE 1 + Halvings[n \div 2]
<1> DEFINE upTo(k) == CHOOSE g : Counts(g, k)
           h == [n \in Nat |-> upTo(n)[n]]
           body(f) == [n \in Nat |-> IF n = 0 THEN 0 ELSE 1 + f[n \div 2]]
<1>1. \A k \in Nat : Counts(upTo(k), k)
  BY CountsExists
<1> HIDE DEF upTo
<1>2. h \in [Nat -> Nat]
  BY <1>1 DEF Counts
<1>3. ASSUME NEW n \in Nat PROVE h[n] = IF n = 0 THEN 0 ELSE 1 + h[n \div 2]
  <2>1. Counts(upTo(n), n)
    BY <1>1
  <2>2. CASE n = 0
    BY <2>1, <2>2 DEF Counts
  <2>3. CASE n # 0
    <3>1. PICK m \in 0..(n - 1) : m = n \div 2
      BY <2>3, HalfIsLess
    <3>2. upTo(n)[m] = upTo(m)[m]
      BY <1>1, <3>1, CountsAgree
    <3>3. upTo(n)[n] = 1 + upTo(n)[m]
      BY <2>1, <2>3, <3>1 DEF Counts
    <3>4. QED
      BY <2>3, <3>1, <3>2, <3>3
  <2>4. QED
    BY <2>2, <2>3
<1>4. h = body(h)
  BY <1>2, <1>3
<1>5. Halvings = CHOOSE f : f = body(f)
  BY DEF Halvings
<1>6. Halvings = body(Halvings)
  <2> HIDE DEF h, body
  <2>1. QED
    BY <1>4, <1>5
<1>7. \A n \in Nat : Halvings[n] = IF n = 0 THEN 0 ELSE 1 + Halvings[n \div 2]
  BY <1>6
<1>8. Halvings \in [Nat -> Nat]
  <2> DEFINE T == {n \in Nat : Halvings[n] \notin Nat}
  <2>1. T = {}
    <3> SUFFICES ASSUME T # {} PROVE FALSE
      OBVIOUS
    <3>1. PICK n \in T : \A i \in T : n <= i
      <4>1. T \subseteq Nat
        OBVIOUS
      <4> HIDE DEF T
      <4>2. QED
        BY <4>1, LeastNatural
    <3>2. CASE n = 0
      BY <1>7, <3>2
    <3>3. CASE n # 0
      <4>1. n \div 2 \in 0..(n - 1)
        BY <3>3, HalfIsLess
      <4>2. Halvings[n \div 2] \in Nat
        BY <3>1, <4>1
      <4>3. QED
        BY <1>7, <3>3, <4>2
    <3>4. QED
      BY <3>2, <3>3
  <2>2. DOMAIN Halvings = Nat /\ Halvings = [n \in Nat |-> Halvings[n]]
    BY <1>6
  <2>3. QED
    BY <2>1, <2>2
<1>9. QED
  BY <1>7, <1>8

\* A larger number is halved no fewer times.
LEMMA HalvingsMonotone == \A m, n \in Nat : m <= n => Halvings[m] <= Halvings[n]
<1> DEFINE T == {n \in Nat : \E m \in 0..n : ~(Halvings[m] <= Halvings[n])}
<1> SUFFICES ASSUME T # {} PROVE FALSE
  OBVIOUS
<1>1. PICK n \in T : \A i \in T : n <= i
  <2>1. T \subseteq Nat
    OBVIOUS
  <2> HIDE DEF T
  <2>2. QED
    BY <2>1, LeastNatural
<1>2. PICK m \in 0..n : ~(Halvings[m] <= Halvings[n])
  OBVIOUS
<1>3. m # 0 /\ n # 0
  BY <1>2, HalvingsDefined
<1>4. /\ n \div 2 \in 0..(n - 1) /\ m \div 2 \in Nat /\ m \div 2 <= n \div 2
  BY <1>2, <1>3, SMT
<1>5. Halvings[m \div 2] <= Halvings[n \div 2]
  <2>1. n \div 2 \notin T
    BY <1>1, <1>4
  <2>2. QED
    BY <1>4, <2>1
<1>6. QED
  BY <1>2, <1>3, <1>4, <1>5, HalvingsDefined

-----------------------------------------------------------------------------
\* The call

\* The midpoint of a non-empty interval lies in it (mock.rs:361, 401).
LEMMA Midpoint ==
  ASSUME NEW a \in Nat, NEW b \in Nat, a <= b
  PROVE  /\ (a + b) \div 2 \in a..b
         /\ a + (b - a) \div 2 \in a..b
         /\ a < b => a + (b - a) \div 2 < b
  BY SMT

\* A segment of the model has the shape IsSegment gives it.
LEMMA SegmentShape ==
  ASSUME seg \in Segments
  PROVE  /\ NEpochs \in Nat
         /\ seg.end \in Nat /\ seg.defect \in Nat
         /\ \A i \in 1..NEpochs : seg.at[i] \in Nat /\ seg.at[i] <= seg.end
         /\ \A i, j \in 1..NEpochs : i <= j => seg.at[i] <= seg.at[j]
  BY SegmentsAssumption DEF IsSegment, NEpochs

\* A genuine recording that diverges does so no later than its end.
LEMMA DivergesByEnd ==
  ASSUME seg \in Segments, Genuine(seg), HonestVerdict(seg) = "Diverged"
  PROVE  Holds(0, seg.end)
<1>1. /\ seg.tampered = {} /\ ~seg.badEnd
      /\ \A k \in 1..NEpochs : EpochDiffers(seg, k) => seg.defect < seg.at[k]
  BY DEF Genuine, EpochDiffers
<1>2. \/ \E k \in 1..NEpochs : EpochDiffers(seg, k)
      \/ ChainDiffers(seg, seg.end)
  <2>1. ASSUME \A k \in 1..NEpochs : ~EpochDiffers(seg, k), ~ChainDiffers(seg, seg.end)
        PROVE  HonestVerdict(seg) # "Diverged"
    BY <1>1, <2>1, Zenon DEF HonestVerdict, NEpochs
  <2>2. QED
    BY <2>1
<1>3. seg.defect <= seg.end
  BY <1>1, <1>2, SegmentShape DEF ChainDiffers
<1>4. QED
  BY <1>3, SegmentShape DEF Holds

LEMMA InitIInv == Init => IInv
<1> SUFFICES ASSUME Init PROVE IInv
  OBVIOUS
<1>1. seg \in Segments /\ seg.end \in Nat /\ NEpochs \in Nat
  BY SegmentShape DEF Init
<1>2. TypeOK
  BY <1>1, BudgetsAssumption DEF Init, TypeOK, Outcomes
<1>3. Struct /\ Truth
  BY <1>1 DEF Init, Struct, Truth, EpochSearchCut
<1>4. QED
  BY <1>2, <1>3 DEF IInv

LEMMA EpochProbeIInv == ASSUME IInv, EpochProbe PROVE IInv'
<1> DEFINE mid == (ea + eb) \div 2
<1>1. /\ pc = "epochs" /\ pc' = "epochs" /\ ea <= eb
      /\ seg \in Segments /\ seg' = seg /\ NEpochs' = NEpochs
      /\ used' = used + 1 /\ runs' = runs + 1 /\ maxRuns' = maxRuns /\ used < maxRuns
      /\ bisecting' = bisecting /\ baseOk' = baseOk /\ runIndex' = runIndex
      /\ na' = na /\ nb' = nb /\ outcome' = outcome
  BY DEF IInv, TypeOK, EpochProbe, ProbeBilled, UnchangedCall, Exhausted, NEpochs
<1>2. /\ ea \in 1..NEpochs /\ eb \in 1..NEpochs
      /\ mid \in ea..eb /\ mid \in 1..NEpochs
  BY <1>1, SegmentShape, Midpoint DEF IInv, TypeOK
<1>3. \/ ~EpochDiffers(seg, mid) /\ EpochGood(mid)
      \/ EpochDiffers(seg, mid) /\ EpochBad(mid)
  BY DEF EpochProbe
<1>4. CASE ~EpochDiffers(seg, mid) /\ EpochGood(mid)
  <2>1. /\ ea' = mid + 1 /\ eb' = eb /\ firstBad' = firstBad /\ hi' = hi
        /\ lo' = seg.at[mid]
    BY <1>1, <1>2, <1>4, SegmentShape DEF IInv, Struct, EpochGood, Higher
  <2>2. TypeOK'
    BY <1>1, <1>2, <2>1, SegmentShape DEF IInv, TypeOK, Outcomes, Faults
  <2>3. Struct'
    BY <1>1, <1>2, <2>1, SegmentShape DEF IInv, TypeOK, Struct, EpochSearchCut
  <2>4. Genuine(seg) => Holds(lo', hi)
    BY <1>1, <1>2, <1>4, <2>1, SegmentShape DEF IInv, Truth, Holds, EpochDiffers
  <2>5. Truth'
    BY <1>1, <2>1, <2>4 DEF Truth, Holds, Genuine, EpochSearchCut
  <2>6. QED
    BY <2>2, <2>3, <2>5 DEF IInv
<1>5. CASE EpochDiffers(seg, mid) /\ EpochBad(mid)
  <2>1. /\ ea' = ea /\ eb' = mid - 1 /\ firstBad' = mid /\ lo' = lo
        /\ hi' = seg.at[mid]
    <3>1. seg.at[mid] <= hi
      BY <1>1, <1>2, SegmentShape DEF IInv, TypeOK, Struct
    <3>2. QED
      BY <1>1, <1>2, <1>5, <3>1, SegmentShape DEF IInv, TypeOK, EpochBad, Lower
  <2>2. TypeOK'
    BY <1>1, <1>2, <2>1, SegmentShape DEF IInv, TypeOK, Outcomes, Faults
  <2>3. Struct'
    BY <1>1, <1>2, <2>1, SegmentShape DEF IInv, TypeOK, Struct, EpochSearchCut
  <2>4. Genuine(seg) => Holds(lo, hi')
    BY <1>1, <1>2, <1>5, <2>1, SegmentShape DEF IInv, Truth, Holds, EpochDiffers, Genuine
  <2>5. Truth'
    BY <1>1, <2>1, <2>4 DEF Truth, Holds, Genuine, EpochSearchCut
  <2>6. QED
    BY <2>2, <2>3, <2>5 DEF IInv
<1>6. QED
  BY <1>3, <1>4, <1>5

LEMMA EpochSearchEndsIInv == ASSUME IInv, EpochSearchEnds PROVE IInv'
<1>1. /\ pc = "epochs" /\ pc' = "narrow" /\ (ea > eb \/ Exhausted)
      /\ seg \in Segments /\ seg' = seg /\ NEpochs' = NEpochs
      /\ used' = used /\ runs' = runs /\ maxRuns' = maxRuns
      /\ bisecting' = bisecting /\ baseOk' = baseOk /\ runIndex' = runIndex
      /\ ea' = ea /\ eb' = eb /\ firstBad' = firstBad /\ outcome' = outcome
      /\ na' = lo' /\ nb' = hi'
  BY DEF IInv, TypeOK, EpochSearchEnds, Unbilled, UnchangedCall, IcountSearchFrom, NEpochs
<1>2. hi' = hi
  BY <1>1, SegmentShape DEF IInv, TypeOK, Struct, EpochSearchEnds, Lower
<1>3. lo' \in Nat /\ lo' <= hi' /\ (ea > eb => lo' = lo)
  BY <1>1, <1>2, SegmentShape DEF IInv, TypeOK, Struct, EpochSearchEnds, Higher
<1>4. TypeOK'
  BY <1>1, <1>2, <1>3, SegmentShape DEF IInv, TypeOK
<1>5. Struct'
  BY <1>1, <1>2, <1>3, SegmentShape DEF IInv, TypeOK, Struct, EpochSearchCut, Exhausted
<1>6. Truth'
  BY <1>1, <1>2, <1>3, SegmentShape DEF IInv, TypeOK, Truth, Holds, Genuine, EpochSearchCut
<1>7. QED
  BY <1>4, <1>5, <1>6 DEF IInv

LEMMA NarrowProbeIInv == ASSUME IInv, NarrowProbe PROVE IInv'
<1> DEFINE mid == na + (nb - na) \div 2
<1>1. /\ pc = "narrow" /\ pc' = "narrow" /\ na < nb
      /\ seg \in Segments /\ seg' = seg /\ NEpochs' = NEpochs
      /\ used' = used + 1 /\ runs' = runs + 1 /\ maxRuns' = maxRuns /\ used < maxRuns
      /\ bisecting' = bisecting /\ baseOk' = baseOk /\ runIndex' = runIndex
      /\ ea' = ea /\ eb' = eb /\ firstBad' = firstBad /\ outcome' = outcome
      /\ ~EpochSearchCut
  BY DEF IInv, TypeOK, Struct, NarrowProbe, ProbeBilled, UnchangedCall, Exhausted, NEpochs
<1>2. mid \in na..nb /\ mid < nb /\ mid \in Nat
  BY <1>1, Midpoint DEF IInv, TypeOK
<1>3. \/ ~ChainDiffers(seg, mid) /\ na' = mid + 1 /\ lo' = mid /\ nb' = nb /\ hi' = hi
      \/ ChainDiffers(seg, mid) /\ nb' = mid /\ hi' = mid /\ na' = na /\ lo' = lo
  BY DEF NarrowProbe
<1>4. TypeOK'
  BY <1>1, <1>2, <1>3, SegmentShape DEF IInv, TypeOK, Struct
<1>5. Struct'
  BY <1>1, <1>2, <1>3, SegmentShape DEF IInv, TypeOK, Struct, EpochSearchCut
<1>6. Truth'
  BY <1>1, <1>2, <1>3, SegmentShape
     DEF IInv, TypeOK, Truth, Holds, Genuine, EpochSearchCut, ChainDiffers
<1>7. QED
  BY <1>4, <1>5, <1>6 DEF IInv

LEMMA ConfirmProbeIInv == ASSUME IInv, ConfirmProbe PROVE IInv'
<1>1. /\ pc = "narrow" /\ pc' = "done" /\ na = nb /\ outcome' = "Diverged"
      /\ seg \in Segments /\ seg' = seg /\ NEpochs' = NEpochs
      /\ used' = used + 1 /\ runs' = runs + 1 /\ maxRuns' = maxRuns /\ used < maxRuns
      /\ bisecting' = bisecting /\ baseOk' = baseOk /\ runIndex' = runIndex
      /\ ea' = ea /\ eb' = eb /\ firstBad' = firstBad /\ na' = na /\ nb' = nb
      /\ ~EpochSearchCut
      /\ IF ChainDiffers(seg, na) THEN lo' = na /\ hi' = na ELSE lo' = lo /\ hi' = hi
  BY DEF IInv, TypeOK, Struct, ConfirmProbe, Confirmed, ProbeBilled, UnchangedCall,
         UnchangedSearch, Exhausted, NEpochs, Return
<1>2. TypeOK'
  BY <1>1, SegmentShape DEF IInv, TypeOK, Struct, Outcomes
<1>3. Struct'
  BY <1>1 DEF Struct, EpochSearchCut
<1>4. Truth'
  BY <1>1, SegmentShape
     DEF IInv, TypeOK, Struct, Truth, Holds, Genuine, EpochSearchCut, ChainDiffers
<1>5. QED
  BY <1>2, <1>3, <1>4 DEF IInv

LEMMA NarrowingCutIInv == ASSUME IInv, NarrowingCut PROVE IInv'
<1>1. /\ pc = "narrow" /\ pc' = "done" /\ Exhausted /\ Exhausted' /\ outcome' = "Diverged"
      /\ seg \in Segments /\ seg' = seg /\ NEpochs' = NEpochs
      /\ used' = used /\ runs' = runs /\ maxRuns' = maxRuns
      /\ bisecting' = bisecting /\ baseOk' = baseOk /\ runIndex' = runIndex
      /\ ea' = ea /\ eb' = eb /\ firstBad' = firstBad /\ na' = na /\ nb' = nb
      /\ lo' = lo /\ hi' = hi
  BY DEF IInv, TypeOK, NarrowingCut, Unbilled, UnchangedCall, UnchangedSearch, Exhausted,
         NEpochs, Return
<1>2. TypeOK'
  BY <1>1 DEF IInv, TypeOK, Outcomes
<1>3. Struct'
  BY <1>1 DEF Struct, EpochSearchCut
<1>4. Truth'
  BY <1>1, SegmentShape DEF IInv, TypeOK, Struct, Truth, Holds, Genuine, EpochSearchCut
<1>5. QED
  BY <1>2, <1>3, <1>4 DEF IInv

\* The steps of a call that has not started: refused, answered by the honest
\* replay alone, or handed to native bisection.
LEMMA StartIInv == ASSUME IInv, Refuse \/ ReplayAndReturn \/ ReplayAndBisect PROVE IInv'
<1>1. /\ pc = "start" /\ eb < ea /\ seg \in Segments /\ seg' = seg /\ NEpochs' = NEpochs
      /\ maxRuns' = maxRuns /\ bisecting' = bisecting /\ baseOk' = baseOk
      /\ na' = na /\ nb' = nb /\ lo' \in Nat /\ hi' \in 0..seg.end
  BY SegmentShape DEF IInv, TypeOK, Struct, Refuse, ReplayAndReturn, ReplayAndBisect,
     UnchangedCall, UnchangedSearch, NEpochs
<1>2. CASE Refuse
  <2>1. /\ pc' = "done" /\ outcome' \in {"BaseMismatch", "NoBudget"}
        /\ used' = used /\ runs' = runs /\ runIndex' = runIndex
        /\ ea' = ea /\ eb' = eb /\ firstBad' = firstBad
    BY <1>2 DEF Refuse, Return, Unbilled, UnchangedSearch
  <2>2. QED
    BY <1>1, <2>1 DEF IInv, TypeOK, Struct, Truth, EpochSearchCut, Outcomes, Faults
<1>3. CASE ReplayAndReturn
  <2>1. /\ pc' = "done" /\ outcome' = HonestVerdict(seg)
        /\ outcome' = "Diverged" => ~bisecting
        /\ used' = used + 1 /\ runs' = runs + 1 /\ runIndex' = runs /\ used < maxRuns
        /\ ea' = ea /\ eb' = eb /\ firstBad' = firstBad
        /\ lo' = 0 /\ hi' = seg.end
    BY <1>3 DEF IInv, TypeOK, ReplayAndReturn, Return, ProbeBilled, UnchangedSearch, Exhausted
  <2>2. HonestVerdict(seg) \in Outcomes \ {"Pending"}
    BY Zenon DEF HonestVerdict, Outcomes, Faults
  <2>3. TypeOK'
    BY <1>1, <2>1, <2>2 DEF IInv, TypeOK
  <2>4. Struct'
    BY <1>1, <2>1, <2>2 DEF IInv, TypeOK, Struct, EpochSearchCut
  <2>5. Truth'
    BY <1>1, <2>1, DivergesByEnd DEF Truth, Holds, Genuine
  <2>6. QED
    BY <2>3, <2>4, <2>5 DEF IInv
<1>4. CASE ReplayAndBisect
  <2>1. /\ pc' = "epochs" /\ outcome' = outcome /\ bisecting
        /\ HonestVerdict(seg) = "Diverged"
        /\ used' = used + 1 /\ runs' = runs + 1 /\ runIndex' = runs /\ used < maxRuns
        /\ ea' = 1 /\ eb' = NEpochs /\ firstBad' = 0
        /\ lo' = 0 /\ hi' = seg.end
    BY <1>4 DEF IInv, TypeOK, ReplayAndBisect, ProbeBilled, Exhausted
  <2>2. TypeOK'
    BY <1>1, <2>1, SegmentShape DEF IInv, TypeOK
  <2>3. Struct'
    BY <1>1, <2>1, SegmentShape DEF IInv, Struct, EpochSearchCut
  <2>4. Truth'
    BY <1>1, <2>1, DivergesByEnd DEF Truth, Holds, Genuine
  <2>5. QED
    BY <2>2, <2>3, <2>4 DEF IInv
<1>5. QED
  BY <1>2, <1>3, <1>4

LEMMA StepIInv == IInv /\ [Next]_vars => IInv'
<1> SUFFICES ASSUME IInv, [Next]_vars PROVE IInv'
  OBVIOUS
<1>1. CASE Refuse \/ ReplayAndReturn \/ ReplayAndBisect
  BY <1>1, StartIInv
<1>2. CASE EpochProbe
  BY <1>2, EpochProbeIInv
<1>3. CASE EpochSearchEnds
  BY <1>3, EpochSearchEndsIInv
<1>4. CASE NarrowProbe
  BY <1>4, NarrowProbeIInv
<1>5. CASE ConfirmProbe
  BY <1>5, ConfirmProbeIInv
<1>6. CASE NarrowingCut
  BY <1>6, NarrowingCutIInv
<1>7. CASE UNCHANGED vars
  BY <1>7 DEF IInv, TypeOK, Struct, Truth, EpochSearchCut, Exhausted, Holds, NEpochs,
     vars, callVars
<1>8. QED
  BY <1>1, <1>2, <1>3, <1>4, <1>5, <1>6, <1>7 DEF Next, CallStep, Returned

LEMMA InvariantIInv == Spec => []IInv
<1>1. QED
  BY InitIInv, StepIInv, PTL DEF Spec

\* Every reachable state of a call has the types the code's integers have.
THEOREM TypeCorrect == Spec => []TypeOK
<1>1. IInv => TypeOK
  BY DEF IInv
<1>2. QED
  BY <1>1, InvariantIInv, PTL

\* For every segment, defect and budget: as long as the epoch search was not
\* cut short, native bisection's window holds the first divergent icount.
THEOREM WindowSoundness == Spec => []WindowSound
<1>1. IInv => WindowSound
  <2> SUFFICES ASSUME IInv, Genuine(seg), ~EpochSearchCut,
                      pc \in {"epochs", "narrow", "done"},
                      outcome \in {"Pending", "Diverged"}
               PROVE  Holds(lo, hi)
    BY DEF WindowSound
  <2>1. CASE pc = "epochs"
    BY <2>1 DEF IInv, Truth
  <2>2. CASE pc = "narrow"
    BY <2>2, SegmentShape DEF IInv, TypeOK, Struct, Truth, Holds
  <2>3. CASE pc = "done"
    BY <2>3 DEF IInv, Struct, Truth
  <2>4. QED
    BY <2>1, <2>2, <2>3
<1>2. QED
  BY <1>1, InvariantIInv, PTL

\* For every segment and defect: a call that returns a divergence with runs
\* to spare has closed its window on the first divergent icount.
THEOREM Resolution == Spec => []ResolvedUnlessExhausted
<1>1. IInv => ResolvedUnlessExhausted
  BY DEF IInv, Struct, Truth, TypeOK, ResolvedUnlessExhausted
<1>2. QED
  BY <1>1, InvariantIInv, PTL

\* For every segment, defect and budget: no step of either search gives back
\* what an earlier probe established.
THEOREM NoWidening == Spec => WindowNeverWidens
<1>1. IInv /\ [Next]_vars => [pc # "start" => lo' >= lo /\ hi' <= hi]_vars
  <2> SUFFICES ASSUME IInv, Next, pc # "start", ~UNCHANGED vars
               PROVE  lo' >= lo /\ hi' <= hi
    BY DEF IInv, TypeOK
  <2> USE SegmentShape DEF IInv, TypeOK
  <2>1. CASE EpochProbe
    <3>1. (ea + eb) \div 2 \in ea..eb
      BY <2>1, Midpoint DEF EpochProbe
    <3>2. EpochGood((ea + eb) \div 2) \/ EpochBad((ea + eb) \div 2)
      BY <2>1 DEF EpochProbe
    <3>3. QED
      BY <2>1, <3>1, <3>2 DEF EpochProbe, EpochGood, EpochBad, Higher, Lower
  <2>2. CASE EpochSearchEnds
    BY <2>2 DEF EpochSearchEnds, Higher, Lower
  <2>3. CASE NarrowProbe
    BY <2>3, Midpoint DEF NarrowProbe, Struct
  <2>4. CASE ConfirmProbe
    BY <2>4 DEF ConfirmProbe, Confirmed, Struct
  <2>5. CASE NarrowingCut
    BY <2>5 DEF NarrowingCut
  <2>6. QED
    BY <2>1, <2>2, <2>3, <2>4, <2>5
       DEF Next, CallStep, Refuse, ReplayAndReturn, ReplayAndBisect, Returned
<1>2. QED
  BY <1>1, InvariantIInv, PTL DEF Spec, WindowNeverWidens

\* The runs already spent and those the search may still spend.
Cost ==
  /\ pc = "start" => runs = runIndex
  /\ pc = "epochs" => runs - runIndex + Halvings[eb - ea + 1] <= 1 + Halvings[NEpochs]
  /\ pc = "narrow" =>
       runs - runIndex + Halvings[nb - na] <= 1 + Halvings[NEpochs] + Halvings[seg.end]
  /\ pc = "done" => runs - runIndex <= 2 + Halvings[NEpochs] + Halvings[seg.end]

\* A search that keeps at most half of n pays a run with the halving.
LEMMA HalvingPays ==
  ASSUME NEW n \in Nat \ {0}, NEW m \in Nat, m <= n \div 2
  PROVE  1 + Halvings[m] <= Halvings[n] /\ Halvings[m] \in Nat /\ Halvings[n] \in Nat
<1>1. PICK h \in Nat : h = n \div 2
  BY HalfIsLess
<1>2. Halvings[m] <= Halvings[h] /\ Halvings[n] = 1 + Halvings[h]
  BY <1>1, HalvingsMonotone, HalvingsDefined
<1>3. QED
  BY <1>1, <1>2, HalvingsDefined

LEMMA StepCost == ASSUME IInv, Cost, CallStep PROVE Cost'
<1>1. /\ seg \in Segments /\ seg' = seg /\ NEpochs' = NEpochs
      /\ NEpochs \in Nat /\ seg.end \in Nat /\ runs \in Nat /\ runIndex \in Nat
      /\ Halvings[NEpochs] \in Nat /\ Halvings[seg.end] \in Nat
  BY SegmentShape, HalvingsDefined
     DEF IInv, TypeOK, CallStep, Refuse, ReplayAndReturn, ReplayAndBisect, EpochProbe,
     EpochSearchEnds, NarrowProbe, ConfirmProbe, NarrowingCut, UnchangedCall, NEpochs
<1>2. CASE Refuse \/ ReplayAndReturn \/ ReplayAndBisect
  <2>1. pc = "start" /\ runs = runIndex
    BY <1>2 DEF Cost, Refuse, ReplayAndReturn, ReplayAndBisect
  <2>2. CASE Refuse
    BY <1>1, <2>1, <2>2 DEF Cost, Refuse, Return, Unbilled
  <2>3. CASE ReplayAndReturn
    BY <1>1, <2>1, <2>3 DEF Cost, ReplayAndReturn, Return, ProbeBilled
  <2>4. CASE ReplayAndBisect
    <3>1. /\ pc' = "epochs" /\ ea' = 1 /\ eb' = NEpochs /\ runIndex' = runs /\ runs' = runs + 1
      BY <2>4 DEF ReplayAndBisect, ProbeBilled
    <3>2. eb' - ea' + 1 = NEpochs /\ runs' - runIndex' = 1
      BY <1>1, <3>1
    <3>3. QED
      BY <1>1, <3>1, <3>2 DEF Cost
  <2>5. QED
    BY <1>2, <2>2, <2>3, <2>4
<1>3. CASE EpochProbe
  <2>1. /\ pc = "epochs" /\ pc' = pc /\ ea <= eb /\ ea \in Nat /\ eb \in Nat
        /\ runs' = runs + 1 /\ runIndex' = runIndex
    BY <1>3 DEF IInv, TypeOK, EpochProbe, ProbeBilled
  <2>2. \/ ea' = (ea + eb) \div 2 + 1 /\ eb' = eb
        \/ ea' = ea /\ eb' = (ea + eb) \div 2 - 1
    BY <1>3 DEF EpochProbe, EpochGood, EpochBad
  <2>3. PICK n \in Nat \ {0} : n = eb - ea + 1
    BY <2>1
  <2>4. /\ eb' - ea' + 1 \in Nat /\ eb' - ea' + 1 <= n \div 2
    BY <2>1, <2>2, <2>3, SMT
  <2>5. PICK m \in Nat : m = eb' - ea' + 1
    BY <2>4
  <2>6. 1 + Halvings[m] <= Halvings[n] /\ Halvings[m] \in Nat /\ Halvings[n] \in Nat
    BY <2>4, <2>5, HalvingPays
  <2>7. runs - runIndex + Halvings[n] <= 1 + Halvings[NEpochs]
    BY <2>1, <2>3 DEF Cost
  <2>8. runs' - runIndex' + Halvings[m] <= 1 + Halvings[NEpochs]
    BY <1>1, <2>1, <2>6, <2>7
  <2>9. QED
    BY <1>1, <2>1, <2>5, <2>8 DEF Cost
<1>4. CASE EpochSearchEnds
  <2>1. /\ pc = "epochs" /\ pc' = "narrow" /\ runs' = runs /\ runIndex' = runIndex
        /\ na' = lo' /\ nb' = hi'
    BY <1>4 DEF EpochSearchEnds, Unbilled, IcountSearchFrom
  <2>2. IInv'
    BY <1>4, EpochSearchEndsIInv
  <2>3. nb' - na' \in Nat /\ nb' - na' <= seg.end
    <3>1. na' <= nb' /\ na' \in Nat /\ nb' \in Nat /\ nb' \in 0..seg.end
      BY <1>1, <2>1, <2>2 DEF IInv, TypeOK, Struct
    <3>2. \A x, y, e \in Nat : x <= y /\ y \in 0..e => y - x \in Nat /\ y - x <= e
      OBVIOUS
    <3>3. QED
      BY ONLY <1>1, <3>1, <3>2
  <2>4. PICK m \in Nat : m = nb' - na'
    BY <2>3
  <2>5. Halvings[m] <= Halvings[seg.end] /\ Halvings[m] \in Nat
    BY <1>1, <2>3, <2>4, HalvingsMonotone, HalvingsDefined
  <2>6. PICK n \in Nat : n = eb - ea + 1
    BY <1>1, <2>1 DEF IInv, TypeOK, Struct
  <2>7. runs - runIndex <= 1 + Halvings[NEpochs]
    <3>1. runs - runIndex + Halvings[n] <= 1 + Halvings[NEpochs] /\ Halvings[n] \in Nat
      BY <2>1, <2>6, HalvingsDefined DEF Cost
    <3>2. QED
      BY <1>1, <3>1
  <2>8. runs' - runIndex' + Halvings[m] <= 1 + Halvings[NEpochs] + Halvings[seg.end]
    BY <1>1, <2>1, <2>5, <2>7
  <2>9. QED
    BY <1>1, <2>1, <2>4, <2>8 DEF Cost
<1>5. CASE NarrowProbe
  <2>1. /\ pc = "narrow" /\ pc' = pc /\ na < nb /\ na \in Nat /\ nb \in Nat
        /\ runs' = runs + 1 /\ runIndex' = runIndex
    BY <1>5 DEF IInv, TypeOK, NarrowProbe, ProbeBilled
  <2>2. \/ na' = na + (nb - na) \div 2 + 1 /\ nb' = nb
        \/ na' = na /\ nb' = na + (nb - na) \div 2
    BY <1>5 DEF NarrowProbe
  <2>3. PICK n \in Nat \ {0} : n = nb - na
    BY <2>1
  <2>4. /\ nb' - na' \in Nat /\ nb' - na' <= n \div 2
    BY <2>1, <2>2, <2>3, SMT
  <2>5. PICK m \in Nat : m = nb' - na'
    BY <2>4
  <2>6. 1 + Halvings[m] <= Halvings[n] /\ Halvings[m] \in Nat /\ Halvings[n] \in Nat
    BY <2>4, <2>5, HalvingPays
  <2>7. runs - runIndex + Halvings[n] <= 1 + Halvings[NEpochs] + Halvings[seg.end]
    BY <2>1, <2>3 DEF Cost
  <2>8. runs' - runIndex' + Halvings[m] <= 1 + Halvings[NEpochs] + Halvings[seg.end]
    BY <1>1, <2>1, <2>6, <2>7
  <2>9. QED
    BY <1>1, <2>1, <2>5, <2>8 DEF Cost
<1>6. CASE ConfirmProbe \/ NarrowingCut
  <2>1. /\ pc = "narrow" /\ pc' = "done" /\ runIndex' = runIndex
        /\ runs' = runs + 1 \/ runs' = runs
    BY <1>6 DEF ConfirmProbe, NarrowingCut, Return, ProbeBilled, Unbilled
  <2>2. PICK n \in Nat : n = nb - na
    BY <2>1 DEF IInv, TypeOK, Struct
  <2>3. /\ runs - runIndex + Halvings[n] <= 1 + Halvings[NEpochs] + Halvings[seg.end]
        /\ Halvings[n] \in Nat
    BY <2>1, <2>2, HalvingsDefined DEF Cost
  <2>4. runs' - runIndex' <= 2 + Halvings[NEpochs] + Halvings[seg.end]
    BY <1>1, <2>1, <2>3
  <2>5. QED
    BY <1>1, <2>1, <2>4 DEF Cost
<1>7. QED
  BY <1>2, <1>3, <1>4, <1>5, <1>6 DEF CallStep

\* For every segment and budget: a call costs at most the honest run, a probe
\* for every halving of the epoch list and of the icounts, and one to confirm.
THEOREM LogarithmicCost == Spec => []CostLogarithmic
<1>1. Init => Cost
  BY DEF Init, Cost
<1>2. IInv /\ Cost /\ [Next]_vars => Cost'
  <2>1. ASSUME Cost, UNCHANGED vars PROVE Cost'
    BY <2>1 DEF Cost, NEpochs, vars, callVars
  <2>2. QED
    BY <2>1, StepCost DEF Next, Returned
<1>3. IInv /\ Cost => CostLogarithmic
  <2> SUFFICES ASSUME IInv, Cost PROVE CostLogarithmic
    OBVIOUS
  <2>1. /\ runs \in Nat /\ runIndex \in Nat
        /\ Halvings[NEpochs] \in Nat /\ Halvings[seg.end] \in Nat
    BY SegmentShape, HalvingsDefined DEF IInv, TypeOK
  <2>2. CASE pc \in {"start", "done"}
    BY <2>1, <2>2 DEF Cost, CostLogarithmic
  <2>3. CASE pc = "epochs"
    <3>1. PICK n \in Nat : n = eb - ea + 1
      BY <2>3, SegmentShape DEF IInv, TypeOK, Struct
    <3>2. runs - runIndex + Halvings[n] <= 1 + Halvings[NEpochs] /\ Halvings[n] \in Nat
      BY <2>3, <3>1, HalvingsDefined DEF Cost
    <3>3. QED
      BY <2>1, <3>2 DEF CostLogarithmic
  <2>4. CASE pc = "narrow"
    <3>1. PICK n \in Nat : n = nb - na
      BY <2>4 DEF IInv, TypeOK, Struct
    <3>2. /\ runs - runIndex + Halvings[n] <= 1 + Halvings[NEpochs] + Halvings[seg.end]
          /\ Halvings[n] \in Nat
      BY <2>4, <3>1, HalvingsDefined DEF Cost
    <3>3. QED
      BY <2>1, <3>2 DEF CostLogarithmic
  <2>5. QED
    BY <2>2, <2>3, <2>4 DEF IInv, TypeOK
<1>4. QED
  BY <1>1, <1>2, <1>3, InvariantIInv, PTL DEF Spec

-----------------------------------------------------------------------------
\* The driver over the call

\* What the call has found is what the honest replay finds; and an epoch search
\* that was cut has at least a record between the two ends of its window.
Answered ==
  /\ pc \in {"epochs", "narrow"} => HonestVerdict(seg) = "Diverged"
  /\ (pc = "done" /\ outcome \notin {"BaseMismatch", "NoBudget"}) =>
       outcome = HonestVerdict(seg)
  /\ (EpochSearchCut /\ DistinctEpochs(seg)) => lo < hi \/ seg.end = 0

\* The outcome of the i-th Phase-1 run: the run's index decides a flake's hash.
PhaseOneOutcome(i) ==
  [verdict |-> HonestVerdict(seg), lo |-> 0, hi |-> seg.end,
   hash |-> ReplayEnd(seg, opts.before + i - 1)]

PhaseOneRuns ==
  /\ outcomes \in Seq({PhaseOneOutcome(i) : i \in Nat})
  /\ \A i \in 1..Len(outcomes) : outcomes[i] = PhaseOneOutcome(i)

\* Between two calls nothing is known of the hypervisor but its counters.
Counters ==
  /\ seg \in Segments /\ baseOk \in BOOLEAN /\ bisecting \in BOOLEAN
  /\ maxRuns \in Nat /\ used \in 0..maxRuns
  /\ runs \in Nat /\ runIndex \in Nat
  /\ opts.before \in Nat /\ opts.retries \in Nat /\ opts.skip \in BOOLEAN
  /\ runs = opts.before + used

\* A call of Phase 1 was given no bisection to do and a run to spend.
FlakeCall ==
  /\ ~bisecting /\ ~opts.skip
  /\ pc \in {"idle", "start", "done"}
  /\ pc # "done" => used = Len(outcomes)
  /\ pc = "start" => ~Exhausted
  /\ pc = "done" => outcome # "NoBudget"
  /\ (pc = "done" /\ outcome \notin Faults) =>
       /\ used = Len(outcomes) + 1 /\ runIndex = opts.before + Len(outcomes)
       /\ lo = 0 /\ hi = seg.end

NativeCall ==
  /\ bisecting /\ seg.flag
  /\ pc # "idle"
  /\ pc = "start" => ~Exhausted
  /\ pc = "done" => outcome # "NoBudget"

\* What a report says is so: its class is what Phase 1 saw, its window is the
\* segment or the one the native run returned.
Reported ==
  LET native == pc = "done" /\ outcome = "Diverged" /\ bisecting
                  /\ report.lo = lo /\ report.hi = hi
      verified == pc = "done" /\ outcome = "Verified"
  IN  /\ pc \in {"idle", "done"}
      /\ report.class = IF AllIdentical THEN "RecordedDivergence" ELSE "ReplayNondeterministic"
      /\ report.exact <=> report.lo = report.hi /\ report.class = "RecordedDivergence"
      /\ native \/ (report.lo = 0 /\ report.hi = seg.end)
      /\ report.budgetExhausted <=> Exhausted
      /\ (seg.flag /\ AllIdentical /\ ~Exhausted) => native \/ verified

DriverInv ==
  /\ Counters
  /\ pc # "idle" => IInv /\ Answered
  /\ PhaseOneRuns
  /\ phase \in {"flake", "diagnose", "native", "reported", "failed"}
  /\ phase = "flake" => FlakeCall
  /\ phase = "diagnose" => pc = "idle" /\ AllIdentical
  /\ phase = "native" => NativeCall /\ AllIdentical
  /\ phase = "failed" => pc = "done" /\ outcome \in Faults \ {"NoBudget"}
  /\ phase = "reported" => Reported

\* Runs of Phase 1 fall in one flake period if each falls in that of the next.
LEMMA PeriodsChain ==
  ASSUME NEW b \in Nat, NEW n \in Nat \ {0}, NEW p \in Nat \ {0}
  PROVE  (\A i \in 1..(n - 1) : (b + i - 1) \div p = (b + i) \div p)
           <=> b \div p = (b + n - 1) \div p
<1> DEFINE q(i) == (b + i) \div p
<1>1. \A i, j \in Nat : q(i) \in Nat /\ (i <= j => q(i) <= q(j))
  BY SMT
<1>2. \A i \in 1..(n - 1) : b + i - 1 = b + (i - 1) /\ i - 1 \in Nat /\ i \in Nat
  OBVIOUS
<1>3. b + n - 1 = b + (n - 1) /\ b = b + 0 /\ n - 1 \in Nat
  OBVIOUS
<1> SUFFICES (\A i \in 1..(n - 1) : q(i - 1) = q(i)) <=> q(0) = q(n - 1)
  BY <1>2, <1>3
<1> HIDE DEF q
<1>4. ASSUME \A i \in 1..(n - 1) : q(i - 1) = q(i)
      PROVE  q(0) = q(n - 1)
  <2> DEFINE T == {i \in Nat : i <= n - 1 => q(0) = q(i)}
  <2>1. \A i \in Nat : i \in T => i + 1 \in T
    <3> SUFFICES ASSUME NEW i \in Nat, i \in T, i + 1 <= n - 1
                 PROVE  q(0) = q(i + 1)
      OBVIOUS
    <3>1. i + 1 \in 1..(n - 1) /\ (i + 1) - 1 = i
      OBVIOUS
    <3>2. QED
      BY <1>4, <3>1
  <2>2. Nat \subseteq T
    <3>1. 0 \in T
      OBVIOUS
    <3> HIDE DEF T
    <3>2. QED
      BY <2>1, <3>1, SetInduction
  <2>3. QED
    BY <2>2, <1>3
<1>5. ASSUME q(0) = q(n - 1), NEW i \in 1..(n - 1)
      PROVE  q(i - 1) = q(i)
  <2>1. q(0) <= q(i - 1) /\ q(i - 1) <= q(i) /\ q(i) <= q(n - 1)
    BY <1>1
  <2>2. QED
    BY <1>1, <1>5, <2>1
<1>6. QED
  BY <1>4, <1>5
LEMMA InitDriverInv == DriverInit => DriverInv
<1> SUFFICES ASSUME DriverInit PROVE DriverInv
  OBVIOUS
<1>1. Counters
  <2>1. opts.before \in Nat /\ opts.retries \in Nat /\ opts.skip \in BOOLEAN
    BY DriverAssumption DEF DriverInit
  <2>2. maxRuns \in Nat /\ used \in 0..maxRuns /\ runs = opts.before + used /\ runIndex \in Nat
    BY <2>1, BudgetsAssumption DEF DriverInit
  <2>3. QED
    BY <2>1, <2>2 DEF DriverInit, Counters
<1>2. PhaseOneRuns /\ AllIdentical
  BY DEF DriverInit, PhaseOneRuns, AllIdentical
<1>3. QED
  BY <1>1, <1>2 DEF DriverInit, DriverInv, FlakeCall

\* A step of the call keeps to what the honest replay found.
LEMMA CallStepAnswered == ASSUME IInv, Answered, CallStep PROVE Answered'
<1> USE DEF Answered
<1>1. /\ seg \in Segments /\ seg' = seg /\ NEpochs' = NEpochs
      /\ DistinctEpochs(seg)' = DistinctEpochs(seg)
      /\ HonestVerdict(seg)' = HonestVerdict(seg)
  BY DEF IInv, TypeOK, CallStep, Refuse, ReplayAndReturn, ReplayAndBisect, EpochProbe,
     EpochSearchEnds, NarrowProbe, ConfirmProbe, NarrowingCut, UnchangedCall, NEpochs
<1>2. CASE Refuse \/ ReplayAndReturn \/ ReplayAndBisect
  <2>1. pc = "start" /\ ~(ea <= eb)
    BY <1>2 DEF IInv, TypeOK, Struct, Refuse, ReplayAndReturn, ReplayAndBisect
  <2>2. CASE Refuse
    BY <1>1, <2>1, <2>2 DEF Refuse, Return, UnchangedSearch, EpochSearchCut
  <2>3. CASE ReplayAndReturn
    BY <1>1, <2>1, <2>3 DEF ReplayAndReturn, Return, UnchangedSearch, EpochSearchCut
  <2>4. CASE ReplayAndBisect
    BY <1>1, <2>1, <2>4 DEF ReplayAndBisect, EpochSearchCut
  <2>5. QED
    BY <1>2, <2>2, <2>3, <2>4
<1>3. CASE EpochProbe
  BY <1>1, <1>3 DEF EpochProbe, EpochSearchCut
<1>4. CASE EpochSearchEnds
  <2>1. /\ pc = "epochs" /\ pc' = "narrow" /\ ea' = ea /\ eb' = eb /\ hi' = hi
    BY <1>4, SegmentShape DEF IInv, TypeOK, Struct, EpochSearchEnds, Lower
  <2>2. ASSUME ea <= eb, DistinctEpochs(seg)
        PROVE  lo' < hi \/ seg.end = 0
    <3>0. \A i, j \in 1..NEpochs : i < j => seg.at[i] < seg.at[j]
      BY <2>2 DEF DistinctEpochs, NEpochs
    <3> USE <2>1, <2>2, <3>0, SegmentShape DEF IInv, TypeOK, Struct
    <3>1. CASE firstBad = 0
      <4>1. lo' = lo /\ hi = seg.end /\ ea \in 1..NEpochs
        BY <1>4, <3>1 DEF EpochSearchEnds
      <4>2. ea > 1 => seg.at[ea - 1] < seg.at[ea] /\ seg.at[ea] <= seg.end
        BY <4>1
      <4>3. QED
        BY <4>1, <4>2
    <3>2. CASE firstBad > 0
      <4>1. firstBad \in 2..NEpochs /\ hi = seg.at[firstBad] /\ ea <= firstBad - 1
        BY <3>2
      <4>2. lo' = Higher(lo, seg.at[firstBad - 1])
        BY <1>4, <4>1 DEF EpochSearchEnds
      <4>3. seg.at[firstBad - 1] < seg.at[firstBad]
        BY <4>1
      <4>4. lo < seg.at[firstBad]
        <5>1. CASE ea > 1
          <6>1. seg.at[ea - 1] < seg.at[firstBad]
            BY <4>1, <5>1
          <6>2. QED
            BY <5>1, <6>1
        <5>2. CASE ea = 1
          BY <4>1, <4>3, <5>2
        <5>3. QED
          BY <5>1, <5>2
      <4>5. QED
        BY <4>1, <4>2, <4>3, <4>4 DEF Higher
    <3>3. QED
      BY <3>1, <3>2
  <2>3. QED
    BY <1>1, <2>1, <2>2 DEF EpochSearchCut
<1>5. CASE NarrowProbe
  BY <1>1, <1>5 DEF IInv, TypeOK, Struct, NarrowProbe, ProbeBilled, EpochSearchCut
<1>6. CASE ConfirmProbe
  BY <1>1, <1>6 DEF IInv, TypeOK, Struct, ConfirmProbe, ProbeBilled, Return, UnchangedSearch,
     EpochSearchCut
<1>7. CASE NarrowingCut
  BY <1>1, <1>7 DEF IInv, TypeOK, Struct, NarrowingCut, Return, UnchangedSearch, EpochSearchCut
<1>8. QED
  BY <1>2, <1>3, <1>4, <1>5, <1>6, <1>7 DEF CallStep

\* A step of the call under the driver.
LEMMA HypervisorDriverInv == ASSUME DriverInv, HypervisorStep PROVE DriverInv'
<1>1. /\ CallStep /\ pc \in {"start", "epochs", "narrow"} /\ phase \in {"flake", "native"}
      /\ opts' = opts /\ phase' = phase /\ outcomes' = outcomes
      /\ seg' = seg /\ baseOk' = baseOk /\ bisecting' = bisecting /\ maxRuns' = maxRuns
  BY DEF HypervisorStep, driverVars, DriverInv, Reported, CallStep, Refuse, ReplayAndReturn,
     ReplayAndBisect, EpochProbe, EpochSearchEnds, NarrowProbe, ConfirmProbe, NarrowingCut,
     UnchangedCall
<1>2. IInv /\ Answered /\ IInv' /\ Answered'
  BY <1>1, StepIInv, CallStepAnswered DEF DriverInv, Next
<1>3. /\ pc' # "idle"
      /\ pc' # "start"
      /\ runs' - runs = used' - used
  <2>1. ProbeBilled \/ Unbilled
    BY <1>1 DEF CallStep, Refuse, ReplayAndReturn, ReplayAndBisect, EpochProbe,
       EpochSearchEnds, NarrowProbe, ConfirmProbe, NarrowingCut
  <2>2. runs' - runs = used' - used
    BY <1>2, <2>1 DEF ProbeBilled, Unbilled, IInv, TypeOK
  <2>3. pc' # "idle" /\ pc' # "start"
    BY <1>1 DEF CallStep, Refuse, ReplayAndReturn, ReplayAndBisect, EpochProbe,
       EpochSearchEnds, NarrowProbe, ConfirmProbe, NarrowingCut, Return
  <2>4. QED
    BY <2>2, <2>3
<1>4. Counters'
  BY <1>1, <1>2, <1>3 DEF DriverInv, Counters, IInv, TypeOK
<1>5. PhaseOneRuns' /\ (AllIdentical => AllIdentical')
  BY <1>1 DEF DriverInv, PhaseOneRuns, PhaseOneOutcome, ReplayEnd, Folded, AllIdentical
<1>6. ASSUME phase = "flake" PROVE FlakeCall'
  <2>1. FlakeCall /\ pc = "start" /\ ~bisecting
    BY <1>1, <1>6 DEF DriverInv, FlakeCall
  <2>2. Refuse \/ ReplayAndReturn
    BY <1>1, <2>1 DEF CallStep, ReplayAndBisect, EpochProbe, EpochSearchEnds, NarrowProbe,
       ConfirmProbe, NarrowingCut
  <2>3. CASE Refuse
    BY <1>1, <2>1, <2>3 DEF FlakeCall, Refuse, Return, Faults
  <2>4. CASE ReplayAndReturn
    <3>1. HonestVerdict(seg) # "NoBudget"
      BY DEF HonestVerdict
    <3>2. /\ pc' = "done" /\ outcome' = HonestVerdict(seg) /\ lo' = 0 /\ hi' = seg.end
          /\ used' = Len(outcomes) + 1 /\ runIndex' = opts.before + Len(outcomes)
      BY <2>1, <2>4 DEF FlakeCall, ReplayAndReturn, Return, ProbeBilled, DriverInv, Counters
    <3>3. QED
      BY <1>1, <2>1, <3>1, <3>2 DEF FlakeCall
  <2>5. QED
    BY <2>2, <2>3, <2>4
<1>7. ASSUME phase = "native" PROVE NativeCall'
  BY <1>1, <1>3, <1>7 DEF DriverInv, NativeCall, CallStep, Refuse, ReplayAndReturn,
     ReplayAndBisect, EpochProbe, EpochSearchEnds, NarrowProbe, ConfirmProbe, NarrowingCut,
     Return, HonestVerdict
<1>8. QED
  BY <1>1, <1>2, <1>3, <1>4, <1>5, <1>6, <1>7 DEF DriverInv
\* A call begins with fresh locals.
LEMMA CallBegins ==
  ASSUME DriverInv, NEW b \in BOOLEAN, CallVerifySegment(b)
  PROVE  /\ IInv' /\ Answered' /\ pc' = "start" /\ bisecting' = b
         /\ seg' = seg /\ maxRuns' = maxRuns /\ used' = used
         /\ opts' = opts => Counters'
<1>1. /\ pc' = "start" /\ outcome' = "Pending" /\ bisecting' = b
      /\ ea' = 1 /\ eb' = 0 /\ firstBad' = 0 /\ na' = 0 /\ nb' = 0
      /\ lo' = 0 /\ hi' = seg.end
      /\ seg' = seg /\ NEpochs' = NEpochs /\ baseOk' = baseOk /\ maxRuns' = maxRuns
      /\ used' = used /\ runs' = runs /\ runIndex' = runIndex
  BY DEF CallVerifySegment, NEpochs
<1>2. Counters
  BY DEF DriverInv
<1>3. TypeOK'
  BY <1>1, <1>2, SegmentShape DEF Counters, TypeOK, Outcomes
<1>4. Struct' /\ Truth' /\ Answered'
  BY <1>1, <1>2 DEF Struct, Truth, Answered, EpochSearchCut
<1>5. opts' = opts => Counters'
  BY <1>1, <1>2 DEF Counters
<1>6. QED
  BY <1>1, <1>3, <1>4, <1>5 DEF IInv

\* What Phase 1 has seen depends on the segment and its outcomes alone.
LEMMA PhaseOneStable ==
  ASSUME DriverInv, seg' = seg, opts' = opts, outcomes' = outcomes
  PROVE  PhaseOneRuns' /\ (AllIdentical' <=> AllIdentical)
  BY DEF DriverInv, PhaseOneRuns, PhaseOneOutcome, ReplayEnd, Folded, AllIdentical

\* No outcome of Phase 1 is narrower than the segment.
LEMMA MinWindowIsWhole == ASSUME DriverInv PROVE MinWindow = WholeSegment
<1> DEFINE windows == {<<outcomes[i].lo, outcomes[i].hi>> : i \in DivergedRuns}
<1>1. \A w \in windows : w = <<0, seg.end>>
  BY DEF DriverInv, PhaseOneRuns, PhaseOneOutcome, DivergedRuns
<1>2. CASE windows = {}
  BY <1>2 DEF MinWindow
<1>3. CASE windows # {}
  <2>1. seg.end \in Nat
    BY SegmentShape DEF DriverInv, Counters
  <2>2. \E w \in windows : \A v \in windows : w[2] - w[1] <= v[2] - v[1]
    BY <1>1, <1>3, <2>1
  <2>3. MinWindow \in windows
    BY <1>3, <2>2 DEF MinWindow
  <2>4. QED
    BY <1>1, <2>3 DEF WholeSegment
<1>4. QED
  BY <1>2, <1>3

LEMMA BeginFlakeRunDriverInv == ASSUME DriverInv, BeginFlakeRun PROVE DriverInv'
<1>1. /\ phase = "flake" /\ pc = "idle" /\ ~Exhausted /\ CallVerifySegment(FALSE)
      /\ opts' = opts /\ phase' = phase /\ outcomes' = outcomes
  BY DEF BeginFlakeRun, driverVars
<1>2. /\ IInv' /\ Answered' /\ pc' = "start" /\ bisecting' = FALSE
      /\ seg' = seg /\ maxRuns' = maxRuns /\ used' = used /\ Counters'
  BY <1>1, CallBegins
<1>3. PhaseOneRuns'
  BY <1>1, <1>2, PhaseOneStable
<1>4. FlakeCall'
  BY <1>1, <1>2 DEF DriverInv, FlakeCall, Exhausted
<1>5. QED
  BY <1>1, <1>2, <1>3, <1>4 DEF DriverInv

LEMMA FlakeRunReturnsDriverInv == ASSUME DriverInv, FlakeRunReturns PROVE DriverInv'
<1>1. /\ phase = "flake" /\ phase' = phase /\ pc = "done" /\ pc' = "idle"
      /\ outcome \notin Faults /\ opts' = opts /\ outcomes' = Append(outcomes, CallOutcome)
      /\ seg' = seg /\ baseOk' = baseOk /\ bisecting' = bisecting /\ maxRuns' = maxRuns
      /\ used' = used /\ runs' = runs /\ runIndex' = runIndex
  BY DEF FlakeRunReturns
<1>2. /\ Answered /\ FlakeCall
      /\ used = Len(outcomes) + 1 /\ runIndex = opts.before + Len(outcomes)
      /\ lo = 0 /\ hi = seg.end
  BY <1>1 DEF DriverInv, FlakeCall
<1>3. PICK n \in Nat : n = Len(outcomes)
  BY DEF DriverInv, PhaseOneRuns
<1>4. CallOutcome = PhaseOneOutcome(n + 1)
  <2>1. outcome = HonestVerdict(seg)
    BY <1>1, <1>2 DEF Answered, Faults
  <2>2. opts.before + (n + 1) - 1 = opts.before + n
    BY DEF DriverInv, Counters
  <2>3. QED
    BY <1>2, <1>3, <2>1, <2>2 DEF CallOutcome, PhaseOneOutcome
<1>5. PhaseOneRuns'
  <2> DEFINE S == {PhaseOneOutcome(i) : i \in Nat}
  <2>1. CallOutcome \in S
    BY <1>3, <1>4
  <2>2. outcomes \in Seq(S) /\ \A i \in 1..n : outcomes[i] = PhaseOneOutcome(i)
    BY <1>3 DEF DriverInv, PhaseOneRuns
  <2>3. \A i : PhaseOneOutcome(i)' = PhaseOneOutcome(i)
    BY <1>1 DEF PhaseOneOutcome, ReplayEnd, Folded
  <2> HIDE DEF S
  <2>4. outcomes' \in Seq(S) /\ Len(outcomes') = n + 1
    BY <1>1, <1>3, <2>1, <2>2
  <2>5. ASSUME NEW i \in 1..(n + 1) PROVE outcomes'[i] = PhaseOneOutcome(i)
    <3>1. CASE i = n + 1
      BY <1>1, <1>3, <1>4, <2>1, <2>2, <3>1
    <3>2. CASE i \in 1..n
      BY <1>1, <1>3, <2>1, <2>2, <3>2
    <3>3. QED
      BY <3>1, <3>2
  <2>6. QED
    BY <2>1, <2>3, <2>4, <2>5 DEF PhaseOneRuns, S
<1>6. Len(outcomes') = n + 1
  BY <1>1, <1>3 DEF DriverInv, PhaseOneRuns
<1>7. FlakeCall' /\ Counters'
  BY <1>1, <1>2, <1>3, <1>6 DEF DriverInv, FlakeCall, Counters
<1>8. QED
  BY <1>1, <1>5, <1>7 DEF DriverInv
LEMMA Phase1EndsDriverInv == ASSUME DriverInv, Phase1Ends PROVE DriverInv'
<1>1. /\ phase = "flake" /\ pc = "idle" /\ pc' = pc
      /\ vars' = vars /\ opts' = opts /\ outcomes' = outcomes /\ seg' = seg
  BY DEF Phase1Ends, vars, callVars
<1>2. Counters' /\ PhaseOneRuns' /\ (AllIdentical' <=> AllIdentical) /\ (Exhausted' <=> Exhausted)
  BY <1>1, PhaseOneStable DEF DriverInv, Counters, Exhausted, vars, callVars
<1>3. CASE AllIdentical
  BY <1>1, <1>2, <1>3 DEF Phase1Ends, DriverInv
<1>4. CASE ~AllIdentical
  <2>1. /\ phase' = "reported" /\ report'.class = "ReplayNondeterministic"
        /\ report'.lo = 0 /\ report'.hi = seg.end /\ ~report'.exact
        /\ report'.budgetExhausted <=> Exhausted
    <3>1. report' = Report("ReplayNondeterministic", <<0, seg.end>>, FALSE, FALSE,
                           outcomes[Len(outcomes)].hash, used, {})
      BY <1>4, MinWindowIsWhole DEF Phase1Ends, WholeSegment
    <3>2. QED
      BY <1>4, <3>1 DEF Phase1Ends, Report, Exhausted
  <2>2. Reported'
    BY <1>1, <1>2, <1>4, <2>1 DEF Reported
  <2>3. QED
    BY <1>1, <1>2, <2>1, <2>2 DEF DriverInv
<1>5. QED
  BY <1>3, <1>4

LEMMA BeginNativeDriverInv == ASSUME DriverInv, BeginNative PROVE DriverInv'
<1>1. /\ phase = "diagnose" /\ phase' = "native" /\ seg.flag /\ ~Exhausted
      /\ CallVerifySegment(TRUE) /\ opts' = opts /\ outcomes' = outcomes
  BY DEF BeginNative
<1>2. /\ IInv' /\ Answered' /\ pc' = "start" /\ bisecting' = TRUE
      /\ seg' = seg /\ maxRuns' = maxRuns /\ used' = used /\ Counters'
  BY <1>1, CallBegins
<1>3. PhaseOneRuns' /\ (AllIdentical' <=> AllIdentical)
  BY <1>1, <1>2, PhaseOneStable
<1>4. NativeCall'
  BY <1>1, <1>2 DEF NativeCall, Exhausted
<1>5. QED
  BY <1>1, <1>2, <1>3, <1>4 DEF DriverInv

LEMMA NativeReturnsDriverInv == ASSUME DriverInv, NativeReturns PROVE DriverInv'
<1>1. /\ phase = "native" /\ phase' = "reported" /\ pc = "done" /\ outcome \notin Faults
      /\ vars' = vars /\ opts' = opts /\ outcomes' = outcomes
  BY DEF NativeReturns
<1>2. /\ IInv /\ Answered /\ NativeCall /\ AllIdentical /\ Counters
  BY <1>1 DEF DriverInv
<1>3. /\ seg' = seg /\ pc' = pc /\ outcome' = outcome /\ bisecting' = bisecting
      /\ lo' = lo /\ hi' = hi /\ used' = used /\ maxRuns' = maxRuns
  BY <1>1 DEF vars, callVars
<1>4. /\ IInv' /\ Answered' /\ Counters' /\ (Exhausted' <=> Exhausted)
  <2>1. IInv'
    BY <1>1, <1>2, StepIInv
  <2>2. Answered' /\ Counters' /\ (Exhausted' <=> Exhausted)
    BY <1>1, <1>2, <1>3
       DEF Answered, Counters, Exhausted, EpochSearchCut, DistinctEpochs, vars, callVars
  <2>3. QED
    BY <2>1, <2>2
<1>5. PhaseOneRuns' /\ (AllIdentical' <=> AllIdentical)
  BY <1>1, <1>3, PhaseOneStable
<1>6. Reported'
  <2>1. CASE outcome = "Diverged"
    <3>1. /\ report'.class = "RecordedDivergence" /\ report'.lo = lo /\ report'.hi = hi
          /\ report'.exact <=> lo = hi
          /\ report'.budgetExhausted <=> Exhausted
      BY <2>1 DEF NativeReturns, Report, Exhausted
    <3>2. QED
      BY <1>1, <1>2, <1>3, <1>4, <1>5, <2>1, <3>1 DEF Reported, NativeCall
  <2>2. CASE outcome # "Diverged"
    <3>1. /\ report'.class = "RecordedDivergence" /\ report'.lo = 0 /\ report'.hi = seg.end
          /\ report'.exact <=> 0 = seg.end
          /\ report'.budgetExhausted <=> Exhausted
      BY <2>2 DEF NativeReturns, Report, Exhausted, WholeSegment
    <3>2. outcome = "Verified"
      BY <1>1, <1>2, <2>2 DEF IInv, TypeOK, Struct, Outcomes
    <3>3. QED
      BY <1>1, <1>2, <1>3, <1>4, <1>5, <3>1, <3>2 DEF Reported
  <2>3. QED
    BY <2>1, <2>2
<1>7. QED
  BY <1>1, <1>3, <1>4, <1>5, <1>6 DEF DriverInv

LEMMA FallbackDriverInv == ASSUME DriverInv, Fallback PROVE DriverInv'
<1>1. /\ phase = "diagnose" /\ phase' = "reported" /\ (~seg.flag \/ Exhausted)
      /\ opts' = opts /\ outcomes' = outcomes /\ seg' = seg /\ baseOk' = baseOk
      /\ bisecting' = bisecting /\ maxRuns' = maxRuns /\ pc' = pc /\ pc = "idle"
  BY DEF Fallback, DriverInv
<1>2. AllIdentical /\ Counters
  BY <1>1 DEF DriverInv
<1>3. PhaseOneRuns' /\ (AllIdentical' <=> AllIdentical)
  BY <1>1, PhaseOneStable
<1>4. /\ \/ ~Exhausted /\ used' = used + 1 /\ runs' = runs + 1 /\ runIndex' = runs
         \/ used' = used /\ runs' = runs /\ runIndex' = runIndex
      /\ report'.class = "RecordedDivergence" /\ report'.lo = 0 /\ report'.hi = seg.end
      /\ report'.exact <=> 0 = seg.end
      /\ report'.budgetExhausted <=> used' >= maxRuns
  <2>1. PICK h, f : report' = Report("RecordedDivergence", <<0, seg.end>>, FALSE,
                                     DivergedRuns # {}, h, used', f)
    BY DEF Fallback, WholeSegment
  <2>2. \/ ~Exhausted /\ used' = used + 1 /\ runs' = runs + 1 /\ runIndex' = runs
        \/ used' = used /\ runs' = runs /\ runIndex' = runIndex
    BY DEF Fallback
  <2>3. /\ report'.class = "RecordedDivergence" /\ report'.lo = 0 /\ report'.hi = seg.end
        /\ report'.exact <=> 0 = seg.end
        /\ report'.budgetExhausted <=> used' >= maxRuns
    BY ONLY <2>1 DEF Report
  <2>4. QED
    BY <2>2, <2>3
<1>5. Counters'
  BY <1>1, <1>2, <1>4 DEF Counters, Exhausted
<1>6. (Exhausted' <=> used' >= maxRuns) /\ (Exhausted => Exhausted')
  BY <1>1, <1>2, <1>4 DEF Exhausted, Counters
<1>7. Reported'
  BY <1>1, <1>2, <1>3, <1>4, <1>6 DEF Reported
<1>8. QED
  BY <1>1, <1>3, <1>5, <1>7 DEF DriverInv
LEMMA DriverStepInv == DriverInv /\ [DriverNext]_allVars => DriverInv'
<1> SUFFICES ASSUME DriverInv, [DriverNext]_allVars PROVE DriverInv'
  OBVIOUS
<1>1. CASE HypervisorStep
  BY <1>1, HypervisorDriverInv
<1>2. CASE BeginFlakeRun
  BY <1>2, BeginFlakeRunDriverInv
<1>3. CASE FlakeRunReturns
  BY <1>3, FlakeRunReturnsDriverInv
<1>4. CASE CallFaults
  <2>1. /\ phase' = "failed" /\ phase \in {"flake", "native"} /\ pc = "done" /\ outcome \in Faults
        /\ vars' = vars /\ opts' = opts /\ outcomes' = outcomes /\ report' = report
    BY <1>4 DEF CallFaults
  <2>2. /\ seg' = seg /\ pc' = pc /\ outcome' = outcome /\ outcome # "NoBudget"
    BY <2>1 DEF vars, callVars, DriverInv, FlakeCall, NativeCall
  <2>3. IInv' /\ Answered' /\ Counters'
    <3>1. IInv'
      BY <2>1, StepIInv DEF DriverInv
    <3>2. Answered' /\ Counters'
      BY <2>1 DEF DriverInv, Answered, Counters, EpochSearchCut, DistinctEpochs, vars, callVars
    <3>3. QED
      BY <3>1, <3>2
  <2>4. PhaseOneRuns'
    BY <2>1, <2>2, PhaseOneStable
  <2>5. QED
    BY <2>1, <2>2, <2>3, <2>4 DEF DriverInv
<1>5. CASE Phase1Ends
  BY <1>5, Phase1EndsDriverInv
<1>6. CASE BeginNative
  BY <1>6, BeginNativeDriverInv
<1>7. CASE NativeReturns
  BY <1>7, NativeReturnsDriverInv
<1>8. CASE Fallback
  BY <1>8, FallbackDriverInv
<1>9. CASE UNCHANGED allVars
  <2>1. /\ vars' = vars /\ opts' = opts /\ outcomes' = outcomes /\ phase' = phase /\ report' = report
        /\ seg' = seg /\ pc' = pc /\ outcome' = outcome /\ bisecting' = bisecting
        /\ lo' = lo /\ hi' = hi /\ used' = used /\ maxRuns' = maxRuns /\ runIndex' = runIndex
    BY <1>9 DEF allVars, driverVars, vars, callVars
  <2>2. PhaseOneRuns' /\ (AllIdentical' <=> AllIdentical)
    BY <2>1, PhaseOneStable
  <2>3. pc # "idle" => IInv'
    BY <2>1, StepIInv DEF DriverInv
  <2>4. Counters' /\ (pc # "idle" => Answered')
    BY <2>1 DEF DriverInv, Answered, Counters, EpochSearchCut, DistinctEpochs, vars, callVars
  <2>5. QED
    BY <2>1, <2>2, <2>3, <2>4 DEF DriverInv, FlakeCall, NativeCall, Reported, Exhausted
<1>10. QED
  BY <1>1, <1>2, <1>3, <1>4, <1>5, <1>6, <1>7, <1>8, <1>9 DEF DriverNext, DriverStep

LEMMA InvariantDriverInv == DriverSpec => []DriverInv
<1>1. QED
  BY InitDriverInv, DriverStepInv, PTL DEF DriverSpec

\* For every segment, budget, number of retries and of earlier runs: bisect never
\* returns NoBudget, it asks its budget before every run.
THEOREM BudgetIsAsked == DriverSpec => []NoBudgetNeverEscapes
<1>1. DriverInv => NoBudgetNeverEscapes
  BY DEF DriverInv, NoBudgetNeverEscapes
<1>2. QED
  BY <1>1, InvariantDriverInv, PTL

\* Phase 1's outcomes agree exactly when none of them could show the flake, or
\* all of them show the same one.
LEMMA AgreementIsEvidence ==
  ASSUME DriverInv, outcomes # <<>>
  PROVE  AllIdentical <=> ~(seg.kind = "Flake" /\ Folded(seg) /\ PeriodsDiffer)
<1>1. PICK n \in Nat \ {0} : n = Len(outcomes)
  BY DEF DriverInv, PhaseOneRuns
<1>2. PICK b \in Nat : b = opts.before
  BY DEF DriverInv, Counters
<1>3. PICK p \in Nat \ {0} : p = seg.period
  BY SegmentsAssumption DEF DriverInv, Counters, IsSegment
<1>4. AllIdentical <=>
        \A i \in 1..(n - 1) : ReplayEnd(seg, b + i - 1) = ReplayEnd(seg, b + i)
  <2>1. \A i \in 1..(n - 1) : /\ outcomes[i] = PhaseOneOutcome(i)
                              /\ outcomes[i + 1] = PhaseOneOutcome(i + 1)
    BY <1>1 DEF DriverInv, PhaseOneRuns
  <2>2. \A i \in 1..(n - 1) : b + (i + 1) - 1 = b + i
    OBVIOUS
  <2>3. \A i \in 1..(n - 1) : PhaseOneOutcome(i) = PhaseOneOutcome(i + 1)
                                <=> ReplayEnd(seg, b + i - 1) = ReplayEnd(seg, b + i)
    BY <1>2, <2>2 DEF PhaseOneOutcome
  <2>4. QED
    BY <1>1, <2>1, <2>3 DEF AllIdentical
<1>5. ASSUME NEW r, NEW q
      PROVE  ReplayEnd(seg, r) = ReplayEnd(seg, q)
               <=> (seg.kind = "Flake" /\ Folded(seg) => r \div p = q \div p)
  BY <1>3 DEF ReplayEnd
<1>6. PeriodsDiffer <=> b \div p # (b + n - 1) \div p
  BY <1>1, <1>2, <1>3 DEF PeriodsDiffer
<1>7. (\A i \in 1..(n - 1) : (b + i - 1) \div p = (b + i) \div p)
        <=> b \div p = (b + n - 1) \div p
  BY PeriodsChain
<1>8. (\A i \in 1..(n - 1) : ReplayEnd(seg, b + i - 1) = ReplayEnd(seg, b + i))
        <=> (seg.kind = "Flake" /\ Folded(seg)
               => \A i \in 1..(n - 1) : (b + i - 1) \div p = (b + i) \div p)
  BY <1>5
<1>9. QED
  BY <1>4, <1>6, <1>7, <1>8

\* For every segment, budget and number of runs: a replay is called
\* nondeterministic exactly when its Phase-1 runs fall in different periods of a
\* flake that took effect, and the recording is blamed exactly otherwise.
THEOREM Classification == DriverSpec => []ClassifiedByEvidence
<1>1. DriverInv => ClassifiedByEvidence
  BY AgreementIsEvidence DEF DriverInv, Reported, ClassifiedByEvidence
<1>2. QED
  BY <1>1, InvariantDriverInv, PTL

\* The window of a report holds the divergence, and is its icount if it is one.
LEMMA ReportedWindow ==
  ASSUME DriverInv, phase = "reported", Genuine(seg), Folded(seg)
  PROVE  /\ ~EpochSearchCut => report.lo <= seg.defect /\ seg.defect <= report.hi
         /\ DistinctEpochs(seg) /\ report.exact => report.lo = seg.defect
         /\ (/\ seg.flag /\ report.class = "RecordedDivergence" /\ ~report.budgetExhausted)
              => report.exact
<1>1. /\ seg.end \in Nat /\ seg.defect \in Nat /\ seg.defect <= seg.end
  BY SegmentShape DEF DriverInv, Counters, Folded
<1>2. Reported /\ (pc # "idle" => IInv /\ Answered)
  BY DEF DriverInv
<1>3. CASE report.lo = 0 /\ report.hi = seg.end
  <2>1. report.exact => report.lo = seg.defect
    BY <1>1, <1>2, <1>3 DEF Reported
  <2>2. ~(pc = "done" /\ outcome = "Verified")
    <3> SUFFICES ASSUME pc = "done", outcome = "Verified" PROVE FALSE
      OBVIOUS
    <3>1. HonestVerdict(seg) = "Verified"
      BY <1>2 DEF Answered
    <3>2. ChainDiffers(seg, seg.end)
      BY <1>1 DEF ChainDiffers
    <3>3. QED
      BY <3>1, <3>2, Zenon DEF HonestVerdict
  <2>3. ASSUME pc = "done", outcome = "Diverged", bisecting, report.lo = lo, report.hi = hi,
               ~Exhausted
        PROVE  report.lo = report.hi
    BY <1>2, <2>3 DEF IInv, Truth
  <2>4. QED
    BY <1>1, <1>2, <1>3, <2>1, <2>2, <2>3 DEF Reported
<1>4. CASE pc = "done" /\ outcome = "Diverged" /\ bisecting /\ report.lo = lo /\ report.hi = hi
  <2>1. ~EpochSearchCut => Holds(lo, hi)
    BY <1>2, <1>4 DEF IInv, Truth
  <2>2. lo \in Nat /\ hi \in Nat
    BY <1>1, <1>2, <1>4 DEF IInv, TypeOK
  <2>3. (EpochSearchCut /\ DistinctEpochs(seg)) => lo < hi \/ seg.end = 0
    BY <1>2, <1>4 DEF Answered
  <2>4. DistinctEpochs(seg) /\ lo = hi => lo = seg.defect
    <3>1. CASE EpochSearchCut
      BY <1>1, <1>2, <1>4, <2>2, <2>3, <3>1 DEF IInv, TypeOK
    <3>2. CASE ~EpochSearchCut
      BY <1>1, <2>1, <2>2, <3>2 DEF Holds
    <3>3. QED
      BY <3>1, <3>2
  <2>5. ~Exhausted => lo = hi
    BY <1>2, <1>4 DEF IInv, Truth
  <2>6. QED
    BY <1>2, <1>4, <2>1, <2>4, <2>5 DEF Reported, Holds
<1>5. QED
  BY <1>2, <1>3, <1>4 DEF Reported

\* For every segment the writer can make, defect and budget: a report that
\* claims an exact icount names the one where the executions part.
THEOREM ExactReports == DriverSpec => []ExactReportIsTrue
<1>1. DriverInv => ExactReportIsTrue
  BY ReportedWindow DEF ExactReportIsTrue
<1>2. QED
  BY <1>1, InvariantDriverInv, PTL

\* For every segment, defect and budget: the window reported holds the
\* divergence unless the budget ended the epoch search.
THEOREM ReportWindows == DriverSpec => []ReportWindowHolds
<1>1. DriverInv => ReportWindowHolds
  BY ReportedWindow DEF ReportWindowHolds
<1>2. QED
  BY <1>1, InvariantDriverInv, PTL

\* For every segment with epoch hashes and every budget: a recorded divergence
\* reported without budget_exhausted is exact.
THEOREM UnexhaustedReports == DriverSpec => []UnexhaustedIsExact
<1>1. DriverInv => UnexhaustedIsExact
  BY ReportedWindow DEF UnexhaustedIsExact
<1>2. QED
  BY <1>1, InvariantDriverInv, PTL
=============================================================================
