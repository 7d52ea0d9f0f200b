-------------------------- MODULE MCMockHypervisor --------------------------
(* Small segments for TLC: every non-decreasing list of up to MaxEpochs     *)
(* EPOCH_HASH icounts up to End, every place of the defect (End + 1: none). *)
EXTENDS MockHypervisor

CONSTANTS End, MaxEpochs

EpochLists ==
  {a \in UNION {[1..n -> 0..End] : n \in 0..MaxEpochs} :
     \A i, j \in DOMAIN a : i <= j => a[i] <= a[j]}

GenuineSegments ==
  {[end |-> End, at |-> a, short |-> Len(a) + 1, tampered |-> {},
    badEnd |-> FALSE, flag |-> TRUE, kind |-> "Skew", defect |-> d, period |-> 1] :
     a \in EpochLists, d \in 0..(End + 1)}

\* One epoch hash or the end hash is wrong, or one payload is short.
DamagedSegments ==
  {[end |-> End, at |-> <<1, 3, 4>>, short |-> k, tampered |-> t,
    badEnd |-> b, flag |-> TRUE, kind |-> "Skew", defect |-> d, period |-> 1] :
     k \in 0..4, t \in {{}, {1}, {2}, {2, 3}}, b \in BOOLEAN, d \in {1, 2, End + 1}}

\* The recordings the segment writer makes: epoch boundaries are distinct.
WriterSegments ==
  {s \in GenuineSegments : \A i, j \in DOMAIN s.at : i < j => s.at[i] < s.at[j]}

MCSegments == GenuineSegments \cup DamagedSegments
MCBudgets == {0, 1, 2, 3, 4, 9}
=============================================================================
