--------------------------- MODULE MCBisectDriver ---------------------------
(* Recordings of a few shapes, with and without epoch hashes, carrying a    *)
(* skew, a flake of period 1 to 3, or no effective defect (End + 1).        *)
EXTENDS BisectDriver

CONSTANTS End

EpochLists == {<<>>, <<3>>, <<1, 3>>, <<1, 2, 4>>}

Recordings ==
  {[end |-> End, at |-> a, short |-> Len(a) + 1, tampered |-> {}, badEnd |-> FALSE,
    flag |-> f, kind |-> k, defect |-> d, period |-> p] :
     a \in EpochLists, f \in BOOLEAN, k \in {"Skew", "Flake"}, d \in 0..(End + 1), p \in 1..3}

\* A wrong end hash, a wrong epoch hash, a short EPOCH_HASH payload.
Damaged ==
  {[end |-> End, at |-> <<1, 2, 4>>, short |-> n, tampered |-> t, badEnd |-> b,
    flag |-> TRUE, kind |-> "Skew", defect |-> d, period |-> 1] :
     n \in {1, 4}, t \in {{}, {2}}, b \in BOOLEAN, d \in {1, End + 1}}

\* A skew has no period.
MCSegments == {s \in Recordings : s.kind = "Skew" => s.period = 1} \cup Damaged
MCBudgets == {0, 1, 2, 4, 5, 6, 12}
=============================================================================
