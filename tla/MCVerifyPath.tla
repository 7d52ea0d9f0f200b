---------------------------- MODULE MCVerifyPath ----------------------------
(* Paths of up to MaxEdges edges over a good segment, one skewed in an      *)
(* epoch, one skewed after the last epoch record, one with a wrong end      *)
(* hash and one with a short EPOCH_HASH payload; one base and one node's    *)
(* state hash may be wrong, and one node's state hash missing.              *)
EXTENDS VerifyPath

CONSTANT MaxEdges

Segment(defect, badEnd, short) ==
  [end |-> 4, at |-> <<2>>, short |-> short, tampered |-> {}, badEnd |-> badEnd,
   flag |-> TRUE, kind |-> "Skew", defect |-> defect, period |-> 1]

MCSegments ==
  {Segment(5, FALSE, 2), Segment(1, FALSE, 2), Segment(3, FALSE, 2),
   Segment(5, TRUE, 2), Segment(5, FALSE, 0)}

\* The edge whose base does not match, the one whose node's hash does not, and
\* the one whose node has none; 0 is no edge.
PathOf(segs, wrongBase, wrongAttr, noAttr) ==
  LET n == Len(segs) IN
    [ref |-> [i \in 1..(n + 1) |-> i],
     base |-> [i \in 1..n |-> IF i = wrongBase THEN 0 ELSE i],
     segs |-> segs,
     attr |-> [i \in 1..n |-> IF i = noAttr THEN "missing"
                              ELSE IF i = wrongAttr THEN "other" ELSE "equal"]]

MCPaths ==
  UNION {{PathOf(segs, b, a, m) :
            segs \in [1..n -> MCSegments], b \in 0..n, a \in 0..n, m \in 0..n} :
           n \in 0..MaxEdges}
MCBudgets == 0..(MaxEdges + 1)
=============================================================================
