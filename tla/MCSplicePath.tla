---------------------------- MODULE MCSplicePath ----------------------------
(* Sound paths of up to MaxEdges edges with up to two things wrong, of any    *)
(* kinds and in any places.                                                 *)
EXTENDS SplicePath

CONSTANT MaxEdges

Kinds ==
  {"version", "machine", "clock", "base", "end", "parent", "ref", "R4", "R5", "noHash",
   "hash", "log", "epochs"}

\* A fault is a kind and the edge it is in.
NodeAt(F, i) ==
  [id |-> i, parent |-> IF <<"parent", i>> \in F THEN 99 ELSE i - 1,
   ref |-> IF <<"ref", i>> \in F THEN 99 ELSE i,
   logged |-> <<"log", i>> \notin F,
   hash |-> IF <<"noHash", i>> \in F THEN NoHash ELSE IF <<"hash", i>> \in F THEN "other" ELSE "end"]

SegAt(F, i) ==
  [version |-> IF <<"version", i>> \in F THEN 2 ELSE 1,
   machine |-> IF <<"machine", i>> \in F THEN "other" ELSE "machine",
   clock |-> IF <<"clock", i>> \in F THEN "other" ELSE "clock",
   base |-> IF <<"base", i>> \in F THEN 98 ELSE i - 1,
   end |-> IF <<"end", i>> \in F THEN 97 ELSE i,
   endHash |-> "end",
   epochs |-> <<"epochs", i>> \notin F,
   structure |-> IF <<"R4", i>> \in F THEN "R4" ELSE IF <<"R5", i>> \in F THEN "R5" ELSE "Ok"]

PathOf(n, F) ==
  [nodes |-> [i \in 1..(n + 1) |-> NodeAt(F, i - 1)], segs |-> [i \in 1..n |-> SegAt(F, i)]]

\* No fault, one, or two.
FaultSets(n) == {{}} \cup {{f, g} : f, g \in Kinds \X (1..n)}

MCPaths == UNION {{PathOf(n, F) : F \in FaultSets(n)} : n \in 0..MaxEdges}
=============================================================================
