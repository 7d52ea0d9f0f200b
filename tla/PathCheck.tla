----------------------------- MODULE PathCheck -----------------------------
(***************************************************************************)
(* What verification of a path promises, whatever hypervisor does it:      *)
(* edges are settled one at a time from the root; the verdict names the    *)
(* first edge that does not re-execute to its node's state hash, or says   *)
(* that every edge does, or admits that the hypervisor gave up.  A node    *)
(* that has no state hash can be neither: verification of a path with one  *)
(* stops there, unless it was over before.                                 *)
(***************************************************************************)
EXTENDS Naturals, Sequences

VARIABLES
  edges,    \* each edge: it re-executes to its node's state hash ("good"), to
            \* another ("bad"), or the node has none ("unhashed")
  checked,  \* how many leading edges have been found good
  verdict   \* the result, once there is one

vars == <<edges, checked, verdict>>

Checking == [kind |-> "Checking", at |-> 0]

Init ==
  /\ edges \in [1..Len(edges) -> {"good", "bad", "unhashed"}]
  /\ checked = 0
  /\ verdict = Checking

\* The next edge is good.
Advance ==
  /\ verdict = Checking
  /\ checked < Len(edges) /\ edges[checked + 1] = "good"
  /\ checked' = checked + 1
  /\ UNCHANGED <<edges, verdict>>

\* The next edge is bad, and every one before it was good.
Localise ==
  /\ verdict = Checking
  /\ checked < Len(edges) /\ edges[checked + 1] = "bad"
  /\ verdict' = [kind |-> "Diverged", at |-> checked + 1]
  /\ UNCHANGED <<edges, checked>>

\* No edge is left.
Pass ==
  /\ verdict = Checking
  /\ checked = Len(edges)
  /\ verdict' = [kind |-> "Verified", at |-> checked]
  /\ UNCHANGED <<edges, checked>>

\* The hypervisor could not replay the next edge.
GiveUp ==
  /\ verdict = Checking
  /\ checked < Len(edges) /\ edges[checked + 1] # "unhashed"
  /\ verdict' = [kind |-> "Fault", at |-> checked + 1]
  /\ UNCHANGED <<edges, checked>>

\* The next edge has nothing to be compared with.
Abandon ==
  /\ verdict = Checking
  /\ checked < Len(edges) /\ edges[checked + 1] = "unhashed"
  /\ verdict' = [kind |-> "Panic", at |-> checked + 1]
  /\ UNCHANGED <<edges, checked>>

Next == Advance \/ Localise \/ Pass \/ GiveUp \/ Abandon

\* One way or another the path is settled.
Spec == Init /\ [][Next]_vars /\ WF_vars(Next)
=============================================================================
