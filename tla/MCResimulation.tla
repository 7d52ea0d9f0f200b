--------------------------- MODULE MCResimulation ---------------------------
(* Every short script, with and without a boundary at its end: the events, *)
(* frame marks, boundaries and the defect share icounts in every way.      *)
EXTENDS Resimulation

CONSTANT Ends   \* the end_icounts

Pad == [kind |-> "PAD_SET", data |-> "a", len |-> 12]
Net == [kind |-> "NET_RX", data |-> "b", len |-> 2048]

Scheduled(m, ev) == [icount |-> m, event |-> ev]

EventLists(end) ==
  {<<>>} \cup {<<Scheduled(m, Pad)>> : m \in 0..end}
    \cup {<<Scheduled(m, Pad), Scheduled(n, Net)>> : m \in 0..end, n \in 0..end}

Ascending(events) == \A i, j \in DOMAIN events : i <= j => events[i].icount <= events[j].icount

FrameLists(end) == {<<>>, <<end>>, <<3, 2>>}

ScriptsTo(end) ==
  {[end |-> end, events |-> e, frames |-> f, skew |-> k, omit |-> o] :
     e \in {l \in EventLists(end) : Ascending(l)}, f \in FrameLists(end),
     k \in {{}} \cup {{m} : m \in 0..end}, o \in BOOLEAN}

MCScripts == UNION {ScriptsTo(end) : end \in Ends}

MCDefects ==
  {[kind |-> "None", at |-> 0]}
    \cup {[kind |-> d, at |-> m] : d \in {"Skew", "Flake"}, m \in UNION {0..(end + 1) : end \in Ends}}
=============================================================================
