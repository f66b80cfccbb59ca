------------------------------ MODULE Schedule ------------------------------
(***************************************************************************)
(* What an order of migration is: nodes handed out one after the other or  *)
(* wave after wave, none before all the nodes that call it.  When the      *)
(* nodes that are left wait for each other, waves end in one of them all,  *)
(* the modules of an order follow by rank, and the order of functions is   *)
(* given up for that of all of them by rank.                               *)
(***************************************************************************)
EXTENDS Integers, Sequences

CONSTANT Nodes

VARIABLES
  of,      \* what is ordered: "functions", "modules" or "waves"
  edges,   \* edges[m]: the nodes that m calls
  parts,   \* the sets of nodes handed out, in their order
  closed   \* no more come

vars == <<of, edges, parts, closed>>

Given == UNION {parts[k] : k \in DOMAIN parts}
Rest == Nodes \ Given

Ready(n) == \A m \in Nodes : n \in edges[m] => m \in Given

\* s hands out the nodes of S by rank, each by itself.
ByRank(s, S) ==
  /\ \A k \in DOMAIN s : \E n \in S : s[k] = {n}
  /\ \A n \in S : \E k \in DOMAIN s : s[k] = {n}
  /\ \A i, j \in DOMAIN s : i < j => \A m \in s[i], n \in s[j] : m < n

Init ==
  /\ of \in {"functions", "modules", "waves"}
  /\ edges \in [Nodes -> SUBSET Nodes]
  /\ \A n \in Nodes : n \notin edges[n]
  /\ parts = <<>>
  /\ closed = FALSE

\* Nodes all of whose callers are out: several in a wave, one in an order.
Emit(S) ==
  /\ ~closed
  /\ S # {} /\ S \subseteq Rest /\ \A n \in S : Ready(n)
  /\ of # "waves" => \A m, n \in S : m = n
  /\ parts' = Append(parts, S)
  /\ UNCHANGED <<of, edges, closed>>

\* Every node is out.
Close ==
  /\ ~closed /\ Rest = {}
  /\ closed' = TRUE
  /\ UNCHANGED <<of, edges, parts>>

\* A cycle holds back all that is left.
GiveUp ==
  /\ ~closed /\ Rest # {} /\ \A n \in Rest : ~Ready(n)
  /\ of = "waves" => parts' = Append(parts, Rest)
  /\ of = "modules" =>
       /\ Len(parts) <= Len(parts')
       /\ SubSeq(parts', 1, Len(parts)) = parts
       /\ ByRank(SubSeq(parts', Len(parts) + 1, Len(parts')), Rest)
  /\ of = "functions" => ByRank(parts', Nodes)
  /\ closed' = TRUE
  /\ UNCHANGED <<of, edges>>

Next == (\E S \in SUBSET Nodes : Emit(S)) \/ Close \/ GiveUp

Safety == Init /\ [][Next]_vars

=============================================================================
