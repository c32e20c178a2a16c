--------------------------- MODULE MCGraphPasses ---------------------------
(***************************************************************************)
(* Every acyclic graph of MCSize operators: inputs, weights and operators  *)
(* with one or two inputs, from the same operator or from different ones,  *)
(* in any order of their guids.                                            *)
(***************************************************************************)
EXTENDS GraphPasses

CONSTANT MCSize

MCOps == 1 .. MCSize
Sources(op) ==
  {<<s>> : s \in (MCOps \cup Preserved) \ {op}}
  \cup {<<s, t>> : s \in MCOps \ {op}, t \in MCOps \ {op}}
Wirings == {w \in [MCOps -> UNION {Sources(op) : op \in MCOps}] :
              \A op \in MCOps : w[op] \in Sources(op)}
EdgesOf(w) == UNION {{<<w[op][k], op, k>> : k \in DOMAIN w[op]} : op \in MCOps}
Acyclic(g) ==
  \A S \in (SUBSET MCOps) \ {{}} : \E op \in S : \A e \in g : e[2] = op => e[1] \notin S
MCGraphs == {g \in {EdgesOf(w) : w \in Wirings} : Acyclic(g)}

=============================================================================
