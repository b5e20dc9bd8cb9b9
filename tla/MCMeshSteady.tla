----------------------------- MODULE MCMeshSteady -----------------------------
\* Model-checking instance of MeshSteady: symmetric vantages, one fixed order.
EXTENDS MeshSteady, TLC

Symmetry == Permutations(Vantages)

FixedOrder ==
  LET order == <<"discriminator_any", "vantages_total", "peers_ok", "affected">>
  IN  {<<order[k], order[l]>> : <<k, l>> \in {p \in (1..4) \X (1..4) : p[1] < p[2]}}
===============================================================================
