-------------------------------- MODULE MCMesh --------------------------------
\* Model-checking instance of Mesh: symmetric vantages; the two counts that
\* exclude each other are sampled in either order, the gates after them.
EXTENDS Mesh, TLC

Symmetry == Permutations(Vantages)

CountsFirst ==
  {<<"affected", "vantages_total">>, <<"peers_ok", "vantages_total">>,
   <<"vantages_total", "discriminator_any">>}

\* One fixed order.
FixedOrder ==
  {<<"affected", "peers_ok">>, <<"peers_ok", "vantages_total">>,
   <<"vantages_total", "discriminator_any">>}
===============================================================================
