------------------------------ MODULE MCMJCards ------------------------------
(* Model checking of MJCards: neighbours in the highest digits of a suit,  *)
(* and a flower.                                                           *)
EXTENDS MJCards

EdgeKinds == {<<0, 7>>, <<0, 8>>, <<5, 0>>}
=============================================================================
