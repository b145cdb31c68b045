-------------------------------- MODULE MCBot --------------------------------
(***************************************************************************)
(* Bot for TLC: the values its configuration gives to the constants.       *)
(***************************************************************************)
EXTENDS Bot

(* The end of a suit, where a sequence can only be completed downwards,    *)
(* and one wind.                                                           *)
FewKinds == {<<0, 6>>, <<0, 7>>, <<0, 8>>, <<4, 0>>}

(* One turn, and two in the deal that starts from what it left.            *)
OneThenTwo == <<1, 2>>
=============================================================================
