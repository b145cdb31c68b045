------------------------------- MODULE TileBag -------------------------------
(***************************************************************************)
(* What sets of tiles are for: counting each kind.  The abstract           *)
(* specification of struct MJCards, which packs the counts into the bits   *)
(* of six integers (module MJCards).  Two sets, so that one can be copied, *)
(* added to and taken from the other.                                      *)
(***************************************************************************)
EXTENDS Tiles

VARIABLES tiles, other

Init == tiles = NoTiles /\ other = NoTiles

(* A tile that is put in must be one that the game still has.              *)
PutOne(k) ==
  /\ Suited(k) \/ tiles[k] < Copies(k)
  /\ tiles' = Put(tiles, k)
  /\ UNCHANGED other

TakeOne(k) == tiles' = Take(tiles, k) /\ UNCHANGED other

Clear(color) ==
  /\ tiles' = [k \in Kinds |-> IF k[1] = color THEN 0 ELSE tiles[k]]
  /\ UNCHANGED other

Copy == other' = tiles /\ UNCHANGED tiles

(* A set is added if there is room for it, and taken away if it is there.  *)
PutAll ==
  /\ \A k \in Kinds : tiles[k] + other[k] <= Room(k)
  /\ tiles' = [k \in Kinds |-> tiles[k] + other[k]]
  /\ UNCHANGED other

TakeAll ==
  /\ \A k \in Kinds : other[k] <= tiles[k]
  /\ tiles' = [k \in Kinds |-> tiles[k] - other[k]]
  /\ UNCHANGED other

Next ==
  \/ \E k \in Kinds : PutOne(k) \/ TakeOne(k)
  \/ \E color \in 0..5 : Clear(color)
  \/ Copy \/ PutAll \/ TakeAll

Spec == Init /\ [][Next]_<<tiles, other>>
=============================================================================
