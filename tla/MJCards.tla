------------------------------- MODULE MJCards -------------------------------
(***************************************************************************)
(* struct MJCards (examples/MJCards.h, MJCards.cpp): the number of tiles   *)
(* of each kind, packed into the bits of one integer per color.  A suit,   *)
(* the dragons and the winds have three bits for a kind, the flowers one.  *)
(*                                                                         *)
(* Nothing in the code keeps a counter from running into the next one but  *)
(* the tests below; that it never does, for callers that have no more      *)
(* tiles than the game, is that this module implements TileBag.            *)
(*                                                                         *)
(* A set is its six words, each the int of one color; the bits at a        *)
(* value's place are the word's digit to the base Radix.                   *)
(***************************************************************************)
EXTENDS Tiles

VARIABLES cards, other
vars == <<cards, other>>

(* 1 << value, and 1 << (value * 3).                                       *)
Flag == <<1, 2, 4, 8, 16, 32, 64, 128>>
Octal == <<1, 8, 64, 512, 4096, 32768, 262144, 2097152, 16777216>>
Radix(k) == IF Flower(k) THEN 2 ELSE 8
Unit(k) == IF Flower(k) THEN Flag[k[2] + 1] ELSE Octal[k[2] + 1]

(* (word >> ...) & 7, or & 1.                                              *)
Bits(word, unit, radix) == (word \div unit) % radix
Number(set, k) == Bits(set[k[1]], Unit(k), Radix(k))
Unpack(set) == [k \in Kinds |-> Number(set, k)]

Empty == [color \in 0..5 |-> 0]

(* operator+= and -= of a card.  (Mutants: no limit; no test.)             *)
AddUnlimited(set, k) == [set EXCEPT ![k[1]] = @ + Unit(k)]
Add(set, k) ==
  IF Suited(k) /\ Number(set, k) >= 4
  THEN set ELSE [set EXCEPT ![k[1]] = @ + Unit(k)]
SubtractUntested(set, k) == [set EXCEPT ![k[1]] = @ - Unit(k)]
Subtract(set, k) ==
  IF Number(set, k) = 0 THEN set ELSE [set EXCEPT ![k[1]] = @ - Unit(k)]

(* operator+= and -= of a set.                                             *)
AddAll(set, more) == [color \in 0..5 |-> set[color] + more[color]]
SubtractAll(set, less) == [color \in 0..5 |-> set[color] - less[color]]

(* Count(): all the tiles.  at(idx): the tiles in the order of colors and  *)
(* values, counted from 0.  (A mutant: the count may equal idx.)           *)
TileByTile(set, ks) == UNION {{k} \X (1..Number(set, k)) : k \in ks}
Tally(set, ks) == Cardinality(TileByTile(set, ks))
Count(set) == Tally(set, Held(Unpack(set)))
UpTo(set, j) == Tally(set, {k \in Held(Unpack(set)) : ~Before(j, k)})
First(ks) == CHOOSE k \in ks : \A j \in ks : ~Before(j, k)
AtEarly(set, idx) == First({k \in Held(Unpack(set)) : UpTo(set, k) >= idx})
At(set, idx) == First({k \in Held(Unpack(set)) : UpTo(set, k) > idx})

-----------------------------------------------------------------------------
Init == cards = Empty /\ other = Empty

(* The caller has no more than the game's four tiles of a kind, or one     *)
(* flower; for the suits += sees to it itself.                             *)
AddCard(k) ==
  /\ Suited(k) \/ Number(cards, k) < Copies(k)
  /\ cards' = Add(cards, k)
  /\ UNCHANGED other

SubtractCard(k) == cards' = Subtract(cards, k) /\ UNCHANGED other

(* set[color] = 0.                                                         *)
AssignColor(color) ==
  cards' = [cards EXCEPT ![color] = 0] /\ UNCHANGED other

CopySet == other' = cards /\ UNCHANGED cards

(* The sums fit their counters; what is taken away is there.               *)
AddSet ==
  /\ \A k \in Kinds : Number(cards, k) + Number(other, k) <= Room(k)
  /\ cards' = AddAll(cards, other)
  /\ UNCHANGED other

SubtractSet ==
  /\ \A k \in Kinds : Number(other, k) <= Number(cards, k)
  /\ cards' = SubtractAll(cards, other)
  /\ UNCHANGED other

(* Draw(): a tile at random; from an empty set, at(0) finds none and       *)
(* nothing is taken.                                                       *)
Places == 0..(7 * Cardinality(Kinds) - 1)
Draw ==
  /\ IF Count(cards) = 0
     THEN UNCHANGED cards
     ELSE \E idx \in Places : /\ idx < Count(cards)
                              /\ cards' = Subtract(cards, At(cards, idx))
  /\ UNCHANGED other

Next ==
  \/ \E k \in Kinds : AddCard(k) \/ SubtractCard(k)
  \/ \E color \in 0..5 : AssignColor(color)
  \/ CopySet \/ AddSet \/ SubtractSet \/ Draw

Spec == Init /\ [][Next]_vars

-----------------------------------------------------------------------------
(* Correctness.                                                            *)

(* Every operation on the packed words does to the counts what it says and *)
(* to no other kind: no carry and no borrow.                               *)
Bag == INSTANCE TileBag WITH tiles <- Unpack(cards), other <- Unpack(other)
IsTileBag == Bag!Spec

(* Nothing is left in the words beside the counts, so sets with the same   *)
(* tiles are equal, and no word comes near the sign bit of its int.        *)
Digits(set, color) ==
  [v \in 0..8 |-> IF <<color, v>> \in Kinds THEN Number(set, <<color, v>>) ELSE 0]
OctalWord(a0, a1, a2, a3, a4, a5, a6, a7, a8) ==
  a0 + 8 * a1 + 64 * a2 + 512 * a3 + 4096 * a4 + 32768 * a5 + 262144 * a6
    + 2097152 * a7 + 16777216 * a8
FlagWord(a0, a1, a2, a3, a4, a5, a6, a7) ==
  a0 + 2 * a1 + 4 * a2 + 8 * a3 + 16 * a4 + 32 * a5 + 64 * a6 + 128 * a7
Word(color, d) ==
  IF color = 5
  THEN FlagWord(d[0], d[1], d[2], d[3], d[4], d[5], d[6], d[7])
  ELSE OctalWord(d[0], d[1], d[2], d[3], d[4], d[5], d[6], d[7], d[8])
Packed(set) == [color \in 0..5 |-> Word(color, Digits(set, color))]
WordsArePacked == cards = Packed(cards) /\ other = Packed(other)

(* at() goes through the tiles one by one: at(0) to at(Count() - 1) are    *)
(* the tiles, each kind as often as it is held.                            *)
AtIsExhaustive ==
  \A k \in Kinds :
    Cardinality({idx \in 0..(Count(cards) - 1) : At(cards, idx) = k})
      = Number(cards, k)
=============================================================================
