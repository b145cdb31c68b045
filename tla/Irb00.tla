-------------------------------- MODULE Irb00 --------------------------------
(***************************************************************************)
(* class Irb00 (examples/Irb00.cpp): how the bot decides.  A search splits *)
(* the hand into groups in every way, counts the steps to a winning hand   *)
(* from the best split, and every decision compares such counts.           *)
(*                                                                         *)
(* The packed integers of the code (Tiles_, MJCards) are bags here: module *)
(* MJCards shows that the packing does what a bag does.  Module Bot plays  *)
(* with these decisions.                                                   *)
(***************************************************************************)
EXTENDS Tiles, Sequences

CONSTANT HandSize  \* tiles in a hand before the draw; 16 in the game

ASSUME HandSizeAssumption == HandSize \in Nat /\ HandSize % 3 = 1
ASSUME NoFlowersAssumption == \A k \in Kinds : ~Flower(k)

-----------------------------------------------------------------------------
(* The search.                                                             *)

(* The tiles of GroupMask[n]: nine pairs, nine triplets, seven sequences,  *)
(* eight pairs of neighbours and seven pairs with a gap, each at a value.  *)
MaskValues(n) ==
  CASE n \in 0..8   -> <<n, n>>
    [] n \in 9..17  -> <<n - 9, n - 9, n - 9>>
    [] n \in 18..24 -> <<n - 18, n - 17, n - 16>>
    [] n \in 25..32 -> <<n - 25, n - 24>>
    [] n \in 33..39 -> <<n - 33, n - 31>>

(* Tiles_ has four integers: the suits, and one for winds and dragons.     *)
HonorKind(digit) == IF digit <= 3 THEN <<4, digit>> ELSE <<3, digit - 4>>
TileToCard(color, value) ==
  IF color = 3 THEN HonorKind(value) ELSE <<color, value>>

(* The groups, by the number GetComponent gives them.  The last 18 are the *)
(* pairs and triplets of honors.                                           *)
GroupTiles(i) ==
  [j \in DOMAIN MaskValues(i % 40) |->
     TileToCard(i \div 40, MaskValues(i % 40)[j])]
Groups == {i \in 0..137 : \A j \in DOMAIN GroupTiles(i) : GroupTiles(i)[j] \in Kinds}
Mask == [i \in Groups |->
  [k \in Kinds |-> Cardinality({j \in DOMAIN GroupTiles(i) : GroupTiles(i)[j] = k})]]

(* Have, and tiles -= mask.                                                *)
Have(bag, i) == \A k \in Kinds : bag[k] >= Mask[i][k]
Without(bag, less) == [k \in Kinds |-> bag[k] - less[k]]
With(bag, more) == [k \in Kinds |-> bag[k] + more[k]]

(* FindGroups: groups are taken in the order of their numbers until none   *)
(* from the last one on is left; what the split consists of is all that    *)
(* CountSteps looks at.                                                    *)
Kind(i) == CASE i % 40 < 9 -> "pair" [] i % 40 \in 9..24 -> "group"
             [] OTHER -> "pre_group"
FindGroups[bag \in [Kinds -> Int]] ==
  [start \in 0..137 |->
     LET fitting == {i \in Groups : i >= start /\ Have(bag, i)} IN
     IF fitting = {}
     THEN {[pair |-> 0, group |-> 0, pre_group |-> 0, single |-> Total(bag)]}
     ELSE UNION {{[split EXCEPT ![Kind(i)] = @ + 1] :
                    split \in FindGroups[Without(bag, Mask[i])][i]} : i \in fitting}]

(* CountSteps, of one split.  (Mutants: a missing pair costs nothing, or   *)
(* costs a step where there is room for one yet.)                          *)
PairlessIsFree(split, needed) == 0
PairlessTooSoon(split, needed) ==
  IF split.pair = 0 /\ split.pre_group >= needed - split.group THEN 1 ELSE 0
Pairless(split, needed) ==
  IF split.pre_group # 0 /\ split.pair = 0
     /\ split.pre_group >= needed + 1 - split.group
  THEN 1 ELSE 0
CountSteps(split) ==
  LET needed == (split.group * 3 + split.pre_group * 2 + split.pair * 2
                   + split.single) \div 3
      parts == split.group + split.pre_group + split.pair
  IN needed * 2 + 1 - (split.group * 2 + split.pre_group + split.pair)
       + (IF parts > needed + 1 THEN parts - (needed + 1) ELSE 0)
       + Pairless(split, needed)

(* StepToHu1617, of every hand with its drawn tile.  (To compare a         *)
(* function with itself, TLC tabulates it.)                                *)
Hands(sizes) == {bag \in [Kinds -> 0..4] : Total(bag) \in sizes}
Tabulated(f) == CHOOSE g \in {f} : g = f
StepToHu == Tabulated([bag \in Hands(0..HandSize + 1) |->
                         Min({CountSteps(split) : split \in FindGroups[bag][0]})])

-----------------------------------------------------------------------------
(* The decisions.                                                          *)

Plus(bag, k) == [bag EXCEPT ![k] = @ + 1]
Minus(bag, k) == [bag EXCEPT ![k] = @ - 1]

(* The order of Tiles_: winds before dragons.                              *)
TileOrder(k) == CASE k[1] \in 0..2 -> 9 * k[1] + k[2]
                  [] k[1] = 4 -> 27 + k[2]
                  [] k[1] = 3 -> 31 + k[2]
First(ks) == CHOOSE k \in ks : \A j \in ks : TileOrder(k) <= TileOrder(j)

(* T1: the tiles the hand can spare.                                       *)
Candidates(bag) ==
  {k \in Held(bag) : StepToHu[Minus(bag, k)] = StepToHu[bag]}

(* T2: how many of the tiles not seen yet would bring it closer.           *)
NumOfImprove(bag, remain, steps) ==
  Cardinality(UNION {{k} \X (1..remain[k]) :
    k \in {j \in Kinds : remain[j] > 0 /\ StepToHu[Plus(bag, j)] = steps - 1}})

(* Throw, of hand and drawn tile together.  With no candidate the code     *)
(* reads the first of an empty vector: NoTile.                             *)
NoTile == <<-1, -1>>
RemainTiles(bag, discards) == [k \in Kinds |-> 4 - bag[k] - discards[k]]
Throw(bag, discards) ==
  LET candidates == Candidates(bag)
      gain == [k \in candidates |->
                 NumOfImprove(Minus(bag, k), RemainTiles(bag, discards), StepToHu[bag])]
  IN IF candidates = {}
     THEN NoTile
     ELSE First({k \in candidates : \A j \in candidates : gain[j] <= gain[k]})

(* AllYouCanGon: the drawn tile first, then the kongs of the hand.         *)
GonOrder(k) == 9 * k[1] + k[2]
CanGonNow(hand, pon, k) == hand[k] = 3 \/ k \in pon
CanGonLater(hand, pon, k) == hand[k] = 4 \/ (hand[k] = 1 /\ k \in pon)

(* GonOrNot: the first kong (an added one, or a concealed four) that costs *)
(* no step.  (A mutant: whatever it costs.)                                *)
AnyGon(bag, k) == bag[k] \in {1, 4}
GoodGon(bag, k) ==
  /\ bag[k] \in {1, 4}
  /\ StepToHu[Without(bag, Several(k, bag[k]))] = StepToHu[bag]
GonOrNot(hand, pon, card) ==
  LET bag == Put(hand, card)
      later == {k \in Kinds : CanGonLater(hand, pon, k) /\ GoodGon(bag, k)}
  IN IF CanGonNow(hand, pon, card) /\ GoodGon(bag, card) THEN card
     ELSE IF later = {} THEN NoTile
     ELSE CHOOSE k \in later : \A j \in later : GonOrder(k) <= GonOrder(j)

(* WannaHuGon.                                                             *)
WannaHuGon(hand, discards, pon, can, card) ==
  LET gon == IF can \cap {"ANGON", "PONGON"} # {}
             THEN GonOrNot(hand, pon, card) ELSE NoTile IN
  CASE "ZIMO" \in can -> <<"ZIMO", card>>
    [] "ZIMO" \notin can /\ gon # NoTile ->
         <<IF Put(hand, card)[gon] = 1 THEN "PONGON" ELSE "ANGON", gon>>
    [] OTHER -> <<"NONE", Throw(Plus(hand, card), discards)>>

(* Whether tiles taken out for a group bring the hand a step closer.  The  *)
(* digits of tiles that are not there borrow from their neighbours: that   *)
(* answer is not computed here but given, borrowed.  (A mutant: it need    *)
(* not come closer.)                                                       *)
HelpsOrNot(hand, less) == StepToHu[Without(hand, less)] <= StepToHu[hand]
Helps(hand, less) == StepToHu[Without(hand, less)] = StepToHu[hand] - 1

PonOrNot(hand, card, borrowed) ==
  IF hand[card] >= 2 THEN Helps(hand, Several(card, 2)) ELSE borrowed

(* EatOrNot: the place the card takes in a sequence, tried in this order;  *)
(* at either end of the suit without a look at the hand.                   *)
NoPlace == -1
HasTiles(hand, ks) == ks \subseteq Kinds /\ \A k \in ks : hand[k] > 0
EatTiles(card, place) ==
  {<<card[1], card[2] + place - 2>>, <<card[1], card[2] + place - 1>>,
   <<card[1], card[2] + place>>} \ {card}
EatPlaces(card) ==
  CASE card[2] = 0 -> <<2>>
    [] card[2] = 8 -> <<0>>
    [] card[2] = 1 -> <<1, 2>>
    [] card[2] = 7 -> <<1, 0>>
    [] OTHER -> <<1, 2, 0>>
GoodPlace(hand, card, place, borrowed) ==
  IF HasTiles(hand, EatTiles(card, place))
  THEN Helps(hand, Each(EatTiles(card, place)))
  ELSE card[2] \in {0, 8} /\ borrowed
EatOrNot(hand, card, borrowed) ==
  LET places == EatPlaces(card)
      good == {i \in DOMAIN places : GoodPlace(hand, card, places[i], borrowed)}
  IN IF Suited(card) /\ good # {} THEN places[Min(good)] ELSE NoPlace

(* WannaHGPE and, of the sequence it ate into, the place (pickToEat).      *)
WannaHGPE(hand, can, card, borrowed) ==
  LET place == IF "EAT" \in can
               THEN EatOrNot(hand, card, "EAT" \in borrowed) ELSE NoPlace
  IN CASE "HU" \in can -> <<"HU", NoPlace>>
       [] "HU" \notin can /\ place # NoPlace -> <<"EAT", place>>
       [] "HU" \notin can /\ place = NoPlace /\ "PON" \in can
            /\ PonOrNot(hand, card, "PON" \in borrowed) -> <<"PON", NoPlace>>
       [] OTHER -> <<"NONE", NoPlace>>
=============================================================================
