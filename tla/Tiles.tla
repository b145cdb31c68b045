-------------------------------- MODULE Tiles --------------------------------
(***************************************************************************)
(* The tiles of the game as the bot knows them (examples/MJCards.h), and   *)
(* bags of them: a count of each kind.                                     *)
(*                                                                         *)
(* A kind is <<color, value>>: colors 0 to 2 are the suits, 3 the dragons, *)
(* 4 the winds and 5 the flowers.                                          *)
(***************************************************************************)
EXTENDS Integers, FiniteSetsExt

CONSTANT Kinds  \* the kinds that the game is played with

Highest == <<8, 8, 8, 2, 3, 7>>
Values(color) == 0..Highest[color + 1]

ASSUME KindsAssumption ==
         Kinds \subseteq UNION {{color} \X Values(color) : color \in 0..5}

Suited(k) == k[1] \in 0..2
Flower(k) == k[1] = 5

(* The order in which the code goes through a set.                         *)
Before(k, j) == k[1] < j[1] \/ (k[1] = j[1] /\ k[2] < j[2])

(* How many of a kind there are in the game, and in the largest counter.   *)
Copies(k) == IF Flower(k) THEN 1 ELSE 4
Room(k) == IF Flower(k) THEN 1 ELSE 7

NoTiles == [k \in Kinds |-> 0]
Held(bag) == {k \in Kinds : bag[k] > 0}

(* The tiles of a bag one by one, and how many there are.                  *)
OneByOne(bag) == UNION {{k} \X (1..bag[k]) : k \in Kinds}
Total(bag) == Cardinality(OneByOne(bag))

(* A suit takes no fifth tile of a kind; the rest is up to the caller.     *)
Put(bag, k) == IF Suited(k) /\ bag[k] >= 4
               THEN bag ELSE [bag EXCEPT ![k] = @ + 1]

(* A tile that is not there is not missed.                                 *)
Take(bag, k) == IF bag[k] = 0 THEN bag ELSE [bag EXCEPT ![k] = @ - 1]

(* Several tiles, one after the other.                                     *)
PutMany(bag, more) ==
  [k \in Kinds |-> IF Suited(k) /\ bag[k] + more[k] > 4
                   THEN Max({bag[k], 4}) ELSE bag[k] + more[k]]
TakeMany(bag, less) ==
  [k \in Kinds |-> IF bag[k] > less[k] THEN bag[k] - less[k] ELSE 0]

(* A sequence, by its lowest tile.                                         *)
Chow(first) == {<<first[1], first[2] + i>> : i \in 0..2}

(* Bags of a kind, and of a tile each.                                     *)
Several(k, n) == [j \in Kinds |-> IF j = k THEN n ELSE 0]
Each(ks) == [j \in Kinds |-> IF j \in ks THEN 1 ELSE 0]
=============================================================================
