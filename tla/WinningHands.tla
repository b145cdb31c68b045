---------------------------- MODULE WinningHands -----------------------------
(***************************************************************************)
(* Winning hands by what the game says, and how far a hand is from one, by *)
(* enumeration: the reference for the search of Irb00.                     *)
(***************************************************************************)
EXTENDS Irb00

(* Groups of three and a pair; no hand has a fifth tile of a kind.         *)
MeldBags ==
  {Several(k, 3) : k \in Kinds}
    \cup {Each(Chow(k)) : k \in {j \in Kinds : Suited(j) /\ Chow(j) \subseteq Kinds}}
Winning[n \in 0..HandSize \div 3] ==
  IF n = 0
  THEN {Several(k, 2) : k \in Kinds}
  ELSE {bag \in {With(won, meld) :
                   won \in Winning[n - 1], meld \in MeldBags} :
          \A k \in Kinds : bag[k] <= 4}

\* There are kinds enough for a winning hand.
ASSUME SomeHandWins == Winning[HandSize \div 3] # {}

(* How many tiles a hand misses to the nearest winning hand.               *)
Misses(bag, won) == Total(Without(won, bag))
Distance ==
  Tabulated([bag \in Hands({n \in 1..HandSize + 1 : n % 3 # 0}) |->
               Min({Misses(bag, won) : won \in Winning[Total(bag) \div 3]})])
Complete(bag) == Total(bag) % 3 = 2 /\ Distance[bag] = 0
=============================================================================
