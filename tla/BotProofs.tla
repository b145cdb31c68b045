------------------------------ MODULE BotProofs ------------------------------
(***************************************************************************)
(* Proofs about module Bot, for every choice of its constants: the bot     *)
(* that has handled what is under way agrees with the table (Support), and *)
(* what follows of its hand, the open tiles, the melds and the answers.    *)
(***************************************************************************)
EXTENDS Bot, Irb00Proofs

-----------------------------------------------------------------------------
(* Events handled one after the other.                                     *)

(* Handling one event more.                                                *)
LEMMA HandlingStep ==
  ASSUME NEW p, NEW es, Len(es) \in Nat
  PROVE  /\ Handling(p, es)[0] = p
         /\ \A i \in 1..Len(es) :
              Handling(p, es)[i] = Handled(Handling(p, es)[i - 1], es[i])
<1> DEFINE Step(f, i) == IF i = 0 THEN p ELSE Handled(f[i - 1], es[i])
           Solves(f, n) == f = [i \in 0..n |-> Step(f, i)]
           T == {n \in Nat : \E f : Solves(f, n)}
<1>1. 0 \in T
  <2>1. Solves([i \in 0..0 |-> p], 0)
    OBVIOUS
  <2> QED BY <2>1
<1>2. ASSUME NEW n \in T PROVE n + 1 \in T
  <2>1. PICK f : Solves(f, n)
    OBVIOUS
  <2> DEFINE g == [i \in 0..n + 1 |->
                     IF i <= n THEN f[i] ELSE Handled(f[n], es[n + 1])]
  <2>2. ASSUME NEW i \in 0..n + 1 PROVE g[i] = Step(g, i)
    <3>1. CASE i = n + 1
      BY <3>1
    <3>2. CASE i <= n
      BY <2>1, <3>2
    <3> QED BY <3>1, <3>2
  <2>3. Solves(g, n + 1)
    BY <2>2
  <2> HIDE DEF g, Solves
  <2> QED BY <2>3
<1>3. Len(es) \in T
  BY <1>1, <1>2, NatSet
<1>4. \E f : Solves(f, Len(es))
  BY <1>3
<1>5. Handling(p, es) = CHOOSE f : Solves(f, Len(es))
  BY DEF Handling
<1>6. Solves(Handling(p, es), Len(es))
  BY <1>4, <1>5
<1> QED BY <1>6

(* No event.                                                               *)
LEMMA HandledNone ==
  ASSUME NEW p
  PROVE  End(p, <<>>) = p /\ (Kept(p, <<>>) <=> IsPlayer(p))
<1>1. Len(<<>>) = 0
  OBVIOUS
<1>2. Handling(p, <<>>)[0] = p
  BY <1>1, HandlingStep
<1> QED BY <1>1, <1>2 DEF End, Kept

(* The first event, then the others: what the bot is after each.           *)
LEMMA HandlingRest ==
  ASSUME NEW p, NEW es, IsSequence(es), es # <<>>
  PROVE  /\ Len(es) \in Nat /\ Len(Tail(es)) \in Nat /\ Len(es) = Len(Tail(es)) + 1
         /\ Handling(p, es)[0] = p
         /\ \A i \in 0..Len(Tail(es)) :
              Handling(Handled(p, Head(es)), Tail(es))[i] = Handling(p, es)[i + 1]
<1> DEFINE q == Handled(p, Head(es))
           t == Tail(es)
           all == Handling(p, es)
           rest == Handling(q, t)
<1>1. /\ Head(es) = es[1] /\ Len(t) = Len(es) - 1 /\ Len(es) \in Nat
      /\ Len(t) \in Nat /\ \A i \in 1..Len(es) - 1 : t[i] = es[i + 1]
  <2>1. IsSequence(t) /\ Head(es) = es[1] /\ Len(t) = Len(es) - 1
    BY SequenceTail
  <2>2. \A i \in 1..Len(es) - 1 : t[i] = es[i + 1]
    BY SequenceTail
  <2>3. Len(es) \in Nat /\ Len(t) \in Nat
    BY <2>1, SequenceShape
  <2> QED BY <2>1, <2>2, <2>3
<1> DEFINE n == Len(t)
<1>7. n \in Nat /\ Len(t) = n /\ Len(es) = n + 1 /\ Len(es) \in Nat
  BY <1>1
<1> HIDE DEF t, n
<1>2. all[0] = p /\ \A i \in 1..n + 1 : all[i] = Handled(all[i - 1], es[i])
  BY <1>7, HandlingStep
<1>3. rest[0] = q /\ \A i \in 1..n : rest[i] = Handled(rest[i - 1], t[i])
  BY <1>7, HandlingStep
<1> HIDE DEF all, rest
<1>4. \A i \in 0..n : rest[i] = all[i + 1]
  <2> DEFINE T == {i \in Nat : i <= n => rest[i] = all[i + 1]}
  <2>1. 0 \in T
    <3>1. 1 \in 1..n + 1 /\ 1 - 1 = 0 /\ 0 + 1 = 1
      BY <1>7
    <3>2. all[1] = Handled(p, es[1])
      BY <3>1, <1>2
    <3>3. rest[0] = all[0 + 1]
      BY <3>1, <3>2, <1>1, <1>3
    <3> QED BY <3>3
  <2>2. ASSUME NEW i \in T PROVE i + 1 \in T
    <3>1. CASE i + 1 <= n
      <4>1. /\ i + 1 \in 1..n /\ (i + 1) + 1 \in 1..n + 1 /\ (i + 1) - 1 = i
            /\ ((i + 1) + 1) - 1 = i + 1
        BY <3>1, <1>7
      <4>2. rest[i] = all[i + 1] /\ t[i + 1] = es[(i + 1) + 1]
        BY <3>1, <4>1, <1>1, <1>7
      <4>3. rest[i + 1] = all[(i + 1) + 1]
        BY <4>1, <4>2, <1>2, <1>3
      <4> QED BY <4>3
    <3> QED BY <3>1
  <2>3. T = Nat
    BY <2>1, <2>2, NatSet
  <2> QED BY <2>3
<1> QED BY <1>2, <1>4, <1>7 DEF all, rest, n, t

(* What comes of the whole.                                                *)
LEMMA HandledFirst ==
  ASSUME NEW p, NEW es, IsSequence(es), es # <<>>
  PROVE  /\ End(Handled(p, Head(es)), Tail(es)) = End(p, es)
         /\ Kept(p, es) => IsPlayer(p) /\ Kept(Handled(p, Head(es)), Tail(es))
<1> DEFINE q == Handled(p, Head(es))
           t == Tail(es)
           n == Len(t)
           all == Handling(p, es)
           rest == Handling(q, t)
<1>1. n \in Nat /\ Len(t) = n /\ Len(es) = n + 1 /\ Len(es) \in Nat
  BY HandlingRest
<1>2. all[0] = p /\ \A i \in 0..n : rest[i] = all[i + 1]
  BY HandlingRest
<1> HIDE DEF t, n, all, rest
<1>3. rest[n] = all[n + 1]
  BY <1>1, <1>2
<1>4. (\A i \in 0..n + 1 : IsPlayer(all[i])) => IsPlayer(p) /\ \A i \in 0..n : IsPlayer(rest[i])
  <2>1. 0 \in 0..n + 1 /\ \A i \in 0..n : i + 1 \in 0..n + 1
    BY <1>1
  <2> QED BY <2>1, <1>2
<1>5. End(q, t) = rest[n] /\ End(p, es) = all[n + 1]
  BY <1>1 DEF End, all, rest
<1>6. /\ Kept(p, es) <=> \A i \in 0..n + 1 : IsPlayer(all[i])
      /\ Kept(q, t) <=> \A i \in 0..n : IsPlayer(rest[i])
  BY <1>1 DEF Kept, all, rest
<1> QED BY <1>3, <1>4, <1>5, <1>6 DEF t

(* The bot that is asked, before the last event, is the same on the way.   *)
LEMMA AskedRest ==
  ASSUME NEW p, NEW es, IsSequence(es), es # <<>>, Len(es) # 1
  PROVE  Asked(Handled(p, Head(es)), Tail(es)) = Asked(p, es)
<1> DEFINE t == Tail(es)
           n == Len(t)
           all == Handling(p, es)
           rest == Handling(Handled(p, Head(es)), t)
<1>1. n \in Nat /\ Len(t) = n /\ Len(es) = n + 1
  BY HandlingRest
<1>2. \A i \in 0..n : rest[i] = all[i + 1]
  BY HandlingRest
<1> HIDE DEF t, n, all, rest
<1>3. n - 1 \in 0..n /\ (n - 1) + 1 = n /\ Len(es) - 1 = n
  BY <1>1
<1>4. rest[n - 1] = all[n]
  BY <1>2, <1>3
<1>5. Asked(Handled(p, Head(es)), t) = rest[n - 1] /\ Asked(p, es) = all[n]
  BY <1>1, <1>3 DEF Asked, all, rest
<1> QED BY <1>4, <1>5 DEF t

(* A player that is kept is one now, and in the end.                       *)
LEMMA KeptEnds ==
  ASSUME NEW p, NEW es, IsSequence(es), Kept(p, es)
  PROVE  IsPlayer(p) /\ IsPlayer(End(p, es))
<1>1. Len(es) \in Nat
  BY SequenceShape
<1>2. 0 \in 0..Len(es) /\ Len(es) \in 0..Len(es)
  BY <1>1
<1>3. Handling(p, es)[0] = p
  BY <1>1, HandlingStep
<1> QED BY <1>2, <1>3 DEF Kept, End

(* One event more at the end: the bot has handled the others before it.    *)
LEMMA HandledLast ==
  ASSUME NEW p, NEW es, IsSequence(es), NEW e
  PROVE  /\ End(p, Append(es, e)) = Handled(End(p, es), e)
         /\ Kept(p, es) /\ IsPlayer(Handled(End(p, es), e)) => Kept(p, Append(es, e))
         /\ Asked(p, Append(es, e)) = End(p, es)
<1> DEFINE u == Append(es, e)
           before == Handling(p, es)
           after == Handling(p, u)
<1>1. /\ Len(es) \in Nat /\ Len(u) = Len(es) + 1
      /\ \A i \in 1..Len(es) : u[i] = es[i]
      /\ u[Len(es) + 1] = e
  BY SequenceAppend, SequenceShape
<1> SUFFICES ASSUME NEW n \in Nat, Len(es) = n, Len(u) = n + 1
             PROVE  /\ End(p, u) = Handled(End(p, es), e)
                    /\ Kept(p, es) /\ IsPlayer(Handled(End(p, es), e)) => Kept(p, u)
                    /\ Asked(p, u) = End(p, es)
  BY <1>1
<1> HIDE DEF u
<1>2. before[0] = p /\ \A i \in 1..n : before[i] = Handled(before[i - 1], es[i])
  BY HandlingStep
<1>3. after[0] = p /\ \A i \in 1..n + 1 : after[i] = Handled(after[i - 1], u[i])
  <2>1. Len(u) \in Nat
    OBVIOUS
  <2> QED BY <2>1, HandlingStep
<1> HIDE DEF before, after
<1>4. \A i \in 0..n : after[i] = before[i]
  <2> DEFINE T == {i \in Nat : i <= n => after[i] = before[i]}
  <2>1. 0 \in T
    BY <1>2, <1>3
  <2>2. ASSUME NEW i \in T PROVE i + 1 \in T
    <3>1. CASE i + 1 <= n
      <4>1. i + 1 \in 1..n /\ i + 1 \in 1..n + 1 /\ (i + 1) - 1 = i
        BY <3>1
      <4>2. after[i] = before[i] /\ u[i + 1] = es[i + 1]
        BY <3>1, <4>1, <1>1
      <4>3. after[i + 1] = before[i + 1]
        BY <4>1, <4>2, <1>2, <1>3
      <4> QED BY <4>3
    <3> QED BY <3>1
  <2>3. T = Nat
    BY <2>1, <2>2, NatSet
  <2> QED BY <2>3
<1>5. after[n + 1] = Handled(before[n], e)
  <2>1. n + 1 \in 1..n + 1 /\ (n + 1) - 1 = n /\ n \in 0..n
    OBVIOUS
  <2>2. u[n + 1] = e
    BY <1>1
  <2>3. after[n + 1] = Handled(after[n], u[n + 1])
    BY <1>3, <2>1
  <2> QED BY <2>1, <2>2, <2>3, <1>4
<1>6. (\A i \in 0..n : IsPlayer(before[i])) /\ IsPlayer(Handled(before[n], e)) =>
        \A i \in 0..n + 1 : IsPlayer(after[i])
  <2>1. \A i \in 0..n + 1 : i \in 0..n \/ i = n + 1
    OBVIOUS
  <2> QED BY <2>1, <1>4, <1>5
<1>7. (n + 1) - 1 = n /\ after[n] = before[n]
  BY <1>4
<1> QED BY <1>5, <1>6, <1>7 DEF End, Kept, Asked, before, after

-----------------------------------------------------------------------------
(* Sequences.                                                              *)

(* The two tiles that a card needs at a place, and the sequence they make. *)
LEMMA EatMakesChow ==
  ASSUME NEW card \in Kinds, NEW place \in 0..2, NEW bag,
         HasTiles(bag, EatTiles(card, place)),
         NEW low, low = Lowest(card, place)
  PROVE  /\ low \in Kinds /\ card \in Chow(low)
         /\ EatTiles(card, place) = Chow(low) \ {card}
<1>1. card = <<card[1], card[2]>> /\ card[1] \in Int /\ card[2] \in Int
  BY KindIs
<1> DEFINE c == card[1]
           v == card[2]
<1>2. EatTiles(card, place) = {<<c, v + place - 2>>, <<c, v + place - 1>>, <<c, v + place>>} \ {card}
  BY DEF EatTiles
<1>3. low = <<c, v + place - 2>>
  BY <1>1 DEF Lowest
<1>4. low[1] = c /\ low[2] = v + place - 2
  BY <1>3
<1>5. Chow(low) = {<<c, v + place - 2>>, <<c, v + place - 1>>, <<c, v + place>>}
  <2>1. Chow(low) = {<<low[1], low[2] + 0>>, <<low[1], low[2] + 1>>, <<low[1], low[2] + 2>>}
    BY DEF Chow
  <2> QED BY <2>1, <1>1, <1>4
<1>6. card \in Chow(low)
  BY <1>1, <1>5
<1>7. low \in Kinds
  <2>1. CASE low = card
    BY <2>1
  <2>2. CASE low # card
    BY <2>2, <1>2, <1>3 DEF HasTiles
  <2> QED BY <2>1, <2>2
<1> QED BY <1>2, <1>5, <1>6, <1>7

(* At either end of the suit there is one place.                           *)
LEMMA EatAtEnds ==
  ASSUME NEW card \in Kinds, Suited(card), NEW place \in 0..2, NEW bag,
         HasTiles(bag, EatTiles(card, place))
  PROVE  (card[2] = 0 => place = 2) /\ (card[2] = 8 => place = 0)
<1>1. /\ card = <<card[1], card[2]>> /\ card[1] \in Int /\ card[2] \in 0..8
      /\ \A k \in Kinds : k[2] \in 0..8
  BY KindIs
<1> DEFINE c == card[1]
           v == card[2]
           low == <<c, v + place - 2>>
           high == <<c, v + place>>
<1>2. {low, high} \subseteq EatTiles(card, place) \cup {card}
  BY DEF EatTiles
<1>3. low \in Kinds /\ high \in Kinds
  BY <1>2 DEF HasTiles
<1>4. low[2] = v + place - 2 /\ high[2] = v + place
  OBVIOUS
<1>5. v + place - 2 \in 0..8 /\ v + place \in 0..8
  <2> HIDE DEF low, high
  <2> QED BY <1>1, <1>3, <1>4
<1> QED BY <1>1, <1>5

(* EatOrNot finds the two tiles in the hand, or does not look for them at  *)
(* an end of the suit.                                                     *)
LEMMA EatIs ==
  ASSUME NEW hand, NEW card \in Kinds, NEW borrowed,
         NEW place, place = EatOrNot(hand, card, borrowed)
  PROVE  \/ place = NoPlace
         \/ /\ Suited(card) /\ place \in 0..2
            /\ \/ /\ HasTiles(hand, EatTiles(card, place))
                  /\ Helps(hand, Each(EatTiles(card, place)))
               \/ ~HasTiles(hand, EatTiles(card, place)) /\ card[2] = 0 /\ place = 2
               \/ ~HasTiles(hand, EatTiles(card, place)) /\ card[2] = 8 /\ place = 0
<1> DEFINE places == EatPlaces(card)
           good == {i \in DOMAIN places : GoodPlace(hand, card, places[i], borrowed)}
<1>1. place = IF Suited(card) /\ good # {} THEN places[Min(good)] ELSE NoPlace
  BY Zenon DEF EatOrNot
<1>2. /\ DOMAIN places \subseteq Nat
      /\ \A i \in DOMAIN places : places[i] \in 0..2
      /\ card[2] = 0 => \A i \in DOMAIN places : places[i] = 2
      /\ card[2] = 8 => \A i \in DOMAIN places : places[i] = 0
  <2>1. card[2] \in 0..8
    BY KindIs
  <2>2. CASE card[2] = 0
    <3>1. places = <<2>>
      BY <2>2 DEF EatPlaces
    <3> QED BY <2>2, <3>1
  <2>3. CASE card[2] = 8
    <3>1. places = <<0>>
      BY <2>3 DEF EatPlaces
    <3> QED BY <2>3, <3>1
  <2>4. CASE card[2] = 1
    <3>1. places = <<1, 2>>
      BY <2>4 DEF EatPlaces
    <3> QED BY <2>4, <3>1
  <2>5. CASE card[2] = 7
    <3>1. places = <<1, 0>>
      BY <2>5 DEF EatPlaces
    <3> QED BY <2>5, <3>1
  <2>6. CASE card[2] \notin {0, 1, 7, 8}
    <3>1. places = <<1, 2, 0>>
      BY <2>6 DEF EatPlaces
    <3> QED BY <2>6, <3>1
  <2> QED BY <2>1, <2>2, <2>3, <2>4, <2>5, <2>6
<1> HIDE DEF places
<1>3. CASE Suited(card) /\ good # {}
  <2>1. good \subseteq Nat
    BY <1>2
  <2>2. Min(good) \in good
    <3> HIDE DEF good
    <3> QED BY <1>3, <2>1, MinIs
  <2> DEFINE i == Min(good)
  <2>3. i \in DOMAIN places /\ GoodPlace(hand, card, places[i], borrowed)
    <3>1. \A j \in good : j \in DOMAIN places /\ GoodPlace(hand, card, places[j], borrowed)
      OBVIOUS
    <3> HIDE DEF good
    <3> QED BY <2>2, <3>1
  <2>4. place = places[i]
    <3> HIDE DEF good
    <3> QED BY <1>1, <1>3
  <2> HIDE DEF i
  <2>5. place \in 0..2 /\ (card[2] = 0 => place = 2) /\ (card[2] = 8 => place = 0)
    BY <1>2, <2>3, <2>4
  <2>6. \/ /\ HasTiles(hand, EatTiles(card, place))
           /\ Helps(hand, Each(EatTiles(card, place)))
        \/ ~HasTiles(hand, EatTiles(card, place)) /\ card[2] \in {0, 8}
    BY <2>3, <2>4 DEF GoodPlace
  <2> QED BY <1>3, <2>5, <2>6
<1>4. CASE ~(Suited(card) /\ good # {})
  BY <1>1, <1>4
<1> QED BY <1>3, <1>4

(* WannaHGPE claims what the server offers: the tiles are in the hand, or  *)
(* in what the server knows of it.                                         *)
LEMMA OtherAnswerIs ==
  ASSUME NEW hand \in [Kinds -> 0..4], NEW bag \in [Kinds -> 0..4],
         \A k \in Kinds : hand[k] <= bag[k],
         NEW card \in Kinds, NEW can, NEW borrowed,
         "EAT" \in can => Suited(card) /\ \E place \in 0..2 : HasTiles(bag, EatTiles(card, place)),
         "PON" \in can => bag[card] >= 2,
         NEW cmd, cmd = WannaHGPE(hand, can, card, borrowed),
         NEW low, low = Lowest(card, cmd[2])
  PROVE  /\ low \in Kinds
         /\ \/ cmd[1] = "HU" /\ "HU" \in can
            \/ /\ cmd[1] = "EAT" /\ card \in Chow(low)
               /\ HasTiles(bag, Chow(low) \ {card})
            \/ cmd[1] = "PON" /\ low = card /\ bag[card] >= 2
            \/ cmd[1] = "NONE"
<1> DEFINE place == IF "EAT" \in can
                    THEN EatOrNot(hand, card, "EAT" \in borrowed) ELSE NoPlace
<1>1. \/ cmd = <<"HU", NoPlace>> /\ "HU" \in can
      \/ cmd = <<"EAT", place>> /\ place # NoPlace
      \/ cmd = <<"PON", NoPlace>> /\ "PON" \in can
      \/ cmd = <<"NONE", NoPlace>>
  <2> HIDE DEF place
  <2>1. cmd = CASE "HU" \in can -> <<"HU", NoPlace>>
                [] "HU" \notin can /\ place # NoPlace -> <<"EAT", place>>
                [] "HU" \notin can /\ place = NoPlace /\ "PON" \in can
                     /\ PonOrNot(hand, card, "PON" \in borrowed) -> <<"PON", NoPlace>>
                [] OTHER -> <<"NONE", NoPlace>>
    BY Zenon DEF WannaHGPE, place
  <2> QED BY <2>1
<1>2. Lowest(card, NoPlace) = card
  BY DEF Lowest, NoPlace
<1>3. CASE cmd = <<"EAT", place>> /\ place # NoPlace
  <2>1. "EAT" \in can /\ place = EatOrNot(hand, card, "EAT" \in borrowed)
    BY <1>3
  <2>2. PICK p \in 0..2 : HasTiles(bag, EatTiles(card, p))
    BY <2>1
  <2> HIDE DEF place
  <2>3. \/ HasTiles(hand, EatTiles(card, place))
        \/ card[2] = 0 /\ place = 2
        \/ card[2] = 8 /\ place = 0
    BY <1>3, <2>1, EatIs
  <2>4. place \in 0..2
    BY <1>3, <2>1, EatIs
  <2>5. HasTiles(bag, EatTiles(card, place))
    <3>1. CASE HasTiles(hand, EatTiles(card, place))
      BY <3>1 DEF HasTiles
    <3>2. CASE card[2] = 0 /\ place = 2
      BY <2>1, <2>2, <3>2, EatAtEnds
    <3>3. CASE card[2] = 8 /\ place = 0
      BY <2>1, <2>2, <3>3, EatAtEnds
    <3> QED BY <2>3, <3>1, <3>2, <3>3
  <2>6. cmd[1] = "EAT" /\ cmd[2] = place
    BY <1>3
  <2>7. low = Lowest(card, place)
    BY <2>6
  <2>8. low \in Kinds /\ card \in Chow(low) /\ EatTiles(card, place) = Chow(low) \ {card}
    BY <2>4, <2>5, <2>7, EatMakesChow
  <2> QED BY <2>5, <2>6, <2>8
<1>4. CASE ~(cmd = <<"EAT", place>> /\ place # NoPlace)
  <2> HIDE DEF place
  <2>1. cmd[2] = NoPlace
    BY <1>1, <1>4
  <2>2. low = card
    BY <1>2, <2>1
  <2> QED BY <1>1, <1>4, <2>2
<1> QED BY <1>3, <1>4

(* What it claims with tiles that are there is a step less.                *)
LEMMA ClaimHelps ==
  ASSUME NEW hand \in [Kinds -> 0..4], NEW card \in Kinds, NEW can, NEW borrowed,
         "EAT" \in can => Suited(card) /\ \E place \in 0..2 : HasTiles(hand, EatTiles(card, place)),
         "PON" \in can => hand[card] >= 2,
         NEW cmd, cmd = WannaHGPE(hand, can, card, borrowed),
         NEW low, low = Lowest(card, cmd[2])
  PROVE  /\ cmd[1] = "EAT" => Helps(hand, Each(Chow(low) \ {card}))
         /\ cmd[1] = "PON" => low = card /\ Helps(hand, Several(card, 2))
<1> PICK place : place = IF "EAT" \in can
                         THEN EatOrNot(hand, card, "EAT" \in borrowed) ELSE NoPlace
  OBVIOUS
<1>1. cmd = CASE "HU" \in can -> <<"HU", NoPlace>>
              [] "HU" \notin can /\ place # NoPlace -> <<"EAT", place>>
              [] "HU" \notin can /\ place = NoPlace /\ "PON" \in can
                   /\ PonOrNot(hand, card, "PON" \in borrowed) -> <<"PON", NoPlace>>
              [] OTHER -> <<"NONE", NoPlace>>
  BY Zenon DEF WannaHGPE
<1>2. /\ cmd[1] = "EAT" => cmd[2] = place /\ place # NoPlace
      /\ cmd[1] = "PON" => /\ cmd[2] = NoPlace /\ "PON" \in can
                           /\ PonOrNot(hand, card, "PON" \in borrowed)
  BY <1>1
<1>3. ASSUME cmd[1] = "EAT" PROVE Helps(hand, Each(Chow(low) \ {card}))
  <2>1. cmd[2] = place /\ "EAT" \in can /\ place = EatOrNot(hand, card, "EAT" \in borrowed)
    BY <1>2, <1>3
  <2>2. place # NoPlace
    BY <1>2, <1>3
  <2>3. /\ Suited(card) /\ place \in 0..2
        /\ \/ /\ HasTiles(hand, EatTiles(card, place))
              /\ Helps(hand, Each(EatTiles(card, place)))
           \/ ~HasTiles(hand, EatTiles(card, place)) /\ card[2] = 0 /\ place = 2
           \/ ~HasTiles(hand, EatTiles(card, place)) /\ card[2] = 8 /\ place = 0
    BY <2>1, <2>2, EatIs
  <2>4. PICK p \in 0..2 : HasTiles(hand, EatTiles(card, p))
    BY <2>1
  <2>5. (card[2] = 0 => p = 2) /\ (card[2] = 8 => p = 0)
    BY <2>3, <2>4, EatAtEnds
  <2>6. HasTiles(hand, EatTiles(card, place)) /\ Helps(hand, Each(EatTiles(card, place)))
    BY <2>3, <2>4, <2>5
  <2>7. EatTiles(card, place) = Chow(low) \ {card}
    BY <2>1, <2>3, <2>6, EatMakesChow
  <2> QED BY <2>6, <2>7
<1>4. ASSUME cmd[1] = "PON" PROVE low = card /\ Helps(hand, Several(card, 2))
  <2>1. low = card
    BY <1>2, <1>4 DEF Lowest, NoPlace
  <2>2. hand[card] >= 2 /\ PonOrNot(hand, card, "PON" \in borrowed)
    BY <1>2, <1>4
  <2> QED BY <2>1, <2>2 DEF PonOrNot
<1> QED BY <1>3, <1>4

(* It lets no win pass, and eats only what is offered.                     *)
LEMMA ChoosesOffered ==
  ASSUME NEW hand, NEW can, NEW card, NEW borrowed,
         NEW cmd, cmd = WannaHGPE(hand, can, card, borrowed)
  PROVE  /\ "HU" \in can => cmd[1] = "HU"
         /\ cmd[1] = "EAT" => "EAT" \in can
<1> DEFINE place == IF "EAT" \in can
                    THEN EatOrNot(hand, card, "EAT" \in borrowed) ELSE NoPlace
<1>1. "EAT" \notin can => place = NoPlace
  OBVIOUS
<1> HIDE DEF place
<1>2. cmd = CASE "HU" \in can -> <<"HU", NoPlace>>
              [] "HU" \notin can /\ place # NoPlace -> <<"EAT", place>>
              [] "HU" \notin can /\ place = NoPlace /\ "PON" \in can
                   /\ PonOrNot(hand, card, "PON" \in borrowed) -> <<"PON", NoPlace>>
              [] OTHER -> <<"NONE", NoPlace>>
  BY Zenon DEF WannaHGPE, place
<1>3. "HU" \in can => cmd = <<"HU", NoPlace>>
  BY <1>2
<1>4. place = NoPlace =>
        cmd = <<"HU", NoPlace>> \/ cmd = <<"PON", NoPlace>> \/ cmd = <<"NONE", NoPlace>>
  BY <1>2
<1> QED BY <1>1, <1>3, <1>4

-----------------------------------------------------------------------------
(* The invariant, in parts.                                                *)

FlagsTyped ==
  /\ main \in {"start", "wait", "bound", "loop"}
  /\ connect_finish \in BOOLEAN /\ uuid \in BOOLEAN /\ crashed \in BOOLEAN
TableTyped ==
  /\ held \in [Kinds -> 0..4] /\ visible \in [Kinds -> 0..4]
  /\ missing \in [Kinds -> 0..4] /\ door.eat \in [Kinds -> 0..4]
  /\ door.pon \subseteq Kinds /\ door.gon \subseteq Kinds /\ door.anGon \subseteq Kinds
  /\ drawn \in Kinds \cup {NoTile} /\ thrown \in Kinds \cup {NoTile}
  /\ phase \in {"lobby", "over", "idle", "kong", "options", "discard"}
  /\ deals \in 0..MaxDeals
QueuesTyped == (\A i \in DOMAIN events : events[i].name \in Names) /\ Len(replies) <= 2

(* The type invariant by its parts.                                        *)
LEMMA TypeParts ==
  TypeOK <=> FlagsTyped /\ TableTyped /\ QueuesTyped /\ IsPlayer(player)
<1>1. IsPlayer(player) <=>
        /\ id \in {Me, Other} /\ {Hand, discards, eat} \subseteq [Kinds -> 0..4]
        /\ UNION {pon, gon, anGon} \subseteq Kinds
        /\ {drawTile, throwTile} \subseteq Kinds \cup {NoTile} /\ onlyThrow \in BOOLEAN
  BY DEF IsPlayer, player
<1>2. QueuesTyped <=>
        {events[i].name : i \in DOMAIN events} \subseteq Names /\ Len(replies) <= 2
  BY DEF QueuesTyped
<1>3. UNION {pon, gon, anGon, door.pon, door.gon, door.anGon} \subseteq Kinds <=>
        /\ UNION {pon, gon, anGon} \subseteq Kinds
        /\ door.pon \subseteq Kinds /\ door.gon \subseteq Kinds /\ door.anGon \subseteq Kinds
  OBVIOUS
<1> QED BY <1>1, <1>2, <1>3 DEF TypeOK, FlagsTyped, TableTyped

(* The same in the next state.                                             *)
LEMMA TypePartsNext ==
  TypeOK' <=> FlagsTyped' /\ TableTyped' /\ QueuesTyped' /\ IsPlayer(player)'
<1>1. IsPlayer(player)' <=>
        /\ id' \in {Me, Other} /\ {Hand', discards', eat'} \subseteq [Kinds -> 0..4]
        /\ UNION {pon', gon', anGon'} \subseteq Kinds
        /\ {drawTile', throwTile'} \subseteq Kinds \cup {NoTile} /\ onlyThrow' \in BOOLEAN
  <2>1. /\ player'.id = id' /\ player'.Hand = Hand' /\ player'.discards = discards'
        /\ player'.eat = eat' /\ player'.pon = pon' /\ player'.gon = gon'
        /\ player'.anGon = anGon' /\ player'.drawTile = drawTile'
        /\ player'.throwTile = throwTile' /\ player'.onlyThrow = onlyThrow'
    BY DEF player
  <2>2. player' = [id |-> id', Hand |-> Hand', discards |-> discards',
                   eat |-> eat', pon |-> pon', gon |-> gon', anGon |-> anGon',
                   drawTile |-> drawTile', throwTile |-> throwTile', onlyThrow |-> onlyThrow']
    BY DEF player
  <2> QED BY <2>1, <2>2, Zenon DEF IsPlayer
<1>2. QueuesTyped' <=>
        {events'[i].name : i \in DOMAIN events'} \subseteq Names /\ Len(replies') <= 2
  BY DEF QueuesTyped
<1>3. UNION {pon', gon', anGon', (door.pon)', (door.gon)', (door.anGon)'} \subseteq Kinds <=>
        /\ UNION {pon', gon', anGon'} \subseteq Kinds
        /\ (door.pon)' \subseteq Kinds /\ (door.gon)' \subseteq Kinds
        /\ (door.anGon)' \subseteq Kinds
  OBVIOUS
<1> QED BY <1>1, <1>2, <1>3 DEF TypeOK, FlagsTyped, TableTyped

(* What the queues hold is known from the turn.                            *)
LEMMA RepliesAreFew ==
  ASSUME TurnKept, LobbyKept,
         phase \in {"lobby", "over", "idle", "kong", "options", "discard"}
  PROVE  IsSequence(replies) /\ Len(replies) <= 2
<1>1. \A x : IsSequence(<<x>>) /\ Len(<<x>>) = 1
  BY SequenceTuples
<1>2. IsSequence(<<>>) /\ Len(<<>>) = 0
  BY SequenceEmpty
<1>3. ASSUME NEW names, Named(replies, names), Len(names) \in {1, 2}
      PROVE  IsSequence(replies) /\ Len(replies) <= 2
  BY <1>3 DEF Named
<1>4. Len(<<"join">>) = 1 /\ Len(<<"auth", "ready">>) = 2 /\ Len(<<"ready">>) = 1
  OBVIOUS
<1>5. \/ Named(replies, <<"join">>) \/ Named(replies, <<"auth", "ready">>)
      \/ Named(replies, <<"ready">>) \/ replies = <<>> \/ replies = <<Head(replies)>>
  <2>1. CASE phase = "lobby"
    BY <2>1, Zenon DEF LobbyKept
  <2>2. CASE phase \notin {"lobby", "discard", "options"}
    BY <2>2, Zenon DEF TurnKept
  <2>3. CASE phase = "discard"
    <3>1. phase # "lobby"
      BY <2>3
    <3> QED BY <2>3, <3>1, Zenon DEF TurnKept, Pending, Answered
  <2>4. CASE phase = "options"
    <3>1. phase # "lobby"
      BY <2>4
    <3> QED BY <2>4, <3>1, Zenon DEF TurnKept, Pending, Answered
  <2> QED BY <2>1, <2>2, <2>3, <2>4
<1>6. IsSequence(replies) /\ Len(replies) <= 2
  BY <1>1, <1>2, <1>3, <1>4, <1>5
<1> QED BY <1>6

-----------------------------------------------------------------------------
(* Listeners.                                                              *)

(* What comes of a queue of which the first is taken.                      *)
LEMMA QueueRest ==
  ASSUME NEW es, IsSequence(es), es # <<>>
  PROVE  /\ IsSequence(Tail(es)) /\ Len(es) \in Nat \ {0} /\ Len(Tail(es)) = Len(es) - 1
         /\ DOMAIN es = 1..Len(es) /\ DOMAIN Tail(es) = 1..Len(es) - 1
         /\ Head(es) = es[1]
         /\ \A i \in 1..Len(es) - 1 : Tail(es)[i] = es[i + 1]
         /\ Len(es) = 1 <=> Tail(es) = <<>>
<1>1. /\ IsSequence(Tail(es)) /\ Len(Tail(es)) = Len(es) - 1 /\ Head(es) = es[1]
  BY SequenceTail
<1>2. \A i \in 1..Len(es) - 1 : Tail(es)[i] = es[i + 1]
  BY SequenceTail
<1>3. /\ Len(es) \in Nat /\ DOMAIN es = 1..Len(es)
      /\ Len(Tail(es)) \in Nat /\ DOMAIN Tail(es) = 1..Len(Tail(es))
  BY <1>1, SequenceShape
<1>4. Len(es) # 0
  BY <1>1, <1>3
<1>5. Tail(es) = <<>> <=> Len(Tail(es)) = 0
  <2> DEFINE t == Tail(es)
  <2>1. IsSequence(t)
    BY <1>1
  <2> HIDE DEF t
  <2>2. t = <<>> <=> Len(t) = 0
    BY <2>1 DEF IsSequence
  <2> QED BY <2>2 DEF t
<1>6. DOMAIN Tail(es) = 1..Len(es) - 1
  BY <1>1, <1>3, Zenon
<1>7. Len(es) \in Nat \ {0} /\ (Len(es) = 1 <=> Tail(es) = <<>>)
  <2> DEFINE t == Tail(es)
  <2>1. Len(t) = Len(es) - 1 /\ (t = <<>> <=> Len(t) = 0)
    BY <1>1, <1>5
  <2> HIDE DEF t
  <2>2. Len(es) = 1 <=> t = <<>>
    BY <2>1, <1>3
  <2> QED BY <2>2, <1>3, <1>4 DEF t
<1> QED BY <1>1, <1>2, <1>3, <1>6, <1>7, Zenon

(* The bot after a listener is the bot that has handled the event: all the *)
(* same in the end.                                                        *)
LEMMA ListenerKeeps ==
  ASSUME Inv, events # <<>>, events' = Tail(events),
         player' = Handled(player, Head(events)), UNCHANGED tableVars,
         crashed' = crashed
  PROVE  PlayerKept' /\ AgreesInTheEnd' /\ TableKept' /\ IsPlayer(player)'
<1>1. IsSequence(events) /\ Kept(player, events) /\ AgreesInTheEnd /\ TableKept
  BY DEF Inv, Support, PlayerKept
<1>2. Kept(player, events)' /\ InTheEnd' = InTheEnd
  <2>1. /\ End(Handled(player, Head(events)), Tail(events)) = End(player, events)
        /\ Kept(Handled(player, Head(events)), Tail(events))
    BY <1>1, HandledFirst
  <2>2. Kept(player', events') <=> Kept(player, events)'
    BY DEF Kept, Handling
  <2>3. InTheEnd' = End(player', events')
    BY DEF InTheEnd, End, Handling
  <2> QED BY <2>1, <2>2, <2>3 DEF InTheEnd
<1>3. IsPlayer(player)'
  <2>1. IsSequence(events')
    BY <1>1, TailIsSequence
  <2> QED BY <2>1, <1>2, KeptEnds
<1>4. PlayerKept'
  <2>1. IsSequence(events')
    BY <1>1, TailIsSequence
  <2> QED BY <2>1, <1>2 DEF PlayerKept
<1>5. AgreesInTheEnd'
  <2> DEFINE p == InTheEnd
  <2>1. p' = p
    BY <1>2
  <2>2. (phase # "lobby" => p.id = Me) /\ (deals > 0 /\ ~crashed => Agrees(p))
    BY <1>1 DEF AgreesInTheEnd
  <2>3. Agrees(p) => Agrees(p)'
    <3> HIDE DEF p
    <3> QED BY <2>1 DEF Agrees, tableVars
  <2>4. (phase # "lobby")' => (p.id = Me)'
    <3> HIDE DEF p
    <3> QED BY <2>1, <2>2 DEF tableVars
  <2>5. (deals > 0 /\ ~crashed)' => Agrees(p)'
    <3> HIDE DEF p
    <3> QED BY <2>2, <2>3 DEF tableVars
  <2> QED BY <2>4, <2>5 DEF AgreesInTheEnd
<1>6. TableKept'
  BY <1>1 DEF TableKept, Unseen, tableVars
<1> QED BY <1>3, <1>4, <1>5, <1>6

(* The table stays typed when it is left alone.                            *)
LEMMA TableStays ==
  ASSUME TableTyped, UNCHANGED tableVars
  PROVE  TableTyped'
BY DEF TableTyped, tableVars

(* Before the first deal the bot only joins; then it never does.           *)
LEMMA ArrivesWhen ==
  ASSUME Inv, events # <<>>
  PROVE  Head(events).name \in {"join.ack", "readyToStart"} <=> phase = "lobby"
<1>1. /\ Len(events) \in Nat \ {0} /\ DOMAIN events = 1..Len(events) /\ Head(events) = events[1]
  BY QueueRest DEF Inv, Support, PlayerKept
<1>2. CASE phase = "lobby"
  <2>1. \/ Named(events, <<"join.ack", "readyToStart">>)
        \/ Named(events, <<"readyToStart">>)
    BY <1>2, Zenon DEF Inv, Support, LobbyKept
  <2>2. Named(events, <<"join.ack", "readyToStart">>) => Head(events).name = "join.ack"
    BY <1>1 DEF Named
  <2>3. Named(events, <<"readyToStart">>) => Head(events).name = "readyToStart"
    BY <1>1 DEF Named
  <2> QED BY <1>2, <2>1, <2>2, <2>3
<1>3. CASE phase # "lobby"
  <2>1. \A i \in DOMAIN events : events[i].name \notin {"join.ack", "readyToStart"}
    BY <1>3, Zenon DEF Inv, Support, TurnKept
  <2>2. 1 \in DOMAIN events
    BY <1>1
  <2> QED BY <2>1, <2>2, <1>1, <1>3
<1> QED BY <1>2, <1>3

(* In the lobby the rest is named when the queue is.                       *)
LEMMA NamedRest ==
  ASSUME NEW s, s # <<>>
  PROVE  /\ \A a : Named(s, <<a>>) => s = <<Head(s)>> /\ Head(s).name = a /\ Tail(s) = <<>>
         /\ \A a, b : Named(s, <<a, b>>) => Head(s).name = a /\ Named(Tail(s), <<b>>)
<1>1. ASSUME NEW a, Named(s, <<a>>)
      PROVE  s = <<Head(s)>> /\ Head(s).name = a /\ Tail(s) = <<>>
  <2>1. IsSequence(s) /\ Len(s) = 1 /\ s[1].name = a
    BY <1>1 DEF Named
  <2>2. Head(s) = s[1] /\ Tail(s) = <<>>
    BY <2>1, QueueRest
  <2>3. s = <<Head(s)>>
    BY <2>1, <2>2 DEF IsSequence
  <2> QED BY <2>1, <2>2, <2>3
<1>2. ASSUME NEW a, NEW b, Named(s, <<a, b>>)
      PROVE  Head(s).name = a /\ Named(Tail(s), <<b>>)
  <2>1. IsSequence(s) /\ Len(s) = 2 /\ s[1].name = a /\ s[2].name = b
    BY <1>2 DEF Named
  <2>2. /\ Head(s) = s[1] /\ IsSequence(Tail(s)) /\ Len(Tail(s)) = 1
        /\ Tail(s)[1] = s[1 + 1]
    <3>1. Head(s) = s[1] /\ IsSequence(Tail(s)) /\ Len(Tail(s)) = Len(s) - 1
      BY <2>1, QueueRest
    <3>2. \A i \in 1..Len(s) - 1 : Tail(s)[i] = s[i + 1]
      BY <2>1, QueueRest
    <3>3. 1 \in 1..Len(s) - 1
      BY <2>1
    <3> QED BY <2>1, <3>1, <3>2, <3>3
  <2> DEFINE t == Tail(s)
  <2>3. IsSequence(t) /\ Len(t) = 1 /\ t[1].name = b
    BY <2>1, <2>2
  <2> HIDE DEF t
  <2>4. Named(t, <<b>>)
    BY <2>3 DEF Named
  <2> QED BY <2>1, <2>2, <2>4 DEF t
<1> QED BY <1>1, <1>2

(* The events that are left are as good as all were.                       *)
LEMMA EventsRest ==
  ASSUME Inv, events # <<>>, events' = Tail(events)
  PROVE  /\ IsSequence(events')
         /\ \A i \in DOMAIN events' : events'[i].name \in Names
         /\ phase # "lobby" => \A i \in DOMAIN events' :
              /\ events'[i].name \notin {"join.ack", "readyToStart"}
              /\ events'[i].name \in Asking =>
                   i = Len(events') /\ phase \in {"discard", "options"}
         /\ Len(events) # 1 =>
              /\ events' # <<>> /\ events'[Len(events')] = events[Len(events)]
              /\ phase # "lobby" => Head(events).name \notin Asking
<1>1. /\ IsSequence(events') /\ Len(events) \in Nat \ {0}
      /\ Len(events') = Len(events) - 1
      /\ DOMAIN events = 1..Len(events) /\ DOMAIN events' = 1..Len(events) - 1
      /\ Head(events) = events[1] /\ (Len(events) = 1 <=> events' = <<>>)
  BY QueueRest DEF Inv, Support, PlayerKept
<1>2. \A i \in 1..Len(events) - 1 : events'[i] = events[i + 1]
  BY QueueRest DEF Inv, Support, PlayerKept
<1>3. \A i \in DOMAIN events : events[i].name \in Names
  BY TypeParts DEF Inv, QueuesTyped
<1>4. ASSUME phase # "lobby", NEW i \in DOMAIN events
      PROVE  /\ events[i].name \notin {"join.ack", "readyToStart"}
             /\ events[i].name \in Asking =>
                  i = Len(events) /\ phase \in {"discard", "options"}
  BY <1>4 DEF Inv, Support, TurnKept
<1>5. \A i \in DOMAIN events' : i + 1 \in DOMAIN events /\ events'[i] = events[i + 1]
  BY <1>1, <1>2
<1>6. Len(events) # 1 => /\ Len(events') \in DOMAIN events' /\ Len(events') + 1 = Len(events)
                         /\ 1 \in DOMAIN events
  BY <1>1
<1>7. ASSUME phase # "lobby", NEW i \in DOMAIN events'
      PROVE  /\ events'[i].name \notin {"join.ack", "readyToStart"}
             /\ events'[i].name \in Asking =>
                  i = Len(events') /\ phase \in {"discard", "options"}
  <2>1. i + 1 \in DOMAIN events /\ events'[i] = events[i + 1] /\ i \in Int
    BY <1>1, <1>5
  <2>2. events[i + 1].name \in Asking => i + 1 = Len(events)
    BY <1>4, <1>7, <2>1
  <2>3. i + 1 = Len(events) => i = Len(events')
    BY <1>1, <2>1
  <2> QED BY <1>4, <1>7, <2>1, <2>2, <2>3
<1>8. ASSUME Len(events) # 1
      PROVE  /\ events' # <<>> /\ events'[Len(events')] = events[Len(events)]
             /\ phase # "lobby" => Head(events).name \notin Asking
  <2>1. events' # <<>> /\ events'[Len(events')] = events[Len(events)]
    BY <1>1, <1>5, <1>6, <1>8
  <2>2. phase # "lobby" => Head(events).name \notin Asking
    BY <1>1, <1>4, <1>6, <1>8
  <2> QED BY <2>1, <2>2
<1> QED BY <1>1, <1>3, <1>5, <1>7, <1>8

(* A listener that neither answers nor asks leaves the turn as it is.      *)
LEMMA QuietTurn ==
  ASSUME Inv, events # <<>>, events' = Tail(events), ~crashed, crashed' = crashed,
         replies' = replies, UNCHANGED tableVars, main' = main,
         Head(events).name \notin Asking
  PROVE  TurnKept'
<1> SUFFICES ASSUME phase # "lobby"
             PROVE  TurnKept'
  BY DEF TurnKept, tableVars
<1>1. \A i \in DOMAIN events' :
        /\ events'[i].name \notin {"join.ack", "readyToStart"}
        /\ events'[i].name \in Asking =>
             i = Len(events') /\ phase' \in {"discard", "options"}
  BY EventsRest DEF tableVars
<1>2. /\ main' = "loop" /\ phase' = phase
      /\ phase' \notin {"discard", "options"} => replies' = <<>> /\ ~crashed'
  BY DEF Inv, Support, TurnKept, tableVars
<1>3. \A name : Pending(name) /\ name \in Asking =>
        Pending(name)' /\ events'[Len(events')] = events[Len(events)]
  <2> TAKE name
  <2> HAVE Pending(name) /\ name \in Asking
  <2>1. Len(events) # 1
    <3>1. events[Len(events)].name \in Asking
      BY DEF Pending
    <3>2. Head(events) = events[1]
      BY QueueRest DEF Inv, Support, PlayerKept
    <3> QED BY <3>1, <3>2
  <2>2. events' # <<>> /\ events'[Len(events')] = events[Len(events)]
    BY <2>1, EventsRest
  <2> QED BY <2>2 DEF Pending
<1>4. \A can : Given(can) => Given(can)'
  BY DEF Given, OwnOptions, Offers, CanEat, tableVars
<1>5. phase = "discard" => Pending("throw")'
  <2>1. phase = "discard" => Pending("throw")
    BY DEF Inv, Support, TurnKept, Answered
  <2> QED BY <1>3, <2>1 DEF Asking
<1>6. phase = "options" => Pending("command")' /\ (Given(events[Len(events)].what))'
  <2> SUFFICES ASSUME phase = "options"
               PROVE  Pending("command")' /\ (Given(events[Len(events)].what))'
    OBVIOUS
  <2>1. Pending("command") /\ Given(events[Len(events)].what)
    BY DEF Inv, Support, TurnKept, Answered
  <2>2. Pending("command")' /\ events'[Len(events')] = events[Len(events)]
    BY <1>3, <2>1 DEF Asking
  <2> PICK can : can = events[Len(events)].what
    OBVIOUS
  <2>3. Given(can)'
    BY <1>4, <2>1
  <2>4. can = (events[Len(events)].what)'
    BY <2>2
  <2>5. (Given(events[Len(events)].what))'
    BY <2>3, <2>4 DEF Given
  <2> QED BY <2>2, <2>5
<1> QED BY <1>1, <1>2, <1>5, <1>6, Zenon DEF TurnKept

(* A listener that only changes the player keeps the invariant.            *)
LEMMA QuietListener ==
  ASSUME Inv, events # <<>>, events' = Tail(events), ~crashed, crashed' = crashed,
         player' = Handled(player, Head(events)), replies' = replies,
         UNCHANGED tableVars, UNCHANGED startVars, uuid' \in BOOLEAN,
         Head(events).name \notin Asking, LobbyKept'
  PROVE  Inv'
<1>1. FlagsTyped'
  BY TypeParts DEF Inv, FlagsTyped, startVars
<1>2. TableTyped'
  BY TypeParts, TableStays DEF Inv
<1>3. TurnKept'
  BY QuietTurn DEF startVars
<1>4. QueuesTyped'
  <2>1. \A i \in DOMAIN events' : events'[i].name \in Names
    BY EventsRest
  <2> QED BY <2>1, TypeParts DEF Inv, QueuesTyped
<1>5. PlayerKept' /\ AgreesInTheEnd' /\ TableKept' /\ IsPlayer(player)'
  BY ListenerKeeps
<1> QED BY <1>1, <1>2, <1>3, <1>4, <1>5, TypePartsNext DEF Inv, Support

(* Whatever arrives after the lobby, there is no lobby to keep.            *)
LEMMA LobbyLeft ==
  ASSUME Inv, events # <<>>, Head(events).name \notin {"join.ack", "readyToStart"},
         phase' = phase
  PROVE  LobbyKept'
<1>1. phase # "lobby"
  BY ArrivesWhen
<1> QED BY <1>1 DEF LobbyKept

(* The listeners handle events as Handled says.                            *)
LEMMA JoinAckKeeps ==
  ASSUME Inv, OnJoinAck
  PROVE  Inv'
<1>1. /\ events # <<>> /\ events' = Tail(events) /\ Head(events).name = "join.ack"
      /\ ~crashed /\ crashed' = crashed /\ replies' = replies /\ uuid' \in BOOLEAN
      /\ UNCHANGED tableVars /\ UNCHANGED startVars
  BY DEF OnJoinAck, Arrives
<1>2. player' = Handled(player, Head(events))
  BY <1>1 DEF OnJoinAck, player, playerVars, meldVars, tileVars, Handled
<1>3. LobbyKept'
  <2>1. phase = "lobby"
    BY <1>1, ArrivesWhen
  <2>2. Head(events).name # "readyToStart"
    BY <1>1
  <2>3. main = "loop" /\ Named(events, <<"join.ack", "readyToStart">>) /\ replies = <<>>
    BY <1>1, <2>1, <2>2, NamedRest DEF Inv, Support, LobbyKept
  <2>4. Named(events', <<"readyToStart">>)
    BY <1>1, <2>3, NamedRest
  <2>5. deals = 0 /\ ~crashed
    BY <2>1 DEF Inv, Support, LobbyKept
  <2>6. main' = "loop" /\ replies' = <<>> /\ deals' = 0 /\ ~crashed'
    BY <1>1, <2>3, <2>5 DEF startVars, tableVars
  <2>7. (Named(events, <<"readyToStart">>))'
    BY <2>4 DEF Named
  <2> QED BY <2>6, <2>7, Zenon DEF LobbyKept
<1> QED BY <1>1, <1>2, <1>3, QuietListener DEF Asking

(* readyToStart: nothing changes but that auth and ready are sent.         *)
LEMMA ReadyToStartKeeps ==
  ASSUME Inv, OnReadyToStart
  PROVE  Inv'
<1>1. /\ events # <<>> /\ events' = Tail(events) /\ Head(events).name = "readyToStart"
      /\ ~crashed /\ crashed' = crashed
      /\ replies' = replies \o <<Reply("auth", uuid, NoTile), Reply("ready", uuid, NoTile)>>
      /\ UNCHANGED tableVars /\ UNCHANGED startVars /\ UNCHANGED botVars
  BY DEF OnReadyToStart, Arrives, botVars
<1>2. player' = Handled(player, Head(events))
  BY <1>1 DEF botVars, idVars, player, playerVars, meldVars, tileVars, Handled
<1>3. phase = "lobby" /\ phase' = "lobby"
  BY <1>1, ArrivesWhen DEF tableVars
<1>4. main = "loop" /\ Named(events, <<"readyToStart">>) /\ replies = <<>>
      /\ deals = 0
  <2>1. Head(events).name # "join.ack"
    BY <1>1
  <2> QED BY <1>1, <1>3, <2>1, NamedRest DEF Inv, Support, LobbyKept
<1>5. events' = <<>>
  BY <1>1, <1>4, NamedRest
<1>6. Named(replies', <<"auth", "ready">>) /\ Len(replies') = 2
  <2>1. ASSUME NEW a, NEW b PROVE Named(<<a, b>>, <<a.name, b.name>>) /\ Len(<<a, b>>) = 2
    <3>1. IsSequence(<<a, b>>)
      BY SequenceTuples
    <3> QED BY <3>1 DEF Named
  <2> DEFINE a == Reply("auth", uuid, NoTile)
             b == Reply("ready", uuid, NoTile)
  <2>2. a.name = "auth" /\ b.name = "ready"
    BY DEF Reply
  <2> HIDE DEF a, b
  <2>3. replies' = <<a, b>>
    <3>1. replies' = <<>> \o <<a, b>>
      BY <1>1, <1>4 DEF a, b
    <3> QED BY <3>1
  <2> QED BY <2>1, <2>2, <2>3
<1>7. LobbyKept'
  <2>1. main' = "loop" /\ deals' = 0 /\ ~crashed'
    BY <1>1, <1>4 DEF startVars, tableVars
  <2>2. (Named(replies, <<"auth", "ready">>))'
    BY <1>6 DEF Named
  <2> QED BY <2>1, <2>2, <1>5, Zenon DEF LobbyKept
<1>8. TurnKept'
  BY <1>3 DEF TurnKept
<1>9. FlagsTyped' /\ TableTyped'
  <2>1. FlagsTyped'
    BY <1>1, TypeParts DEF Inv, FlagsTyped, startVars, botVars, idVars
  <2>2. TableTyped'
    BY <1>1, TypeParts, TableStays DEF Inv
  <2> QED BY <2>1, <2>2
<1>10. QueuesTyped'
  <2>1. \A i \in DOMAIN events' : events'[i].name \in Names
    BY <1>1, EventsRest
  <2> QED BY <2>1, <1>6 DEF QueuesTyped
<1>11. PlayerKept' /\ AgreesInTheEnd' /\ TableKept' /\ IsPlayer(player)'
  BY <1>1, <1>2, ListenerKeeps
<1> QED BY <1>7, <1>8, <1>9, <1>10, <1>11, TypePartsNext DEF Inv, Support

(* The answer to ready names the player.                                    *)
LEMMA ReadyAckKeeps ==
  ASSUME Inv, OnReadyAck
  PROVE  Inv'
<1>1. /\ events # <<>> /\ events' = Tail(events) /\ Head(events).name = "ready.ack"
      /\ ~crashed /\ crashed' = crashed /\ replies' = replies
      /\ UNCHANGED tableVars /\ UNCHANGED startVars /\ uuid' = uuid
  BY DEF OnReadyAck, Arrives, idVars
<1>2. player' = Handled(player, Head(events))
  BY <1>1 DEF OnReadyAck, player, idVars, playerVars, meldVars, tileVars, Handled
<1>3. LobbyKept'
  BY <1>1, LobbyLeft DEF tableVars
<1>4. uuid' \in BOOLEAN
  BY <1>1, TypeParts DEF Inv, FlagsTyped
<1> QED BY <1>1, <1>2, <1>3, <1>4, QuietListener DEF Asking

(* A new hand, and nothing open.                                            *)
LEMMA DealTileKeeps ==
  ASSUME Inv, OnDealTile
  PROVE  Inv'
<1>1. /\ events # <<>> /\ events' = Tail(events) /\ Head(events).name = "dealTile"
      /\ ~crashed /\ crashed' = crashed /\ replies' = replies
      /\ UNCHANGED tableVars /\ UNCHANGED startVars /\ uuid' = uuid
  BY DEF OnDealTile, Arrives, idVars
<1>2. player' = Handled(player, Head(events))
  BY <1>1 DEF OnDealTile, player, idVars, playerVars, meldVars, tileVars, Handled, DealtHand, DealtDiscards
<1>3. LobbyKept'
  BY <1>1, LobbyLeft DEF tableVars
<1>4. uuid' \in BOOLEAN
  BY <1>1, TypeParts DEF Inv, FlagsTyped
<1> QED BY <1>1, <1>2, <1>3, <1>4, QuietListener DEF Asking

(* The drawn tile is kept apart from the hand.                              *)
LEMMA DrawKeeps ==
  ASSUME Inv, OnDraw
  PROVE  Inv'
<1>1. /\ events # <<>> /\ events' = Tail(events) /\ Head(events).name = "draw"
      /\ ~crashed /\ crashed' = crashed /\ replies' = replies
      /\ UNCHANGED tableVars /\ UNCHANGED startVars /\ uuid' = uuid
  BY DEF OnDraw, Arrives, idVars
<1>2. player' = Handled(player, Head(events))
  BY <1>1 DEF OnDraw, player, idVars, playerVars, meldVars, tileVars, Handled, OnlyThrowAfterDraw
<1>3. LobbyKept'
  BY <1>1, LobbyLeft DEF tableVars
<1>4. uuid' \in BOOLEAN
  BY <1>1, TypeParts DEF Inv, FlagsTyped
<1> QED BY <1>1, <1>2, <1>3, <1>4, QuietListener DEF Asking

(* A thrown tile lies open and, thrown by the bot, leaves its hand.         *)
LEMMA BroadcastThrowKeeps ==
  ASSUME Inv, OnBroadcastThrow
  PROVE  Inv'
<1>1. /\ events # <<>> /\ events' = Tail(events) /\ Head(events).name = "broadcastThrow"
      /\ ~crashed /\ crashed' = crashed /\ replies' = replies
      /\ UNCHANGED tableVars /\ UNCHANGED startVars /\ uuid' = uuid
  BY DEF OnBroadcastThrow, Arrives, idVars
<1>2. player' = Handled(player, Head(events))
  BY <1>1 DEF OnBroadcastThrow, player, idVars, playerVars, meldVars, tileVars, Handled, IsOwn
<1>3. LobbyKept'
  BY <1>1, LobbyLeft DEF tableVars
<1>4. uuid' \in BOOLEAN
  BY <1>1, TypeParts DEF Inv, FlagsTyped
<1> QED BY <1>1, <1>2, <1>3, <1>4, QuietListener DEF Asking

(* A granted claim.                                                         *)
LEMMA SuccessKeeps ==
  ASSUME Inv, OnSuccess
  PROVE  Inv'
<1>1. /\ events # <<>> /\ events' = Tail(events) /\ Head(events).name = "success"
      /\ ~crashed /\ crashed' = crashed /\ replies' = replies
      /\ UNCHANGED tableVars /\ UNCHANGED startVars /\ uuid' = uuid
  BY DEF OnSuccess, Arrives, idVars
<1>2. player' = Handled(player, Head(events))
  BY <1>1 DEF OnSuccess, player, idVars, playerVars, meldVars, tileVars, Handled, PonAfter
<1>3. LobbyKept'
  BY <1>1, LobbyLeft DEF tableVars
<1>4. uuid' \in BOOLEAN
  BY <1>1, TypeParts DEF Inv, FlagsTyped
<1> QED BY <1>1, <1>2, <1>3, <1>4, QuietListener DEF Asking

(* A claim of another player.                                               *)
LEMMA BroadcastCommandKeeps ==
  ASSUME Inv, OnBroadcastCommand
  PROVE  Inv'
<1>1. /\ events # <<>> /\ events' = Tail(events) /\ Head(events).name = "broadcastCommand"
      /\ ~crashed /\ crashed' = crashed /\ replies' = replies
      /\ UNCHANGED tableVars /\ UNCHANGED startVars /\ uuid' = uuid
  BY DEF OnBroadcastCommand, Arrives, idVars
<1>2. player' = Handled(player, Head(events))
  BY <1>1 DEF OnBroadcastCommand, player, idVars, playerVars, meldVars, tileVars, Handled, IsOwn
<1>3. LobbyKept'
  BY <1>1, LobbyLeft DEF tableVars
<1>4. uuid' \in BOOLEAN
  BY <1>1, TypeParts DEF Inv, FlagsTyped
<1> QED BY <1>1, <1>2, <1>3, <1>4, QuietListener DEF Asking

(* What the server asks is the last event, and nothing has been answered.  *)
LEMMA AskedLast ==
  ASSUME Inv, events # <<>>, ~crashed, Head(events).name \in Asking
  PROVE  /\ Tail(events) = <<>> /\ replies = <<>> /\ main = "loop"
         /\ InTheEnd = Handled(player, Head(events))
         /\ Head(events).name = "throw" => phase = "discard"
         /\ Head(events).name = "command" => phase = "options" /\ Given(Head(events).what)
<1>1. /\ IsSequence(events) /\ Len(events) \in Nat \ {0} /\ DOMAIN events = 1..Len(events)
      /\ Head(events) = events[1] /\ (Len(events) = 1 <=> Tail(events) = <<>>)
  BY QueueRest DEF Inv, Support, PlayerKept
<1>2. phase # "lobby"
  BY ArrivesWhen DEF Asking
<1>3. events[1].name \in Asking => 1 = Len(events) /\ phase \in {"discard", "options"}
  <2>1. 1 \in DOMAIN events
    BY <1>1
  <2> QED BY <1>2, <2>1 DEF Inv, Support, TurnKept
<1>4. Len(events) = 1 /\ phase \in {"discard", "options"} /\ events[Len(events)] = Head(events)
  BY <1>1, <1>3
<1>5. main = "loop"
  BY <1>2 DEF Inv, Support, TurnKept
<1>6. phase = "discard" => replies = <<>> /\ events[Len(events)].name = "throw"
  BY <1>2 DEF Inv, Support, TurnKept, Pending, Answered
<1>7. phase = "options" =>
        /\ replies = <<>> /\ events[Len(events)].name = "command"
        /\ Given(events[Len(events)].what)
  BY <1>2 DEF Inv, Support, TurnKept, Pending, Answered
<1>8. InTheEnd = Handled(player, Head(events))
  BY <1>1, <1>4, HandledFirst, HandledNone DEF InTheEnd
<1> QED BY <1>1, <1>4, <1>5, <1>6, <1>7, <1>8

(* When Throw reads the first of no candidates nothing more happens.       *)
LEMMA CrashKeeps ==
  ASSUME Inv, events # <<>>, events' = Tail(events), ~crashed, crashed' = TRUE,
         player' = player, replies' = replies, uuid' = uuid,
         UNCHANGED tableVars, UNCHANGED startVars, Head(events).name \in Asking
  PROVE  Inv'
<1>1. /\ events' = <<>> /\ replies' = <<>> /\ main' = "loop"
      /\ InTheEnd = Handled(player, Head(events))
  BY AskedLast DEF startVars
<1>2. phase # "lobby" /\ phase' = phase
  BY ArrivesWhen DEF Asking, tableVars
<1>3. IsPlayer(player)
  BY TypeParts DEF Inv
<1>4. PlayerKept' /\ InTheEnd' = player /\ IsPlayer(player)'
  <2>1. IsPlayer(player')
    BY <1>3
  <2>2. Kept(player', events') /\ End(player', events') = player /\ IsSequence(events')
    BY <1>1, <2>1, HandledNone, SequenceEmpty
  <2>3. Kept(player', events') <=> Kept(player, events)'
    BY DEF Kept, Handling
  <2>4. InTheEnd' = End(player', events')
    BY DEF InTheEnd, End, Handling
  <2> QED BY <2>1, <2>2, <2>3, <2>4 DEF PlayerKept
<1>5. AgreesInTheEnd'
  <2>1. Handled(player, Head(events)).id = player.id
    BY DEF Handled, Asking
  <2>2. player.id = Me
    BY <1>1, <1>2, <2>1 DEF Inv, Support, AgreesInTheEnd
  <2>3. InTheEnd'.id = Me
    BY <1>4, <2>2
  <2> QED BY <2>3 DEF AgreesInTheEnd
<1>6. TableKept'
  BY DEF Inv, Support, TableKept, Unseen, tableVars
<1>7. LobbyKept'
  BY <1>2 DEF LobbyKept
<1>8. TurnKept'
  <2>1. phase' \in {"discard", "options"}
    BY <1>2, AskedLast DEF Asking
  <2>2. DOMAIN events' = {}
    BY <1>1
  <2> QED BY <1>1, <2>1, <2>2 DEF TurnKept
<1>9. FlagsTyped' /\ TableTyped' /\ QueuesTyped'
  <2>1. FlagsTyped'
    BY TypeParts DEF Inv, FlagsTyped, startVars
  <2>2. TableTyped'
    BY TypeParts, TableStays DEF Inv
  <2>3. QueuesTyped'
    <3>1. DOMAIN events' = {} /\ Len(replies') <= 2
      BY <1>1
    <3> QED BY <3>1 DEF QueuesTyped
  <2> QED BY <2>1, <2>2, <2>3
<1> QED BY <1>4, <1>5, <1>6, <1>7, <1>8, <1>9, TypePartsNext DEF Inv, Support

(* An answer that the server can take.                                     *)
LEMMA AnswerKeeps ==
  ASSUME Inv, events # <<>>, events' = Tail(events), ~crashed, crashed' = crashed,
         player' = Handled(player, Head(events)),
         NEW reply, replies' = Append(replies, reply), uuid' = uuid,
         UNCHANGED tableVars, UNCHANGED startVars, Head(events).name \in Asking,
         Head(events).name = "throw" => Throws(reply)',
         Head(events).name = "command" => Claims(reply)'
  PROVE  Inv'
<1>1. /\ events' = <<>> /\ replies = <<>> /\ main' = "loop"
  BY AskedLast DEF startVars
<1>2. phase # "lobby" /\ phase' = phase
  BY ArrivesWhen DEF Asking, tableVars
<1>3. replies' = <<reply>> /\ replies' # <<>> /\ Len(replies') = 1
  BY <1>1
<1>4. Head(replies') = reply
  BY <1>3
<1>5. Answered'
  BY <1>1, <1>3, <1>4 DEF Answered
<1>6. TurnKept'
  <2>1. DOMAIN events' = {}
    BY <1>1
  <2>2. phase = "discard" => Head(events).name = "throw"
    BY AskedLast DEF Asking
  <2>3. phase = "options" => Head(events).name = "command"
    BY AskedLast DEF Asking
  <2>4. phase' = "discard" => (Throws(Head(replies)))'
    BY <1>2, <1>4, <2>2 DEF Throws
  <2>5. phase' = "options" => (Claims(Head(replies)))'
    <3> SUFFICES ASSUME phase' = "options" PROVE (Claims(Head(replies)))'
      OBVIOUS
    <3>1. Claims(reply)'
      BY <1>2, <2>3
    <3> QED BY <1>4, <3>1 DEF Claims, Acceptable
  <2>6. phase' \in {"discard", "options"}
    BY <1>2, AskedLast DEF Asking
  <2> QED BY <1>1, <1>5, <2>1, <2>4, <2>5, <2>6, Zenon DEF TurnKept
<1>7. PlayerKept' /\ AgreesInTheEnd' /\ TableKept' /\ IsPlayer(player)'
  BY ListenerKeeps
<1>8. LobbyKept'
  BY <1>2 DEF LobbyKept
<1>9. FlagsTyped' /\ TableTyped' /\ QueuesTyped'
  <2>1. FlagsTyped'
    BY TypeParts DEF Inv, FlagsTyped, startVars
  <2>2. TableTyped'
    BY TypeParts, TableStays DEF Inv
  <2>3. QueuesTyped'
    <3>1. DOMAIN events' = {} /\ Len(replies') <= 2
      BY <1>1, <1>3
    <3> QED BY <3>1 DEF QueuesTyped
  <2> QED BY <2>1, <2>2, <2>3
<1> QED BY <1>6, <1>7, <1>8, <1>9, TypePartsNext DEF Inv, Support

(* Throw names a tile of the hand that the listener leaves.                *)
LEMMA ThrowKeeps ==
  ASSUME Inv, OnThrow
  PROVE  Inv'
<1> DEFINE bag == IF onlyThrow THEN Hand ELSE Plus(Hand, drawTile)
           tile == Throw(bag, discards)
<1>1. /\ events # <<>> /\ events' = Tail(events) /\ Head(events).name = "throw"
      /\ ~crashed /\ uuid' = uuid /\ UNCHANGED tableVars /\ UNCHANGED startVars
      /\ UNCHANGED <<idVars, discards, meldVars, tileVars>>
      /\ \/ crashed' = TRUE /\ replies' = replies /\ Hand' = Hand
         \/ /\ tile # NoTile /\ replies' = Append(replies, Reply("throwTile", NoCommand, tile))
            /\ Hand' = IF onlyThrow THEN Hand ELSE Put(Hand, drawTile)
            /\ crashed' = crashed
  BY DEF OnThrow, Arrives, Sends, idVars
<1>2. CASE crashed' = TRUE /\ replies' = replies /\ Hand' = Hand
  <2>1. player' = player
    BY <1>1, <1>2 DEF player, idVars, meldVars, tileVars
  <2> QED BY <1>1, <1>2, <2>1, CrashKeeps DEF Asking
<1>3. CASE /\ tile # NoTile /\ replies' = Append(replies, Reply("throwTile", NoCommand, tile))
           /\ Hand' = IF onlyThrow THEN Hand ELSE Put(Hand, drawTile)
           /\ crashed' = crashed
  <2>1. player' = Handled(player, Head(events))
    BY <1>1, <1>3 DEF player, idVars, meldVars, tileVars, Handled
  <2>2. /\ Hand \in [Kinds -> 0..4] /\ discards \in [Kinds -> 0..4] /\ onlyThrow \in BOOLEAN
    BY DEF Inv, TypeOK
  <2>9. Plus(Hand, drawTile) =
          [j \in Kinds |-> IF j = drawTile THEN Hand[j] + 1 ELSE Hand[j]]
    BY <2>2 DEF Plus
  <2>3. bag \in [Kinds -> Nat] /\ discards \in [Kinds -> Nat]
    <3>1. Plus(Hand, drawTile) \in [Kinds -> Nat]
      BY <2>2, <2>9
    <3>2. Hand \in [Kinds -> Nat]
      BY <2>2
    <3> QED BY <2>2, <3>1, <3>2
  <2>4. tile \in Kinds /\ bag[tile] > 0
    <3> HIDE DEF bag
    <3> QED BY <1>3, <2>3, ThrowIs
  <2>5. Hand'[tile] > 0
    <3> HIDE DEF tile
    <3>1. CASE onlyThrow
      BY <1>3, <2>4, <3>1
    <3>2. CASE ~onlyThrow
      <4>1. Hand' = Put(Hand, drawTile) /\ Plus(Hand, drawTile)[tile] > 0 /\ tile \in Kinds
        BY <1>3, <2>4, <3>2
      <4>2. Hand[tile] \in 0..4 /\ (tile # drawTile => Hand[tile] > 0)
        BY <2>2, <2>9, <4>1
      <4>3. Put(Hand, drawTile)[tile] =
              IF tile = drawTile /\ ~(Suited(drawTile) /\ Hand[drawTile] >= 4)
              THEN Hand[tile] + 1 ELSE Hand[tile]
        BY <2>2, <4>1 DEF Put
      <4> QED BY <4>1, <4>2, <4>3
    <3> QED BY <2>2, <3>1, <3>2
  <2> PICK k : k = tile
    OBVIOUS
  <2>6. Throws(Reply("throwTile", NoCommand, k))'
    BY <2>4, <2>5 DEF Throws, Reply
  <2> HIDE DEF tile
  <2> PICK reply : reply = Reply("throwTile", NoCommand, k)
    OBVIOUS
  <2>7. Throws(reply)'
    BY <2>6
  <2>8. replies' = Append(replies, reply)
    BY <1>3
  <2> QED BY <1>1, <1>3, <2>1, <2>7, <2>8, AnswerKeeps DEF Asking
<1> QED BY <1>1, <1>2, <1>3

(* The hand that the bot knows is part of the one it has.                  *)
LEMMA KnownHand ==
  ASSUME Inv, phase = "options", Agrees(player)
  PROVE  /\ Hand \in [Kinds -> 0..4] /\ discards \in [Kinds -> 0..4]
         /\ held \in [Kinds -> 0..4] /\ pon \subseteq Kinds /\ pon = door.pon
         /\ \A k \in Kinds : Hand[k] <= held[k]
         /\ drawn # NoTile =>
              /\ drawTile = drawn /\ drawn \in Kinds
              /\ \A k \in Kinds : Put(Hand, drawn)[k] <= held[k]
         /\ drawn = NoTile => throwTile = thrown /\ thrown \in Kinds
         /\ \A k \in Kinds : k \in door.pon => held[k] <= 1
<1>1. /\ Hand \in [Kinds -> 0..4] /\ discards \in [Kinds -> 0..4]
      /\ held \in [Kinds -> 0..4] /\ missing \in [Kinds -> 0..4]
      /\ visible \in [Kinds -> 0..4] /\ pon \subseteq Kinds
      /\ drawn \in Kinds \cup {NoTile} /\ thrown \in Kinds \cup {NoTile}
  BY DEF Inv, TypeOK
<1>2. /\ \A k \in Kinds : held[k] = Hand[k] + missing[k] + (IF drawn = k THEN 1 ELSE 0)
      /\ drawn # NoTile => drawTile = drawn
      /\ thrown # NoTile => throwTile = thrown
      /\ pon = door.pon
  BY DEF Agrees, player
<1>3. /\ \A k \in Kinds : Unseen(k) >= 0 /\ (k \in door.pon => visible[k] >= 3)
      /\ drawn = NoTile => thrown # NoTile
  BY DEF Inv, Support, TableKept
<1>4. \A k \in Kinds : Hand[k] <= held[k]
  BY <1>1, <1>2
<1>5. ASSUME drawn # NoTile, NEW k \in Kinds PROVE Put(Hand, drawn)[k] <= held[k]
  <2>1. drawn \in Kinds
    BY <1>1, <1>5
  <2>2. Put(Hand, drawn)[k] <= Hand[k] + (IF drawn = k THEN 1 ELSE 0)
    BY <1>1, <2>1 DEF Put
  <2>3. Put(Hand, drawn)[k] \in Int
    BY <1>1, <2>1 DEF Put
  <2> QED BY <1>1, <1>2, <2>2, <2>3
<1>6. ASSUME NEW k \in Kinds, k \in door.pon PROVE held[k] <= 1
  <2>1. Unseen(k) >= 0 /\ visible[k] >= 3
    BY <1>3, <1>6
  <2> QED BY <1>1, <2>1 DEF Unseen
<1> QED BY <1>1, <1>2, <1>3, <1>4, <1>5, <1>6

(* On its own turn the bot claims what it has.                             *)
LEMMA OwnClaims ==
  ASSUME Inv, phase = "options", Agrees(player), drawn # NoTile,
         NEW can, Given(can), NEW borrowed, NEW cmd, cmd = Answer(can, borrowed),
         cmd[2] # NoTile
  PROVE  Claims(Reply("sendCommand", cmd[1], cmd[2]))
<1>1. can = OwnOptions(held) /\ can # {}
  BY DEF Given
<1>2. /\ can \subseteq {"ZIMO", "ANGON", "PONGON"}
      /\ "ZIMO" \in can => Complete(held)
  BY <1>1 DEF OwnOptions
<1>3. OwnTurn(can)
  BY <1>1, <1>2 DEF OwnTurn
<1>4. drawTile = drawn
  BY KnownHand
<1>5. cmd = WannaHuGon(Hand, discards, pon, can, drawn)
  BY <1>3, <1>4 DEF Answer
<1>6. /\ cmd[2] \in Kinds
      /\ \/ cmd[1] = "ZIMO" /\ "ZIMO" \in can
         \/ cmd[1] = "ANGON" /\ Put(Hand, drawn)[cmd[2]] = 4
         \/ /\ cmd[1] = "PONGON" /\ Put(Hand, drawn)[cmd[2]] = 1
            /\ cmd[2] \in pon
         \/ cmd[1] = "NONE"
  <2>1. /\ Hand \in [Kinds -> 0..4] /\ discards \in [Kinds -> 0..4] /\ pon \subseteq Kinds
        /\ drawn \in Kinds
    BY KnownHand
  <2> QED BY <1>5, <2>1, OwnAnswerIs
<1> PICK k, what : k = cmd[2] /\ what = cmd[1]
  OBVIOUS
<1>7. /\ held[k] \in 0..4 /\ Put(Hand, drawn)[k] <= held[k]
      /\ pon = door.pon /\ (k \in door.pon => held[k] <= 1)
  BY <1>6, KnownHand
<1>8. /\ what = "ANGON" => held[k] = 4
      /\ what = "PONGON" => k \in door.pon /\ held[k] = 1
      /\ what = "ZIMO" => Complete(held)
      /\ what \in {"NONE", "ZIMO", "ANGON", "PONGON"} /\ k \in Kinds
  BY <1>2, <1>6, <1>7
<1> QED BY <1>8 DEF Claims, Acceptable, Reply

(* On another player's turn the bot claims what it is offered.             *)
LEMMA OtherClaimed ==
  ASSUME Inv, phase = "options", Agrees(player), drawn = NoTile,
         NEW can, Given(can), NEW borrowed, NEW cmd, cmd = Answer(can, borrowed),
         cmd[2] # NoTile
  PROVE  Claims(Reply("sendCommand", cmd[1], cmd[2]))
<1>1. can \subseteq Offers(thrown)
  BY DEF Given
<1>2. /\ "EAT" \in can => Suited(thrown) /\ \E place \in 0..2 : HasTiles(held, EatTiles(thrown, place))
      /\ "PON" \in can => held[thrown] >= 2
      /\ "HU" \in can => Complete(Plus(held, thrown))
      /\ can \cap {"ZIMO", "ANGON", "PONGON"} = {}
  BY <1>1 DEF Offers, CanEat
<1>3. ~OwnTurn(can)
  BY <1>2 DEF OwnTurn
<1>4. throwTile = thrown /\ thrown \in Kinds
  BY KnownHand
<1> DEFINE claim == WannaHGPE(Hand, can, thrown, borrowed)
           low == Lowest(thrown, claim[2])
<1>5. cmd = <<claim[1], low>>
  BY <1>3, <1>4, Zenon DEF Answer
<1>6. /\ low \in Kinds
      /\ \/ claim[1] = "HU" /\ "HU" \in can
         \/ /\ claim[1] = "EAT" /\ thrown \in Chow(low)
            /\ HasTiles(held, Chow(low) \ {thrown})
         \/ claim[1] = "PON" /\ low = thrown /\ held[thrown] >= 2
         \/ claim[1] = "NONE"
  <2>1. /\ Hand \in [Kinds -> 0..4] /\ held \in [Kinds -> 0..4]
        /\ \A k \in Kinds : Hand[k] <= held[k]
    BY KnownHand
  <2> QED BY <1>2, <1>4, <2>1, OtherAnswerIs, ZenonT(60)
<1>e. claim[1] = "EAT" => Suited(thrown)
  <2>1. claim[1] = "EAT" => "EAT" \in can
    BY ChoosesOffered
  <2> QED BY <1>2, <2>1
<1> HIDE DEF claim, low
<1> PICK k, what : k = cmd[2] /\ what = cmd[1]
  OBVIOUS
<1>7. k = low /\ what = claim[1]
  BY <1>5
<1>8. /\ what = "HU" => Complete(Plus(held, thrown))
      /\ what = "EAT" =>
           Suited(thrown) /\ thrown \in Chow(k) /\ HasTiles(held, Chow(k) \ {thrown})
      /\ what = "PON" => k = thrown /\ held[k] >= 2
      /\ what \in {"NONE", "HU", "EAT", "PON"} /\ k \in Kinds
  BY <1>2, <1>e, <1>6, <1>7
<1> QED BY <1>8 DEF Claims, Acceptable, Reply

(* The answer is what the server can take.                                 *)
LEMMA CommandKeeps ==
  ASSUME Inv, OnCommand
  PROVE  Inv'
<1>1. /\ events # <<>> /\ events' = Tail(events) /\ Head(events).name = "command"
      /\ ~crashed /\ uuid' = uuid /\ UNCHANGED tableVars /\ UNCHANGED startVars
      /\ UNCHANGED <<idVars, playerVars, tileVars>>
  BY DEF OnCommand, Arrives, idVars
<1>2. PICK borrowed \in SUBSET {"EAT", "PON"} :
        LET cmd == Answer(Head(events).what, borrowed) IN
        \/ cmd[2] = NoTile /\ crashed' = TRUE /\ UNCHANGED replies
        \/ /\ cmd[2] # NoTile /\ UNCHANGED crashed
           /\ replies' = Append(replies, Reply("sendCommand", cmd[1], cmd[2]))
  BY Zenon DEF OnCommand, Sends
<1> PICK can, cmd : can = Head(events).what /\ cmd = Answer(can, borrowed)
  OBVIOUS
<1>3. \/ crashed' = TRUE /\ replies' = replies
      \/ /\ cmd[2] # NoTile /\ crashed' = crashed
         /\ replies' = Append(replies, Reply("sendCommand", cmd[1], cmd[2]))
  BY <1>2
<1>4. player' = player
  BY <1>1 DEF player, idVars, playerVars, meldVars, tileVars
<1>5. Handled(player, Head(events)) = player
  BY <1>1 DEF Handled
<1>6. CASE crashed' = TRUE /\ replies' = replies
  BY <1>1, <1>4, <1>6, CrashKeeps DEF Asking
<1>7. CASE /\ cmd[2] # NoTile /\ crashed' = crashed
           /\ replies' = Append(replies, Reply("sendCommand", cmd[1], cmd[2]))
  <2>1. phase = "options" /\ Given(can) /\ InTheEnd = player
    BY <1>1, <1>5, AskedLast DEF Asking
  <2>2. Agrees(player)
    <3>1. deals > 0
      BY <2>1 DEF Inv, Support, TableKept, TypeOK
    <3> QED BY <1>1, <2>1, <3>1 DEF Inv, Support, AgreesInTheEnd
  <2>3. Claims(Reply("sendCommand", cmd[1], cmd[2]))
    BY <1>7, <2>1, <2>2, OwnClaims, OtherClaimed
  <2> PICK reply : reply = Reply("sendCommand", cmd[1], cmd[2])
    OBVIOUS
  <2>4. Claims(reply)'
    BY <1>1, <2>3 DEF Claims, Acceptable, tableVars
  <2>5. replies' = Append(replies, reply) /\ crashed' = crashed
    BY <1>7
  <2> QED BY <1>1, <1>4, <1>5, <2>4, <2>5, AnswerKeeps DEF Asking
<1> QED BY <1>3, <1>6, <1>7

-----------------------------------------------------------------------------
(* The server.                                                             *)

(* A queue, the bot that has handled it, and a queue that asks nothing.    *)
Queue(p, es, q) == IsSequence(es) /\ Kept(p, es) /\ End(p, es) = q
Plain(es) ==
  \A i \in DOMAIN es :
    es[i].name \in Names \ (Asking \cup {"join.ack", "readyToStart"})

(* An event more at the end of a queue.                                    *)
LEMMA QueuePlus ==
  ASSUME NEW p, NEW es, NEW q, Queue(p, es, q), NEW a, IsPlayer(Handled(q, a))
  PROVE  Queue(p, es \o <<a>>, Handled(q, a))
<1>1. IsSequence(es) /\ Kept(p, es) /\ End(p, es) = q
  BY DEF Queue
<1>2. Append(es, a) = es \o <<a>> /\ IsSequence(Append(es, a))
  BY <1>1, SequenceAppend
<1>3. End(p, Append(es, a)) = Handled(q, a) /\ Kept(p, Append(es, a))
  BY <1>1, HandledLast
<1> QED BY <1>2, <1>3, Zenon DEF Queue

(* Its elements.                                                           *)
LEMMA ElementsPlus ==
  ASSUME NEW es, IsSequence(es), NEW a
  PROVE  /\ IsSequence(es \o <<a>>) /\ es \o <<a>> # <<>>
         /\ Len(es) \in Nat /\ Len(es \o <<a>>) = Len(es) + 1
         /\ DOMAIN (es \o <<a>>) = 1..Len(es) + 1 /\ DOMAIN es = 1..Len(es)
         /\ \A i \in 1..Len(es) : (es \o <<a>>)[i] = es[i]
         /\ (es \o <<a>>)[Len(es) + 1] = a
<1> DEFINE u == Append(es, a)
<1>1. /\ IsSequence(u) /\ u = es \o <<a>> /\ Len(u) = Len(es) + 1
      /\ u[Len(es) + 1] = a
  BY SequenceAppend
<1>2. \A i \in 1..Len(es) : u[i] = es[i]
  BY SequenceAppend
<1>3. Len(es) \in Nat /\ DOMAIN es = 1..Len(es)
  BY SequenceShape
<1> HIDE DEF u
<1>4. DOMAIN u = 1..Len(u)
  BY <1>1, SequenceShape
<1>5. DOMAIN u = 1..Len(es) + 1
  BY <1>1, <1>4
<1>6. u # <<>>
  <2>1. Len(u) # 0
    BY <1>1, <1>3
  <2>2. Len(<<>>) = 0
    OBVIOUS
  <2> QED BY <2>1, <2>2
<1> QED BY <1>1, <1>2, <1>3, <1>5, <1>6, Zenon

(* Two events more, and three.                                             *)
LEMMA TwoMore ==
  ASSUME NEW es, IsSequence(es), NEW a, NEW b
  PROVE  es \o <<a, b>> = (es \o <<a>>) \o <<b>>
<1>1. IsSequence(<<a>>) /\ IsSequence(<<b>>)
  BY SequenceTuples
<1>2. <<a>> \o <<b>> = <<a, b>>
  BY TwoAreJoined
<1>3. (es \o <<a>>) \o <<b>> = es \o (<<a>> \o <<b>>)
  BY <1>1, SequenceAssociative
<1> QED BY <1>2, <1>3, Zenon

(* Three events added one after the other.                                 *)
LEMMA ThreeMore ==
  ASSUME NEW es, IsSequence(es), NEW a, NEW b, NEW c
  PROVE  es \o <<a, b, c>> = ((es \o <<a>>) \o <<b>>) \o <<c>>
<1>1. IsSequence(<<a, b>>) /\ IsSequence(<<c>>)
  BY SequenceTuples
<1>2. <<a, b>> \o <<c>> = <<a, b, c>>
  BY ThreeAreJoined
<1>3. (es \o <<a, b>>) \o <<c>> = es \o (<<a, b>> \o <<c>>)
  BY <1>1, SequenceAssociative
<1>4. es \o <<a, b>> = (es \o <<a>>) \o <<b>>
  BY TwoMore
<1> QED BY <1>2, <1>3, <1>4, Zenon

(* Nothing asked, and nothing asked by one event more.                     *)
LEMMA PlainPlus ==
  ASSUME NEW es, IsSequence(es), Plain(es), NEW a,
         a.name \in Names \ (Asking \cup {"join.ack", "readyToStart"})
  PROVE  Plain(es \o <<a>>)
<1> DEFINE u == es \o <<a>>
<1>1. Len(es) \in Nat /\ DOMAIN u = 1..Len(es) + 1 /\ DOMAIN es = 1..Len(es)
  BY ElementsPlus
<1>2. \A i \in 1..Len(es) : u[i] = es[i]
  BY ElementsPlus
<1>3. u[Len(es) + 1] = a
  BY ElementsPlus
<1> HIDE DEF u
<1>4. ASSUME NEW i \in DOMAIN u
      PROVE  u[i].name \in Names \ (Asking \cup {"join.ack", "readyToStart"})
  <2>1. i \in 1..Len(es) \/ i = Len(es) + 1
    BY <1>1
  <2>2. CASE i \in 1..Len(es)
    <3>1. i \in DOMAIN es /\ u[i] = es[i]
      BY <2>2, <1>1, <1>2
    <3> QED BY <3>1, Zenon DEF Plain
  <2>3. CASE i = Len(es) + 1
    BY <2>3, <1>3
  <2> QED BY <2>1, <2>2, <2>3
<1>5. Plain(u)
  BY <1>4, Zenon DEF Plain
<1> QED BY <1>5 DEF u

(* The turn is kept while the server asks nothing.                         *)
LEMMA PlainTurn ==
  ASSUME main' = "loop", IsSequence(events'), Plain(events'), replies' = <<>>, ~crashed',
         phase' \in {"over", "idle", "kong"}
  PROVE  TurnKept' /\ LobbyKept' /\ QueuesTyped'
<1>1. \A i \in DOMAIN events' :
        /\ events'[i].name \in Names
        /\ events'[i].name \notin Asking \cup {"join.ack", "readyToStart"}
  BY Zenon DEF Plain
<1>2. TurnKept'
  BY <1>1 DEF TurnKept
<1>3. LobbyKept'
  BY DEF LobbyKept
<1>4. Len(replies') <= 2
  OBVIOUS
<1> QED BY <1>1, <1>2, <1>3, <1>4 DEF QueuesTyped

(* The turn is kept when it asks last.                                     *)
LEMMA AskingTurn ==
  ASSUME main' = "loop", NEW front, IsSequence(front), Plain(front), NEW a,
         events' = front \o <<a>>, replies' = <<>>, ~crashed',
         \/ phase' = "discard" /\ a.name = "throw"
         \/ phase' = "options" /\ a.name = "command" /\ Given(a.what)'
  PROVE  TurnKept' /\ LobbyKept' /\ QueuesTyped'
<1>1. /\ events' # <<>> /\ Len(front) \in Nat /\ Len(events') = Len(front) + 1
      /\ DOMAIN events' = 1..Len(front) + 1 /\ DOMAIN front = 1..Len(front)
      /\ events'[Len(front) + 1] = a
  BY ElementsPlus
<1>2. \A i \in 1..Len(front) : events'[i] = front[i]
  BY ElementsPlus
<1>3. a.name \in Asking /\ a.name \in Names /\ a.name \notin {"join.ack", "readyToStart"}
  BY DEF Asking, Names
<1>4. ASSUME NEW i \in DOMAIN events'
      PROVE  /\ events'[i].name \in Names
             /\ events'[i].name \notin {"join.ack", "readyToStart"}
             /\ events'[i].name \in Asking =>
                  i = Len(events') /\ phase' \in {"discard", "options"}
  <2>1. i \in 1..Len(front) \/ i = Len(front) + 1
    BY <1>1
  <2>2. CASE i \in 1..Len(front)
    <3>1. i \in DOMAIN front /\ events'[i] = front[i]
      BY <2>2, <1>1, <1>2
    <3>2. events'[i].name \in Names \ (Asking \cup {"join.ack", "readyToStart"})
      BY <3>1, Zenon DEF Plain
    <3> QED BY <3>2
  <2>3. CASE i = Len(front) + 1
    <3>1. events'[i] = a /\ i = Len(events')
      BY <2>3, <1>1
    <3> QED BY <3>1, <1>3
  <2> QED BY <2>1, <2>2, <2>3
<1>5. events'[Len(events')] = a
  BY <1>1
<1>6. phase' = "discard" => Pending("throw")'
  BY <1>1, <1>5 DEF Pending
<1>7. phase' = "options" => Pending("command")' /\ (Given(events[Len(events)].what))'
  <2> SUFFICES ASSUME phase' = "options"
               PROVE  Pending("command")' /\ (Given(events[Len(events)].what))'
    OBVIOUS
  <2>1. Pending("command")'
    BY <1>1, <1>5 DEF Pending
  <2> PICK can : can = a.what
    OBVIOUS
  <2>2. Given(can)' /\ can = (events[Len(events)].what)'
    BY <1>5
  <2>3. (Given(events[Len(events)].what))'
    BY <2>2 DEF Given
  <2> QED BY <2>1, <2>3
<1>8. TurnKept'
  <2>1. phase' \in {"discard", "options"}
    OBVIOUS
  <2> QED BY <1>4, <1>6, <1>7, <2>1, Zenon DEF TurnKept
<1>9. LobbyKept'
  BY DEF LobbyKept
<1>10. Len(replies') <= 2
  OBVIOUS
<1> QED BY <1>4, <1>8, <1>9, <1>10 DEF QueuesTyped

(* What an action of the server has to show.                               *)
LEMMA ServerKeeps ==
  ASSUME Inv, ServerUnchanged, NEW q, Queue(player, events', q), TableTyped', TableKept',
         TurnKept', LobbyKept', QueuesTyped',
         phase' # "lobby" => q.id = Me, deals' > 0 /\ ~crashed' => Agrees(q)'
  PROVE  Inv'
<1>1. player' = player /\ FlagsTyped'
  BY TypeParts DEF Inv, FlagsTyped, ServerUnchanged, startVars, botVars, idVars, playerVars,
                   meldVars, tileVars, player
<1>2. IsPlayer(player)'
  BY <1>1, TypeParts DEF Inv
<1>3. InTheEnd' = q /\ PlayerKept'
  <2>1. Kept(player', events') <=> Kept(player, events)'
    BY DEF Kept, Handling
  <2>2. InTheEnd' = End(player', events')
    BY DEF InTheEnd, End, Handling
  <2> QED BY <1>1, <2>1, <2>2 DEF Queue, PlayerKept
<1>4. AgreesInTheEnd'
  <2>1. deals' > 0 /\ ~crashed' => (Agrees(InTheEnd))'
    <3> SUFFICES ASSUME deals' > 0 /\ ~crashed' PROVE (Agrees(InTheEnd))'
      OBVIOUS
    <3>1. Agrees(q)'
      OBVIOUS
    <3> QED BY <3>1, <1>3 DEF Agrees
  <2> QED BY <2>1, <1>3 DEF AgreesInTheEnd
<1> QED BY <1>1, <1>2, <1>3, <1>4, TypePartsNext DEF Inv, Support

(* What the server finds when it waits for nothing.                        *)
LEMMA FreeServer ==
  ASSUME Inv, phase \in {"over", "idle", "kong"}
  PROVE  /\ Queue(player, events, InTheEnd) /\ IsPlayer(InTheEnd) /\ InTheEnd.id = Me
         /\ Plain(events) /\ replies = <<>> /\ ~crashed /\ main = "loop"
         /\ deals > 0 => Agrees(InTheEnd)
<1>1. phase # "lobby" /\ phase \notin {"discard", "options"}
  OBVIOUS
<1>2. Queue(player, events, InTheEnd)
  BY Zenon DEF Inv, Support, PlayerKept, Queue, InTheEnd
<1>3. IsPlayer(InTheEnd)
  BY <1>2, KeptEnds DEF Queue
<1>4. replies = <<>> /\ ~crashed /\ main = "loop"
  BY <1>1, Zenon DEF Inv, Support, TurnKept
<1>5. Plain(events)
  <2>1. ASSUME NEW i \in DOMAIN events
        PROVE  events[i].name \notin Asking \cup {"join.ack", "readyToStart"}
    BY <1>1 DEF Inv, Support, TurnKept
  <2>2. \A i \in DOMAIN events : events[i].name \in Names
    BY TypeParts DEF Inv, QueuesTyped
  <2> QED BY <2>1, <2>2 DEF Plain
<1>6. InTheEnd.id = Me /\ (deals > 0 => Agrees(InTheEnd))
  BY <1>1, <1>4 DEF Inv, Support, AgreesInTheEnd
<1> QED BY <1>2, <1>3, <1>4, <1>5, <1>6

(* What it finds when it has got the answer that it waited for.            *)
LEMMA AnsweredServer ==
  ASSUME Inv, phase \in {"discard", "options"}, replies # <<>>
  PROVE  /\ Queue(player, <<>>, player) /\ IsPlayer(player) /\ player.id = Me
         /\ IsSequence(<<>>) /\ Plain(<<>>)
         /\ events = <<>> /\ Tail(replies) = <<>> /\ ~crashed /\ main = "loop"
         /\ Agrees(player) /\ deals > 0
         /\ phase = "discard" => Throws(Head(replies))
         /\ phase = "options" => Claims(Head(replies))
<1>1. phase # "lobby"
  OBVIOUS
<1>2. Answered /\ main = "loop"
  BY <1>1, Zenon DEF Inv, Support, TurnKept, Pending
<1>3. /\ phase = "discard" => Throws(Head(replies))
      /\ phase = "options" => Claims(Head(replies))
  BY <1>1, Zenon DEF Inv, Support, TurnKept, Pending
<1>4. events = <<>> /\ replies = <<Head(replies)>> /\ ~crashed
  BY <1>2 DEF Answered
<1>5. Tail(replies) = <<>>
  <2> PICK r : r = Head(replies)
    OBVIOUS
  <2>1. replies = <<r>>
    BY <1>4
  <2> QED BY <2>1
<1>6. IsPlayer(player)
  BY TypeParts DEF Inv
<1>7. Queue(player, <<>>, player)
  BY <1>6, HandledNone, SequenceEmpty DEF Queue
<1>8. InTheEnd = player
  BY <1>4, HandledNone DEF InTheEnd
<1>9. deals > 0
  BY DEF Inv, Support, TableKept, TypeOK
<1>10. player.id = Me /\ Agrees(player)
  BY <1>1, <1>4, <1>8, <1>9 DEF Inv, Support, AgreesInTheEnd
<1>11. Plain(<<>>)
  BY DEF Plain
<1> QED BY <1>2, <1>3, <1>4, <1>5, <1>6, <1>7, <1>9, <1>10, <1>11, SequenceEmpty

-----------------------------------------------------------------------------
(* The server before the first deal.                                       *)

(* What it finds: a reply that is expected.                                *)
LEMMA LobbyServer ==
  ASSUME Inv, phase = "lobby", replies # <<>>
  PROVE  /\ events = <<>> /\ main = "loop" /\ deals = 0 /\ ~crashed
         /\ Queue(player, <<>>, player) /\ IsPlayer(player)
         /\ \/ Head(replies).name = "join" /\ Tail(replies) = <<>>
            \/ Head(replies).name = "auth" /\ Named(Tail(replies), <<"ready">>)
            \/ Head(replies).name = "ready" /\ Tail(replies) = <<>>
<1>1. /\ events = <<>> /\ main = "loop" /\ deals = 0 /\ ~crashed
      /\ \/ Named(replies, <<"join">>) \/ Named(replies, <<"auth", "ready">>)
         \/ Named(replies, <<"ready">>)
  BY Zenon DEF Inv, Support, LobbyKept
<1>2. \/ Head(replies).name = "join" /\ Tail(replies) = <<>>
      \/ Head(replies).name = "auth" /\ Named(Tail(replies), <<"ready">>)
      \/ Head(replies).name = "ready" /\ Tail(replies) = <<>>
  BY <1>1, NamedRest
<1>3. IsPlayer(player)
  BY TypeParts DEF Inv
<1>4. Queue(player, <<>>, player)
  BY <1>3, HandledNone, SequenceEmpty DEF Queue
<1> QED BY <1>1, <1>2, <1>3, <1>4

(* The fields of a reply.                                                  *)
LEMMA ReplyIs ==
  \A name, what, tile : /\ Reply(name, what, tile).name = name
                        /\ Reply(name, what, tile).what = what
                        /\ Reply(name, what, tile).tile = tile
BY DEF Reply

(* A reply that the lobby waits for comes in the lobby.                    *)
LEMMA LobbyReply ==
  ASSUME Inv, replies # <<>>, Head(replies).name \in {"join", "auth", "ready"}
  PROVE  phase = "lobby"
<1>1. phase \in {"lobby", "over", "idle", "kong", "options", "discard"}
  BY TypeParts DEF Inv, TableTyped
<1>2. ASSUME phase \in {"over", "idle", "kong"} PROVE FALSE
  BY <1>2, FreeServer
<1>3. ASSUME phase \in {"discard", "options"} PROVE FALSE
  <2>1. Throws(Head(replies)) \/ Claims(Head(replies))
    BY <1>3, AnsweredServer
  <2> PICK r : r = Head(replies)
    OBVIOUS
  <2>2. Throws(r) => r.name = "throwTile"
    BY ReplyIs DEF Throws
  <2>3. Claims(r) => r.name = "sendCommand"
    BY ReplyIs DEF Claims
  <2> QED BY <2>1, <2>2, <2>3
<1> QED BY <1>1, <1>2, <1>3

(* Events that only ask, or greet, leave the player alone.                 *)
LEMMA HandledOther ==
  ASSUME NEW p, NEW e, e.name \in {"join.ack", "readyToStart", "command"}
  PROVE  Handled(p, e) = p
BY DEF Handled

(* Whatever the server announces in the lobby leaves the player alone.     *)
LEMMA JoinsKeeps ==
  ASSUME Inv, ServerJoins
  PROVE  Inv'
<1> DEFINE a == Event("join.ack", Me, NoCommand, NoTile)
           b == Event("readyToStart", Me, NoCommand, NoTile)
<1>1. /\ replies # <<>> /\ Head(replies).name = "join" /\ replies' = Tail(replies)
      /\ phase = "lobby" /\ events' = events \o <<a, b>>
      /\ ServerUnchanged /\ GameUnchanged /\ phase' = phase
  BY DEF ServerJoins, Takes, Announces
<1>2. /\ events = <<>> /\ main = "loop" /\ deals = 0 /\ ~crashed
      /\ Queue(player, <<>>, player) /\ IsPlayer(player) /\ replies' = <<>>
  BY <1>1, LobbyServer
<1>3. a.name = "join.ack" /\ b.name = "readyToStart"
  BY DEF Event
<1> HIDE DEF a, b
<1>4. Handled(player, a) = player /\ Handled(player, b) = player
  BY <1>3, HandledOther
<1>5. events' = (<<>> \o <<a>>) \o <<b>> /\ events' = <<a, b>>
  <2>1. events' = <<>> \o <<a, b>>
    BY <1>1, <1>2 DEF a, b
  <2>2. <<>> \o <<a, b>> = (<<>> \o <<a>>) \o <<b>>
    BY SequenceEmpty, TwoMore
  <2>3. <<>> \o <<a, b>> = <<a, b>>
    BY SequenceTuples, SequenceShape
  <2> QED BY <2>1, <2>2, <2>3
<1>6. Queue(player, events', player)
  <2>1. Queue(player, <<>> \o <<a>>, player)
    BY <1>2, <1>4, QueuePlus
  <2>2. Queue(player, (<<>> \o <<a>>) \o <<b>>, player)
    BY <2>1, <1>2, <1>4, QueuePlus
  <2> QED BY <2>2, <1>5
<1>7. Named(events', <<"join.ack", "readyToStart">>)
  <2>1. IsSequence(<<a, b>>)
    BY SequenceTuples
  <2> QED BY <2>1, <1>3, <1>5 DEF Named
<1>8. LobbyKept'
  <2>1. (Named(events, <<"join.ack", "readyToStart">>))'
    BY <1>7 DEF Named
  <2>2. main' = "loop" /\ deals' = 0 /\ ~crashed'
    BY <1>1, <1>2 DEF ServerUnchanged, GameUnchanged, startVars, botVars
  <2> QED BY <2>1, <2>2, <1>2, Zenon DEF LobbyKept
<1>9. TurnKept'
  BY <1>1 DEF TurnKept
<1>10. QueuesTyped'
  <2>1. DOMAIN events' = {1, 2} /\ events'[1] = a /\ events'[2] = b /\ Len(replies') <= 2
    BY <1>2, <1>5
  <2>2. a.name \in Names /\ b.name \in Names
    BY <1>3 DEF Names
  <2> QED BY <2>1, <2>2 DEF QueuesTyped
<1>11. TableTyped' /\ TableKept'
  BY <1>1, TypeParts, TableStays DEF Inv, Support, TableKept, Unseen, GameUnchanged, tableVars
<1>12. phase' = "lobby" /\ ~(deals' > 0)
  BY <1>1, <1>2 DEF GameUnchanged
<1> QED BY <1>1, <1>6, <1>8, <1>9, <1>10, <1>11, <1>12, ServerKeeps

(* "auth" changes nothing.                                                 *)
LEMMA AuthenticatesKeeps ==
  ASSUME Inv, ServerAuthenticates
  PROVE  Inv'
<1>1. /\ replies # <<>> /\ Head(replies).name = "auth" /\ replies' = Tail(replies)
      /\ events' = events /\ ServerUnchanged /\ GameUnchanged /\ phase' = phase
  BY DEF ServerAuthenticates, Takes
<1>2. phase = "lobby"
  BY <1>1, LobbyReply
<1>3. /\ events = <<>> /\ main = "loop" /\ deals = 0 /\ ~crashed
      /\ Queue(player, <<>>, player) /\ Named(replies', <<"ready">>)
  BY <1>1, <1>2, LobbyServer
<1>4. LobbyKept'
  <2>1. (Named(replies, <<"ready">>))'
    BY <1>3 DEF Named
  <2>2. main' = "loop" /\ deals' = 0 /\ ~crashed' /\ events' = <<>>
    BY <1>1, <1>3 DEF ServerUnchanged, GameUnchanged, startVars, botVars
  <2> QED BY <2>1, <2>2, Zenon DEF LobbyKept
<1>5. TurnKept'
  BY <1>1, <1>2 DEF TurnKept
<1>6. QueuesTyped'
  <2>1. Len(replies') = 1
    BY <1>3 DEF Named
  <2>2. DOMAIN events' = {}
    BY <1>1, <1>3
  <2> QED BY <2>1, <2>2 DEF QueuesTyped
<1>7. TableTyped' /\ TableKept'
  BY <1>1, TypeParts, TableStays DEF Inv, Support, TableKept, Unseen, GameUnchanged, tableVars
<1>8. phase' = "lobby" /\ ~(deals' > 0)
  BY <1>1, <1>2, <1>3 DEF GameUnchanged
<1>9. Queue(player, events', player)
  BY <1>1, <1>3
<1> QED BY <1>1, <1>4, <1>5, <1>6, <1>7, <1>8, <1>9, ServerKeeps

(* "ready" is answered with the player's id.                               *)
LEMMA StartsKeeps ==
  ASSUME Inv, ServerStarts
  PROVE  Inv'
<1> DEFINE a == Event("ready.ack", Me, NoCommand, NoTile)
           q == Handled(player, a)
<1>1. /\ replies # <<>> /\ Head(replies).name = "ready" /\ replies' = Tail(replies)
      /\ phase = "lobby" /\ phase' = "over" /\ events' = events \o <<a>>
      /\ ServerUnchanged /\ GameUnchanged
  BY DEF ServerStarts, Takes, Announces
<1>2. /\ events = <<>> /\ main = "loop" /\ deals = 0 /\ ~crashed
      /\ Queue(player, <<>>, player) /\ IsPlayer(player) /\ replies' = <<>>
  BY <1>1, LobbyServer
<1>3. a.name = "ready.ack" /\ a.who = Me
  BY DEF Event
<1>4. q = [player EXCEPT !.id = Me]
  BY <1>3 DEF Handled
<1>5. q.id = Me /\ IsPlayer(q)
  BY <1>2, <1>4 DEF IsPlayer
<1> HIDE DEF a
<1>6. Queue(player, events', q)
  BY <1>1, <1>2, <1>5, QueuePlus
<1>7. IsSequence(events') /\ Plain(events')
  <2>1. IsSequence(<<>>) /\ Plain(<<>>)
    BY SequenceEmpty DEF Plain
  <2>2. a.name \in Names \ (Asking \cup {"join.ack", "readyToStart"})
    BY <1>3 DEF Names, Asking
  <2> QED BY <1>1, <1>2, <2>1, <2>2, PlainPlus, ElementsPlus
<1>8. main' = "loop" /\ ~crashed'
  BY <1>1, <1>2 DEF ServerUnchanged, startVars, botVars
<1>9. TurnKept' /\ LobbyKept' /\ QueuesTyped'
  BY <1>1, <1>2, <1>7, <1>8, PlainTurn
<1>10. TableTyped' /\ TableKept'
  <2>1. TableTyped /\ TableKept
    BY TypeParts DEF Inv, Support
  <2> QED BY <2>1, <1>1 DEF TableTyped, TableKept, Unseen, GameUnchanged
<1>11. ~(deals' > 0)
  BY <1>1, <1>2 DEF GameUnchanged
<1> HIDE DEF q
<1> QED BY <1>1, <1>5, <1>6, <1>9, <1>10, <1>11, ServerKeeps

-----------------------------------------------------------------------------
(* Bags: what is put into one that has room, and taken out of it.          *)

Bag == [Kinds -> 0..4]

(* A tile put to a bag that has room for it.                               *)
LEMMA PutIs ==
  ASSUME NEW bag \in Bag, NEW k \in Kinds, bag[k] < 4
  PROVE  /\ Put(bag, k) = [j \in Kinds |-> IF j = k THEN bag[j] + 1 ELSE bag[j]]
         /\ Plus(bag, k) = Put(bag, k) /\ Put(bag, k) \in Bag
<1> DEFINE more == [j \in Kinds |-> IF j = k THEN bag[j] + 1 ELSE bag[j]]
<1>1. Plus(bag, k) = more
  BY DEF Plus, Bag
<1>2. Put(bag, k) = Plus(bag, k)
  <2>1. bag[k] \in 0..4 /\ ~(bag[k] >= 4)
    BY DEF Bag
  <2> QED BY <2>1 DEF Put, Plus
<1>3. more \in Bag
  BY DEF Bag
<1> QED BY <1>1, <1>2, <1>3

(* A tile taken from a bag that has it.                                    *)
LEMMA TakeIs ==
  ASSUME NEW bag \in Bag, NEW k \in Kinds, bag[k] > 0
  PROVE  /\ Take(bag, k) = [j \in Kinds |-> IF j = k THEN bag[j] - 1 ELSE bag[j]]
         /\ Take(bag, k) \in Bag
<1> DEFINE less == [j \in Kinds |-> IF j = k THEN bag[j] - 1 ELSE bag[j]]
<1>1. Take(bag, k) = less
  <2>1. bag[k] # 0
    BY DEF Bag
  <2> QED BY <2>1 DEF Take, Bag
<1>2. less \in Bag
  BY DEF Bag
<1> QED BY <1>1, <1>2

(* Several tiles put where there is room for all.                          *)
LEMMA PutManyIs ==
  ASSUME NEW bag \in Bag, NEW more \in Bag, \A k \in Kinds : bag[k] + more[k] <= 4
  PROVE  PutMany(bag, more) = With(bag, more) /\ With(bag, more) \in Bag
BY DEF PutMany, With, Bag

(* What is taken away leaves a bag.                                        *)
LEMMA TakeManyIs ==
  ASSUME NEW bag \in Bag, NEW less \in Bag
  PROVE  TakeMany(bag, less) \in Bag
BY DEF TakeMany, Bag

(* The lesser of two numbers.                                              *)
LEMMA MinTwo ==
  ASSUME NEW a \in Nat, NEW b \in Nat
  PROVE  Min({a, b}) = IF a <= b THEN a ELSE b
<1>1. CASE a <= b
  <2>1. \E x \in {a, b} : \A y \in {a, b} : x <= y
    BY <1>1
  <2> QED BY <2>1, <1>1 DEF Min
<1>2. CASE ~(a <= b)
  <2>1. \E x \in {a, b} : \A y \in {a, b} : x <= y
    BY <1>2
  <2> QED BY <2>1, <1>2 DEF Min
<1> QED BY <1>1, <1>2

-----------------------------------------------------------------------------
(* What the bot makes of each event that the server sends.                 *)

PlainNames == Names \ (Asking \cup {"join.ack", "readyToStart"})

(* An event more that asks nothing, and one that asks.                     *)
LEMMA OneMore ==
  ASSUME NEW es, NEW p, Queue(player, es, p), Plain(es), NEW e, e.name \in PlainNames,
         IsPlayer(Handled(p, e))
  PROVE  /\ Queue(player, es \o <<e>>, Handled(p, e)) /\ Plain(es \o <<e>>)
         /\ IsSequence(es \o <<e>>)
<1>1. IsSequence(es)
  BY DEF Queue
<1>2. Queue(player, es \o <<e>>, Handled(p, e))
  BY QueuePlus
<1>3. Plain(es \o <<e>>)
  BY <1>1, PlainPlus DEF PlainNames
<1> QED BY <1>2, <1>3 DEF Queue

(* The fields of an event.                                                 *)
LEMMA EventIs ==
  ASSUME NEW name, NEW who, NEW what, NEW tile, NEW e, e = Event(name, who, what, tile)
  PROVE  e.name = name /\ e.who = who /\ e.what = what /\ e.tile = tile
BY DEF Event

(* A player is made of its fields.                                         *)
PlayerWith(who, hand, away, chows, triplets, kongs, hidden, tile, last, only) ==
  [id |-> who, Hand |-> hand, discards |-> away,
   eat |-> chows, pon |-> triplets, gon |-> kongs, anGon |-> hidden,
   drawTile |-> tile, throwTile |-> last, onlyThrow |-> only]

(* The fields of a player, one by one.                                     *)
LEMMA PlayerFields ==
  ASSUME NEW p, IsPlayer(p)
  PROVE  /\ p.id \in {Me, Other} /\ p.Hand \in Bag /\ p.discards \in Bag /\ p.eat \in Bag
         /\ p.pon \subseteq Kinds /\ p.gon \subseteq Kinds /\ p.anGon \subseteq Kinds
         /\ p.drawTile \in Kinds \cup {NoTile} /\ p.throwTile \in Kinds \cup {NoTile}
         /\ p.onlyThrow \in BOOLEAN
BY DEF IsPlayer, Bag

(* A player is made of its fields.                                         *)
LEMMA PlayerMade ==
  ASSUME NEW p, IsPlayer(p)
  PROVE  p = PlayerWith(p.id, p.Hand, p.discards, p.eat, p.pon, p.gon, p.anGon,
                  p.drawTile, p.throwTile, p.onlyThrow)
BY DEF IsPlayer, PlayerWith

(* Fields of the right kinds make a player, and are its fields.            *)
LEMMA PlayerOf ==
  ASSUME NEW who \in {Me, Other}, NEW hand \in Bag, NEW away \in Bag, NEW chows \in Bag,
         NEW triplets, triplets \subseteq Kinds, NEW kongs, kongs \subseteq Kinds,
         NEW hidden, hidden \subseteq Kinds,
         NEW tile \in Kinds \cup {NoTile}, NEW last \in Kinds \cup {NoTile},
         NEW only \in BOOLEAN, NEW q,
         q = PlayerWith(who, hand, away, chows, triplets, kongs, hidden, tile, last, only)
  PROVE  /\ IsPlayer(q) /\ q.id = who /\ q.Hand = hand /\ q.discards = away
         /\ q.eat = chows /\ q.pon = triplets /\ q.gon = kongs /\ q.anGon = hidden
         /\ q.drawTile = tile /\ q.throwTile = last /\ q.onlyThrow = only
BY DEF IsPlayer, Bag, PlayerWith

(* Dealt tiles.                                                            *)
LEMMA HandlesDeal ==
  ASSUME NEW p, IsPlayer(p), NEW e, e.name = "dealTile", e.tile \in Bag,
         NEW q, q = Handled(p, e)
  PROVE  /\ IsPlayer(q) /\ q.id = p.id /\ q.Hand = e.tile /\ q.discards = NoTiles
         /\ q.eat = NoTiles /\ q.pon = {} /\ q.gon = {} /\ q.anGon = {}
<1>1. q = [p EXCEPT !.Hand = e.tile, !.discards = NoTiles,
                    !.eat = NoTiles, !.pon = {}, !.gon = {}, !.anGon = {}]
  BY DEF Handled
<1>2. NoTiles \in Bag
  BY DEF NoTiles, Bag
<1>3. p = PlayerWith(p.id, p.Hand, p.discards, p.eat, p.pon, p.gon, p.anGon,
               p.drawTile, p.throwTile, p.onlyThrow)
  BY PlayerMade
<1>4. q = PlayerWith(p.id, e.tile, NoTiles, NoTiles, {}, {}, {},
               p.drawTile, p.throwTile, p.onlyThrow)
  BY <1>1, <1>3 DEF PlayerWith
<1>5. {} \subseteq Kinds
  OBVIOUS
<1> QED BY <1>2, <1>4, <1>5, PlayerFields, PlayerOf

(* A drawn tile.                                                           *)
LEMMA HandlesDraw ==
  ASSUME NEW p, IsPlayer(p), NEW e, e.name = "draw", e.tile \in Kinds,
         NEW q, q = Handled(p, e)
  PROVE  /\ IsPlayer(q) /\ q.id = p.id /\ q.Hand = p.Hand /\ q.discards = p.discards
         /\ q.eat = p.eat /\ q.pon = p.pon /\ q.gon = p.gon /\ q.anGon = p.anGon
         /\ q.drawTile = e.tile /\ ~q.onlyThrow
<1>1. q = [p EXCEPT !.drawTile = e.tile, !.onlyThrow = FALSE]
  BY DEF Handled
<1>2. p = PlayerWith(p.id, p.Hand, p.discards, p.eat, p.pon, p.gon, p.anGon,
              p.drawTile, p.throwTile, p.onlyThrow)
  BY PlayerMade
<1> PICK only \in BOOLEAN : only = FALSE
  OBVIOUS
<1>3. q = PlayerWith(p.id, p.Hand, p.discards, p.eat, p.pon, p.gon, p.anGon,
               e.tile, p.throwTile, only)
  BY <1>1, <1>2 DEF PlayerWith
<1>4. e.tile \in Kinds \cup {NoTile}
  OBVIOUS
<1>5. /\ IsPlayer(q) /\ q.id = p.id /\ q.Hand = p.Hand /\ q.discards = p.discards
      /\ q.eat = p.eat /\ q.pon = p.pon /\ q.gon = p.gon /\ q.anGon = p.anGon
      /\ q.drawTile = e.tile /\ q.onlyThrow = only
  BY <1>3, <1>4, PlayerFields, PlayerOf
<1> QED BY <1>5

(* The question what to throw.                                             *)
LEMMA HandlesThrow ==
  ASSUME NEW p, IsPlayer(p), NEW e, e.name = "throw", NEW hand \in Bag,
         hand = (IF p.onlyThrow THEN p.Hand ELSE Put(p.Hand, p.drawTile)),
         NEW q, q = Handled(p, e)
  PROVE  /\ IsPlayer(q) /\ q.id = p.id /\ q.Hand = hand /\ q.discards = p.discards
         /\ q.eat = p.eat /\ q.pon = p.pon /\ q.gon = p.gon /\ q.anGon = p.anGon
         /\ q.throwTile = p.throwTile
<1>1. q = [p EXCEPT !.Hand = hand]
  BY DEF Handled
<1>2. p = PlayerWith(p.id, p.Hand, p.discards, p.eat, p.pon, p.gon, p.anGon,
              p.drawTile, p.throwTile, p.onlyThrow)
  BY PlayerMade
<1>3. q = PlayerWith(p.id, hand, p.discards, p.eat, p.pon, p.gon, p.anGon,
              p.drawTile, p.throwTile, p.onlyThrow)
  BY <1>1, <1>2 DEF PlayerWith
<1> QED BY <1>3, PlayerFields, PlayerOf, SMTT(60)

(* The bot's own throw, and another player's.                              *)
LEMMA HandlesOwnThrow ==
  ASSUME NEW p, IsPlayer(p), NEW e, e.name = "broadcastThrow", e.tile \in Kinds,
         e.who = p.id, NEW hand \in Bag, hand = Take(p.Hand, e.tile),
         NEW away \in Bag, away = Put(p.discards, e.tile), NEW q, q = Handled(p, e)
  PROVE  /\ IsPlayer(q) /\ q.id = p.id /\ q.Hand = hand /\ q.discards = away
         /\ q.eat = p.eat /\ q.pon = p.pon /\ q.gon = p.gon /\ q.anGon = p.anGon
         /\ q.throwTile = e.tile
<1>1. q = [p EXCEPT !.throwTile = e.tile, !.discards = away, !.Hand = hand]
  BY DEF Handled
<1>2. p = PlayerWith(p.id, p.Hand, p.discards, p.eat, p.pon, p.gon, p.anGon,
               p.drawTile, p.throwTile, p.onlyThrow)
  BY PlayerMade
<1>3. q = PlayerWith(p.id, hand, away, p.eat, p.pon, p.gon, p.anGon,
               p.drawTile, e.tile, p.onlyThrow)
  BY <1>1, <1>2 DEF PlayerWith
<1>4. e.tile \in Kinds \cup {NoTile}
  OBVIOUS
<1> QED BY <1>3, <1>4, PlayerFields, PlayerOf

(* Another's throw joins the open tiles.                                   *)
LEMMA HandlesOtherThrow ==
  ASSUME NEW p, IsPlayer(p), NEW e, e.name = "broadcastThrow", e.tile \in Kinds,
         e.who # p.id, NEW away \in Bag, away = Put(p.discards, e.tile),
         NEW q, q = Handled(p, e)
  PROVE  /\ IsPlayer(q) /\ q.id = p.id /\ q.Hand = p.Hand /\ q.discards = away
         /\ q.eat = p.eat /\ q.pon = p.pon /\ q.gon = p.gon /\ q.anGon = p.anGon
         /\ q.throwTile = e.tile
<1>1. q = [p EXCEPT !.throwTile = e.tile, !.discards = away]
  BY DEF Handled
<1>2. p = PlayerWith(p.id, p.Hand, p.discards, p.eat, p.pon, p.gon, p.anGon,
              p.drawTile, p.throwTile, p.onlyThrow)
  BY PlayerMade
<1>3. q = PlayerWith(p.id, p.Hand, away, p.eat, p.pon, p.gon, p.anGon,
              p.drawTile, e.tile, p.onlyThrow)
  BY <1>1, <1>2 DEF PlayerWith
<1> QED BY <1>3, PlayerFields, PlayerOf

(* A claim of another player, and the echo of the bot's own.               *)
LEMMA HandlesOtherClaim ==
  ASSUME NEW p, IsPlayer(p), NEW e, e.name = "broadcastCommand", e.who # p.id,
         NEW away \in Bag, away = PutMany(p.discards, Shown(e)), NEW q, q = Handled(p, e)
  PROVE  /\ IsPlayer(q) /\ q.id = p.id /\ q.Hand = p.Hand /\ q.discards = away
         /\ q.eat = p.eat /\ q.pon = p.pon /\ q.gon = p.gon /\ q.anGon = p.anGon
<1>1. q = [p EXCEPT !.discards = away]
  BY DEF Handled
<1>2. p = PlayerWith(p.id, p.Hand, p.discards, p.eat, p.pon, p.gon, p.anGon,
              p.drawTile, p.throwTile, p.onlyThrow)
  BY PlayerMade
<1>3. q = PlayerWith(p.id, p.Hand, away, p.eat, p.pon, p.gon, p.anGon,
              p.drawTile, p.throwTile, p.onlyThrow)
  BY <1>1, <1>2 DEF PlayerWith
<1> QED BY <1>3, PlayerFields, PlayerOf

(* The bot's own claim is broadcast too, and ignored.                      *)
LEMMA HandlesOwnClaim ==
  ASSUME NEW p, IsPlayer(p), NEW e, e.name = "broadcastCommand", e.who = p.id
  PROVE  Handled(p, e) = p
<1>1. Handled(p, e) = [p EXCEPT !.discards = @]
  BY DEF Handled
<1> QED BY <1>1 DEF IsPlayer

-----------------------------------------------------------------------------
(* The server at the table.                                                *)

(* What the bot will throw from, when the question comes after a queue.    *)
LEMMA WholeNext ==
  ASSUME NEW front, NEW r, Queue(player, front, r), NEW b, events' = front \o <<b>>,
         ServerUnchanged, missing' = NoTiles => ThrowsFrom(r) = held'
  PROVE  WholeHand'
<1>1. player' = player
  BY DEF ServerUnchanged, botVars, idVars, playerVars, meldVars, tileVars, player
<1>2. IsSequence(front) /\ End(player, front) = r
  BY DEF Queue
<1>3. Asked(player, Append(front, b)) = r
  BY <1>2, HandledLast
<1>4. Append(front, b) = front \o <<b>>
  BY <1>2, SequenceAppend
<1>5. Asked(player', events') = r
  BY <1>1, <1>3, <1>4, Zenon
<1>6. (ThrowsFrom(Asked(player, events)))' = ThrowsFrom(Asked(player', events'))
  BY DEF ThrowsFrom, Asked, Handling
<1> QED BY <1>5, <1>6 DEF WholeHand

(* A hand with the drawn tile.                                             *)
LEMMA PlusOf ==
  ASSUME NEW hand \in Bag, NEW bag \in Bag, NEW k \in Kinds,
         \A j \in Kinds : bag[j] = hand[j] + (IF j = k THEN 1 ELSE 0)
  PROVE  Plus(hand, k) = bag
<1>1. Bag = Bags
  BY DEF Bag, Bags
<1>2. hand \in [Kinds -> Int] /\ bag \in [Kinds -> Int]
  BY <1>1, BagIs
<1> PICK more : more = Plus(hand, k)
  OBVIOUS
<1>3. more \in [Kinds -> Int] /\ \A j \in Kinds : more[j] = IF j = k THEN hand[j] + 1 ELSE hand[j]
  BY <1>2, PlusIs
<1>4. ASSUME NEW j \in Kinds PROVE more[j] = bag[j]
  <2>1. /\ bag[j] = hand[j] + (IF j = k THEN 1 ELSE 0) /\ hand[j] \in Int
        /\ more[j] = IF j = k THEN hand[j] + 1 ELSE hand[j]
    BY <1>2, <1>3
  <2> QED BY <2>1
<1> QED BY <1>2, <1>3, <1>4, SameBag

(* The parts of Inv that speak of the table.                               *)
LEMMA TableParts ==
  ASSUME Inv
  PROVE  TableTyped /\ TableKept /\ FlagsTyped
BY TypeParts DEF Inv, Support

(* What the server does not touch.                                         *)
LEMMA ServerLeaves ==
  ASSUME ServerUnchanged
  PROVE  main' = main /\ crashed' = crashed
BY DEF ServerUnchanged, startVars, botVars

(* A deal.                                                                 *)
LEMMA DealsKeeps ==
  ASSUME Inv, ServerDeals
  PROVE  Inv'
<1> PICK bag : bag = held'
  OBVIOUS
<1> PICK a : a = Event("dealTile", Me, NoCommand, bag)
  OBVIOUS
<1>1. /\ phase = "over" /\ events = <<>> /\ deals < MaxDeals /\ deals' = deals + 1
      /\ phase' = "idle" /\ bag \in Hands({HandSize})
      /\ visible' = NoTiles /\ door' = NoDoor /\ drawn' = NoTile /\ thrown' = NoTile
      /\ missing' = NoTiles /\ events' = events \o <<a>> /\ replies' = replies
      /\ ServerUnchanged
  BY DEF ServerDeals, Announces
<1>2. held' \in Bag /\ bag \in Bag
  BY <1>1 DEF Hands, Bag
<1> PICK p : p = InTheEnd
  OBVIOUS
<1>3. /\ Queue(player, events, p) /\ IsPlayer(p) /\ p.id = Me /\ Plain(events)
      /\ replies = <<>> /\ ~crashed /\ main = "loop"
  BY <1>1, FreeServer
<1>4. a.name = "dealTile" /\ a.tile = bag
  BY EventIs
<1> PICK q : q = Handled(p, a)
  OBVIOUS
<1>5. /\ IsPlayer(q) /\ q.id = Me /\ q.Hand = bag /\ q.discards = NoTiles
      /\ q.eat = NoTiles /\ q.pon = {} /\ q.gon = {} /\ q.anGon = {}
  BY <1>2, <1>3, <1>4, HandlesDeal
<1>6. a.name \in PlainNames
  BY <1>4 DEF PlainNames, Names, Asking
<1>7. Queue(player, events', q) /\ Plain(events') /\ IsSequence(events')
  BY <1>1, <1>3, <1>5, <1>6, OneMore
<1>8. main' = "loop" /\ ~crashed' /\ replies' = <<>>
  BY <1>1, <1>3, ServerLeaves
<1>9. TurnKept' /\ LobbyKept' /\ QueuesTyped'
  BY <1>1, <1>7, <1>8, PlainTurn
<1>10. TableTyped'
  <2>1. NoTiles \in [Kinds -> 0..4]
    BY DEF NoTiles
  <2>2. deals' \in 0..MaxDeals
    BY <1>1, TableParts, TableAssumption DEF TableTyped
  <2> QED BY <1>1, <1>2, <2>1, <2>2 DEF TableTyped, NoDoor, Bag
<1>11. TableKept'
  <2>1. deals' # 0
    BY <1>1, TableParts, TableAssumption DEF TableTyped
  <2>2. \A k \in Kinds : k # NoTile /\ held'[k] \in 0..4
    BY <1>2, KindIs DEF Bag
  <2> QED BY <1>1, <2>1, <2>2 DEF TableKept, Unseen, NoDoor, NoTiles
<1>12. Agrees(q)'
  <2>1. \A k \in Kinds : k # NoTile /\ held'[k] \in 0..4
    BY <1>2, KindIs DEF Bag
  <2>2. \A k \in Kinds :
          held'[k] = q.Hand[k] + missing'[k]
                       + (IF drawn' = k /\ phase' # "discard" THEN 1 ELSE 0)
    BY <1>1, <1>5, <2>1 DEF NoTiles
  <2>3. door' = [eat |-> q.eat, pon |-> q.pon, gon |-> q.gon, anGon |-> q.anGon]
    BY <1>1, <1>5 DEF NoDoor
  <2>4. phase' # "options" /\ thrown' = NoTile /\ q.discards = visible'
    BY <1>1, <1>5
  <2> QED BY <2>2, <2>3, <2>4 DEF Agrees
<1> QED BY <1>1, <1>5, <1>7, <1>9, <1>10, <1>11, <1>12, ServerKeeps

(* The end of a deal.                                                      *)
LEMMA EndsKeeps ==
  ASSUME Inv, ServerEnds
  PROVE  Inv'
<1>1. /\ phase = "idle" /\ phase' = "over" /\ events' = events /\ replies' = replies
      /\ GameUnchanged /\ ServerUnchanged
  BY DEF ServerEnds
<1> PICK p : p = InTheEnd
  OBVIOUS
<1>2. /\ Queue(player, events, p) /\ IsPlayer(p) /\ p.id = Me /\ Plain(events)
      /\ replies = <<>> /\ ~crashed /\ main = "loop" /\ (deals > 0 => Agrees(p))
  BY <1>1, FreeServer
<1>3. Queue(player, events', p) /\ Plain(events') /\ IsSequence(events')
  BY <1>1, <1>2 DEF Queue
<1>4. main' = "loop" /\ ~crashed' /\ replies' = <<>>
  BY <1>1, <1>2, ServerLeaves
<1>5. TurnKept' /\ LobbyKept' /\ QueuesTyped'
  BY <1>1, <1>3, <1>4, PlainTurn
<1>6. TableTyped' /\ TableKept'
  BY <1>1, TableParts DEF GameUnchanged, TableTyped, TableKept, Unseen
<1>7. deals' > 0 => Agrees(p)'
  BY <1>1, <1>2 DEF Agrees, GameUnchanged
<1> QED BY <1>1, <1>2, <1>3, <1>5, <1>6, <1>7, ServerKeeps

(* What the server finds with the answer to a question, by name.           *)
LEMMA AnswerTaken ==
  ASSUME Inv, phase \in {"discard", "options"}, replies # <<>>,
         NEW p, p = player, NEW reply, reply = Head(replies)
  PROVE  /\ Queue(p, <<>>, p) /\ IsPlayer(p) /\ p.id = Me
         /\ IsSequence(<<>>) /\ Plain(<<>>)
         /\ events = <<>> /\ Tail(replies) = <<>> /\ ~crashed /\ main = "loop"
         /\ Agrees(p) /\ deals > 0
         /\ phase = "discard" => Throws(reply)
         /\ phase = "options" => Claims(reply)
BY AnsweredServer

(* An answer that ends the turn, or the deal, and moves no tile.           *)
LEMMA QuietAnswer ==
  ASSUME Inv, phase = "options", replies # <<>>, replies' = Tail(replies),
         events' = events, ServerUnchanged, GameUnchanged, phase' \in {"over", "idle"},
         phase' = "idle" => drawn = NoTile
  PROVE  Inv'
<1> PICK p : p = player
  OBVIOUS
<1>1. /\ Queue(p, <<>>, p) /\ IsPlayer(p) /\ p.id = Me /\ IsSequence(<<>>) /\ Plain(<<>>)
      /\ events = <<>> /\ Tail(replies) = <<>> /\ ~crashed /\ main = "loop"
      /\ Agrees(p) /\ deals > 0
  BY AnswerTaken
<1>2. Queue(player, events', p) /\ Plain(events') /\ IsSequence(events')
  BY <1>1
<1>3. main' = "loop" /\ ~crashed' /\ replies' = <<>>
  BY <1>1, ServerLeaves
<1>4. TurnKept' /\ LobbyKept' /\ QueuesTyped'
  BY <1>2, <1>3, PlainTurn
<1>5. TableTyped'
  BY TableParts DEF GameUnchanged, TableTyped
<1>6. TableKept'
  BY <1>1, TableParts DEF GameUnchanged, TableTyped, TableKept, Unseen
<1>7. Agrees(p)'
  BY <1>1 DEF Agrees, GameUnchanged
<1> QED BY <1>1, <1>2, <1>4, <1>5, <1>6, <1>7, ServerKeeps

(* A win ends the deal, and tells the bot nothing of its hand.             *)
LEMMA TakesWinKeeps ==
  ASSUME Inv, ServerTakesWin
  PROVE  Inv'
BY QuietAnswer DEF ServerTakesWin, Takes

(* A claim that is overruled changes nothing the bot keeps.                *)
LEMMA RefusedKeeps ==
  ASSUME Inv, Refused
  PROVE  Inv'
<1> PICK reply : reply = Head(replies)
  OBVIOUS
<1>1. /\ phase = "options" /\ replies # <<>> /\ replies' = Tail(replies)
      /\ reply.what \in {"EAT", "PON"} /\ phase' = "idle" /\ events' = events
      /\ ServerUnchanged /\ GameUnchanged
  BY DEF Refused, Takes
<1>2. Claims(reply)
  BY <1>1, AnswerTaken
<1>3. drawn = NoTile
  BY <1>1, <1>2 DEF Claims
<1> QED BY <1>1, <1>3, QuietAnswer

(* The bot claims nothing: another player goes on, or it has to throw.     *)
LEMMA TakesNoneKeeps ==
  ASSUME Inv, ServerTakesNone
  PROVE  Inv' /\ WholeHand'
<1>1. /\ phase = "options" /\ replies # <<>> /\ replies' = Tail(replies)
      /\ ServerUnchanged /\ GameUnchanged
  BY DEF ServerTakesNone, Takes
<1>2. CASE drawn = NoTile
  <2>1. phase' = "idle" /\ events' = events
    BY <1>2 DEF ServerTakesNone
  <2>2. WholeHand'
    BY <2>1 DEF WholeHand
  <2> QED BY <1>1, <1>2, <2>1, <2>2, QuietAnswer
<1>3. CASE drawn # NoTile
  <2> PICK a : a = Event("throw", Me, NoCommand, NoTile)
    OBVIOUS
  <2>1. phase' = "discard" /\ events' = events \o <<a>>
    BY <1>3 DEF ServerTakesNone, Announces
  <2> PICK p : p = player
    OBVIOUS
  <2>2. /\ Queue(p, <<>>, p) /\ IsPlayer(p) /\ p.id = Me /\ IsSequence(<<>>) /\ Plain(<<>>)
        /\ events = <<>> /\ Tail(replies) = <<>> /\ ~crashed /\ main = "loop"
        /\ Agrees(p) /\ deals > 0
    BY <1>1, AnswerTaken
  <2>3. a.name = "throw"
    BY EventIs
  <2>4. TableTyped /\ TableKept
    BY TableParts
  <2>5. drawn \in Kinds /\ p.drawTile = drawn /\ ~p.onlyThrow
    BY <1>1, <1>3, <2>2, <2>4 DEF Agrees, TableTyped
  <2>6. \A k \in Kinds : held[k] = p.Hand[k] + missing[k] + (IF drawn = k THEN 1 ELSE 0)
    BY <1>1, <2>2 DEF Agrees
  <2>7. p.Hand \in Bag /\ held \in Bag /\ missing \in Bag
    BY <2>2, <2>4, PlayerFields DEF TableTyped, Bag
  <2> PICK k \in Kinds : k = drawn
    BY <2>5
  <2>8. p.Hand[k] < 4
    BY <2>6, <2>7 DEF Bag
  <2> PICK hand : hand = Put(p.Hand, k)
    OBVIOUS
  <2>9. hand \in Bag /\ hand = [j \in Kinds |-> IF j = k THEN p.Hand[j] + 1 ELSE p.Hand[j]]
    BY <2>7, <2>8, PutIs
  <2> PICK q : q = Handled(p, a)
    OBVIOUS
  <2>10. hand = (IF p.onlyThrow THEN p.Hand ELSE Put(p.Hand, p.drawTile))
    BY <2>5
  <2>11. /\ IsPlayer(q) /\ q.id = p.id /\ q.Hand = hand /\ q.discards = p.discards
         /\ q.eat = p.eat /\ q.pon = p.pon /\ q.gon = p.gon /\ q.anGon = p.anGon
         /\ q.throwTile = p.throwTile
    BY <2>2, <2>3, <2>9, <2>10, HandlesThrow
  <2>12. Queue(player, events', q)
    BY <2>1, <2>2, <2>11, QueuePlus
  <2>13. main' = "loop" /\ ~crashed' /\ replies' = <<>>
    BY <1>1, <2>2, ServerLeaves
  <2>14. TurnKept' /\ LobbyKept' /\ QueuesTyped'
    <3>1. events' = <<>> \o <<a>>
      BY <2>1, <2>2
    <3> QED BY <2>1, <2>2, <2>3, <2>13, <3>1, AskingTurn
  <2>15. TableTyped' /\ TableKept'
    BY <1>1, <2>1, <2>2, <2>4 DEF GameUnchanged, TableTyped, TableKept, Unseen
  <2>16. Agrees(q)'
    <3>1. \A j \in Kinds : held'[j] = q.Hand[j] + missing'[j]
      BY <1>1, <2>6, <2>7, <2>9, <2>11 DEF GameUnchanged, Bag
    <3>2. /\ q.discards = visible' /\ phase' = "discard"
          /\ door' = [eat |-> q.eat, pon |-> q.pon, gon |-> q.gon, anGon |-> q.anGon]
          /\ thrown' # NoTile => q.throwTile = thrown'
      BY <1>1, <2>1, <2>2, <2>11 DEF Agrees, GameUnchanged
    <3>3. \A j \in Kinds : held'[j] \in 0..4 /\ missing'[j] \in 0..4 /\ q.Hand[j] \in 0..4
      BY <1>1, <2>7, <2>9, <2>11 DEF GameUnchanged, Bag
    <3> QED BY <3>1, <3>2, <3>3 DEF Agrees
  <2>17. WholeHand'
    <3> PICK bag : bag = held
      OBVIOUS
    <3>1. ASSUME missing' = NoTiles PROVE ThrowsFrom(p) = bag
      <4>1. \A j \in Kinds : missing[j] = 0
        BY <1>1, <3>1 DEF GameUnchanged, NoTiles
      <4>2. ASSUME NEW j \in Kinds PROVE bag[j] = p.Hand[j] + (IF j = k THEN 1 ELSE 0)
        <5>1. bag[j] = p.Hand[j] + missing[j] + (IF drawn = j THEN 1 ELSE 0)
          BY <2>6
        <5>2. p.Hand[j] \in 0..4 /\ missing[j] = 0
          BY <2>7, <4>1 DEF Bag
        <5> QED BY <5>1, <5>2
      <4>3. Plus(p.Hand, k) = bag
        BY <2>7, <4>2, PlusOf
      <4> QED BY <2>5, <4>3 DEF ThrowsFrom
    <3>2. events' = <<>> \o <<a>> /\ held' = bag
      BY <1>1, <2>1, <2>2 DEF GameUnchanged
    <3>3. Queue(player, <<>>, p)
      BY <2>2
    <3> QED BY <1>1, <3>1, <3>2, <3>3, WholeNext
  <2> QED BY <1>1, <2>2, <2>11, <2>12, <2>14, <2>15, <2>16, <2>17, ServerKeeps
<1> QED BY <1>2, <1>3

(* The counts of the table.                                                *)
LEMMA TableCounts ==
  ASSUME Inv
  PROVE  /\ held \in Bag /\ visible \in Bag /\ missing \in Bag /\ door.eat \in Bag
         /\ \A k \in Kinds :
              /\ held[k] + visible[k] + (IF k \in door.anGon THEN 4 ELSE 0) <= 4
              /\ Unseen(k) = 4 - held[k] - visible[k] - (IF k \in door.anGon THEN 4 ELSE 0)
              /\ door.eat[k] + (IF thrown = k THEN 1 ELSE 0) <= visible[k]
              /\ k \in door.pon => visible[k] >= 3
              /\ k # NoTile
<1>1. TableTyped /\ TableKept
  BY TableParts
<1>2. held \in Bag /\ visible \in Bag /\ missing \in Bag /\ door.eat \in Bag
  BY <1>1 DEF TableTyped, Bag
<1>3. ASSUME NEW k \in Kinds
      PROVE  held[k] + visible[k] + (IF k \in door.anGon THEN 4 ELSE 0) <= 4
  BY <1>1, <1>2 DEF TableKept, Unseen, Bag
<1>4. ASSUME NEW k \in Kinds
      PROVE  /\ Unseen(k) = 4 - held[k] - visible[k] - (IF k \in door.anGon THEN 4 ELSE 0)
             /\ door.eat[k] + (IF thrown = k THEN 1 ELSE 0) <= visible[k]
             /\ k \in door.pon => visible[k] >= 3
             /\ k # NoTile
  BY <1>1, KindIs DEF TableKept, Unseen
<1> QED BY <1>2, <1>3, <1>4

(* The bot's throw.                                                        *)
LEMMA TakesThrowKeeps ==
  ASSUME Inv, ServerTakesThrow
  PROVE  Inv'
<1> PICK reply : reply = Head(replies)
  OBVIOUS
<1> PICK k : k = reply.tile
  OBVIOUS
<1> PICK a : a = Event("broadcastThrow", Me, NoCommand, k)
  OBVIOUS
<1> PICK p : p = player
  OBVIOUS
<1>1. /\ phase = "discard" /\ replies # <<>> /\ replies' = Tail(replies)
      /\ held' = Take(held, k) /\ visible' = Plus(visible, k) /\ thrown' = k
      /\ drawn' = NoTile /\ phase' = "idle" /\ events' = events \o <<a>>
      /\ door' = door /\ missing' = missing /\ deals' = deals /\ ServerUnchanged
  BY DEF ServerTakesThrow, Takes, Announces
<1>2. /\ Queue(p, <<>>, p) /\ IsPlayer(p) /\ p.id = Me /\ IsSequence(<<>>) /\ Plain(<<>>)
      /\ events = <<>> /\ Tail(replies) = <<>> /\ ~crashed /\ main = "loop"
      /\ Agrees(p) /\ deals > 0 /\ Throws(reply)
  BY <1>1, AnswerTaken
<1>3. k \in Kinds /\ p.Hand[k] > 0
  BY <1>2 DEF Throws, player
<1>4. \A j \in Kinds : held[j] = p.Hand[j] + missing[j]
  <2>1. \A j \in Kinds : held[j] \in 0..4 /\ p.Hand[j] \in 0..4 /\ missing[j] \in 0..4
    BY <1>2, TableCounts, PlayerFields DEF Bag
  <2> QED BY <1>1, <1>2, <2>1 DEF Agrees
<1>5. p.Hand \in Bag /\ p.discards = visible /\ p.discards \in Bag
  BY <1>2, PlayerFields DEF Agrees
<1>6. held[k] > 0 /\ visible[k] < 4
  <2>1. held[k] + visible[k] <= 4 /\ held[k] \in 0..4 /\ visible[k] \in 0..4
    BY <1>3, TableCounts DEF Bag
  <2>2. p.Hand[k] \in 0..4 /\ missing[k] \in 0..4
    BY <1>3, <1>5, TableCounts DEF Bag
  <2> QED BY <1>3, <1>4, <2>1, <2>2
<1>7. held' \in Bag /\ held' = [j \in Kinds |-> IF j = k THEN held[j] - 1 ELSE held[j]]
  BY <1>1, <1>3, <1>6, TableCounts, TakeIs
<1>8. /\ visible' \in Bag /\ visible' = Put(visible, k)
      /\ visible' = [j \in Kinds |-> IF j = k THEN visible[j] + 1 ELSE visible[j]]
  BY <1>1, <1>3, <1>6, TableCounts, PutIs
<1> PICK hand : hand = Take(p.Hand, k)
  OBVIOUS
<1>9. hand \in Bag /\ hand = [j \in Kinds |-> IF j = k THEN p.Hand[j] - 1 ELSE p.Hand[j]]
  BY <1>3, <1>5, TakeIs
<1> PICK q : q = Handled(p, a)
  OBVIOUS
<1> PICK away : away = visible'
  OBVIOUS
<1>10. a.name = "broadcastThrow" /\ a.who = Me /\ a.tile = k
  BY EventIs
<1>11. /\ IsPlayer(q) /\ q.id = Me /\ q.Hand = hand /\ q.discards = away
       /\ q.eat = p.eat /\ q.pon = p.pon /\ q.gon = p.gon /\ q.anGon = p.anGon
       /\ q.throwTile = k
  <2>1. away \in Bag /\ away = Put(p.discards, a.tile) /\ a.tile \in Kinds
    BY <1>3, <1>5, <1>8, <1>10
  <2>2. hand = Take(p.Hand, a.tile) /\ a.who = p.id
    BY <1>2, <1>10
  <2> QED BY <1>2, <1>9, <1>10, <2>1, <2>2, HandlesOwnThrow
<1>12. Queue(player, events', q) /\ Plain(events') /\ IsSequence(events')
  <2>1. a.name \in PlainNames
    BY <1>10 DEF PlainNames, Names, Asking
  <2> QED BY <1>1, <1>2, <1>11, <2>1, OneMore
<1>13. main' = "loop" /\ ~crashed' /\ replies' = <<>>
  BY <1>1, <1>2, ServerLeaves
<1>14. TurnKept' /\ LobbyKept' /\ QueuesTyped'
  BY <1>1, <1>12, <1>13, PlainTurn
<1>15. TableTyped'
  BY <1>1, <1>3, <1>7, <1>8, TableParts DEF TableTyped, Bag
<1>16. TableKept'
  <2>1. \A j \in Kinds : held[j] \in 0..4 /\ visible[j] \in 0..4 /\ door.eat[j] \in 0..4
    BY TableCounts DEF Bag
  <2>2. ASSUME NEW j \in Kinds
        PROVE  /\ Unseen(j)' >= 0
               /\ door'.eat[j] + (IF thrown' = j THEN 1 ELSE 0) <= visible'[j]
               /\ j \in door'.pon => visible'[j] >= 3
    <3>1. /\ held'[j] = IF j = k THEN held[j] - 1 ELSE held[j]
          /\ visible'[j] = IF j = k THEN visible[j] + 1 ELSE visible[j]
      BY <1>7, <1>8
    <3>2. door' = door /\ thrown' = k
      BY <1>1
    <3>3. Unseen(j)' = 4 - held'[j] - visible'[j] - (IF j \in door.anGon THEN 4 ELSE 0)
      BY <3>2 DEF Unseen
    <3>4. /\ held[j] + visible[j] + (IF j \in door.anGon THEN 4 ELSE 0) <= 4
          /\ door.eat[j] + (IF thrown = j THEN 1 ELSE 0) <= visible[j]
          /\ j \in door.pon => visible[j] >= 3
          /\ held[j] \in 0..4 /\ visible[j] \in 0..4 /\ door.eat[j] \in 0..4
      BY <2>1, TableCounts
    <3>5. Unseen(j)' >= 0
      BY <3>1, <3>3, <3>4
    <3> QED BY <3>1, <3>2, <3>4, <3>5
  <2>3. door' = [eat |-> door'.eat, pon |-> door'.pon, gon |-> door'.gon, anGon |-> door'.anGon]
    BY <1>1, TableParts DEF TableKept
  <2>4. drawn' = NoTile /\ phase' = "idle" /\ deals' # 0
    BY <1>1, <1>2, TableParts, TableAssumption DEF TableTyped
  <2> QED BY <2>2, <2>3, <2>4 DEF TableKept
<1>17. Agrees(q)'
  <2>1. \A j \in Kinds : held'[j] \in 0..4 /\ missing'[j] \in 0..4 /\ q.Hand[j] \in 0..4 /\ j # NoTile
    BY <1>1, <1>7, <1>9, <1>11, TableCounts DEF Bag
  <2>2. \A j \in Kinds : held'[j] = q.Hand[j] + missing'[j]
    <3>1. \A j \in Kinds : held[j] \in 0..4 /\ p.Hand[j] \in 0..4 /\ missing[j] \in 0..4
      BY <1>5, TableCounts DEF Bag
    <3>2. ASSUME NEW j \in Kinds PROVE held'[j] = q.Hand[j] + missing'[j]
      <4>1. /\ held'[j] = IF j = k THEN held[j] - 1 ELSE held[j]
            /\ q.Hand[j] = IF j = k THEN p.Hand[j] - 1 ELSE p.Hand[j]
            /\ missing'[j] = missing[j]
        BY <1>1, <1>7, <1>9, <1>11
      <4> QED BY <1>4, <3>1, <4>1
    <3> QED BY <3>2
  <2>3. \A j \in Kinds : held'[j] = q.Hand[j] + missing'[j]
                           + (IF drawn' = j /\ phase' # "discard" THEN 1 ELSE 0)
    <3>1. drawn' = NoTile
      BY <1>1
    <3>2. ASSUME NEW j \in Kinds
          PROVE  held'[j] = q.Hand[j] + missing'[j]
                              + (IF drawn' = j /\ phase' # "discard" THEN 1 ELSE 0)
      <4>1. held'[j] = q.Hand[j] + missing'[j] /\ q.Hand[j] \in Int /\ missing'[j] \in Int
        BY <2>1, <2>2
      <4>2. ~(drawn' = j)
        BY <2>1, <3>1
      <4> QED BY <4>1, <4>2
    <3> QED BY <3>2
  <2>4. /\ q.discards = visible' /\ phase' = "idle" /\ q.throwTile = thrown'
        /\ door' = [eat |-> q.eat, pon |-> q.pon, gon |-> q.gon, anGon |-> q.anGon]
    BY <1>1, <1>2, <1>11 DEF Agrees
  <2> QED BY <2>3, <2>4 DEF Agrees
<1> QED BY <1>1, <1>11, <1>12, <1>14, <1>15, <1>16, <1>17, ServerKeeps

(* What is left to show of the table, count by count.                      *)
LEMMA TableKeptNext ==
  ASSUME held' \in Bag, visible' \in Bag,
         NEW eaten \in Bag, eaten = door'.eat,
         \A j \in Kinds :
           /\ held'[j] + visible'[j] + (IF j \in door'.anGon THEN 4 ELSE 0) <= 4
           /\ eaten[j] + (IF thrown' = j THEN 1 ELSE 0) <= visible'[j]
           /\ j \in door'.pon => visible'[j] >= 3,
         door' = [eat |-> door'.eat, pon |-> door'.pon, gon |-> door'.gon, anGon |-> door'.anGon],
         phase' \in {"idle", "kong"} => drawn' = NoTile,
         phase' = "options" /\ drawn' = NoTile => thrown' # NoTile,
         deals' # 0
  PROVE  TableKept'
<1>1. ASSUME NEW j \in Kinds PROVE Unseen(j)' >= 0
  <2>1. Unseen(j)' = 4 - held'[j] - visible'[j] - (IF j \in door'.anGon THEN 4 ELSE 0)
    BY DEF Unseen
  <2>2. held'[j] \in 0..4 /\ visible'[j] \in 0..4
    BY DEF Bag
  <2> QED BY <2>1, <2>2
<1> QED BY <1>1 DEF TableKept

(* Tiles are dealt when it is anybody's turn.                              *)
LEMMA TurnsAreDealt ==
  ASSUME Inv, phase \in {"idle", "kong", "options", "discard"}
  PROVE  deals > 0 /\ deals # 0
BY TableParts, TableAssumption DEF TableTyped, TableKept

(* Another player's throw.                                                 *)
LEMMA OtherThrowsKeeps ==
  ASSUME Inv, OtherThrows
  PROVE  Inv'
<1>1. /\ phase = "idle" /\ replies' = replies /\ held' = held /\ door' = door
      /\ drawn' = drawn /\ missing' = missing /\ deals' = deals /\ ServerUnchanged
  BY DEF OtherThrows
<1> PICK k \in Kinds, next \in BOOLEAN :
       /\ Unseen(k) > 0
       /\ visible' = Plus(visible, k) /\ thrown' = k
       /\ LET can == IF next THEN Offers(k) ELSE Offers(k) \ {"EAT"}
              news == <<Event("broadcastThrow", Other, NoCommand, k)>>
          IN \/ phase' = "idle" /\ Announces(news)
             \/ /\ can # {} /\ phase' = "options"
                /\ Announces(Append(news, Event("command", Me, can, NoTile)))
  BY DEF OtherThrows
<1> PICK can : can = IF next THEN Offers(k) ELSE Offers(k) \ {"EAT"}
  OBVIOUS
<1> PICK a : a = Event("broadcastThrow", Other, NoCommand, k)
  OBVIOUS
<1> PICK b : b = Event("command", Me, can, NoTile)
  OBVIOUS
<1>2. /\ Unseen(k) > 0 /\ visible' = Plus(visible, k) /\ thrown' = k
      /\ \/ phase' = "idle" /\ events' = events \o <<a>>
         \/ phase' = "options" /\ events' = events \o Append(<<a>>, b)
  BY DEF Announces
<1> PICK p : p = InTheEnd
  OBVIOUS
<1>3. /\ Queue(player, events, p) /\ IsPlayer(p) /\ p.id = Me /\ Plain(events)
      /\ replies = <<>> /\ ~crashed /\ main = "loop"
  BY <1>1, FreeServer
<1>4. deals > 0 /\ deals # 0 /\ Agrees(p)
  BY <1>1, FreeServer, TurnsAreDealt
<1>5. visible[k] < 4
  <2>1. /\ Unseen(k) = 4 - held[k] - visible[k] - (IF k \in door.anGon THEN 4 ELSE 0)
        /\ held[k] \in 0..4 /\ visible[k] \in 0..4
    BY TableCounts DEF Bag
  <2> QED BY <1>2, <2>1
<1>6. /\ visible' \in Bag /\ visible' = Put(visible, k)
      /\ visible' = [j \in Kinds |-> IF j = k THEN visible[j] + 1 ELSE visible[j]]
  BY <1>2, <1>5, TableCounts, PutIs
<1> PICK q : q = Handled(p, a)
  OBVIOUS
<1> PICK away : away = visible'
  OBVIOUS
<1>7. a.name = "broadcastThrow" /\ a.who = Other /\ a.tile = k
  BY EventIs
<1>8. /\ IsPlayer(q) /\ q.id = Me /\ q.Hand = p.Hand /\ q.discards = away
      /\ q.eat = p.eat /\ q.pon = p.pon /\ q.gon = p.gon /\ q.anGon = p.anGon
      /\ q.throwTile = k
  <2>1. p.discards = visible
    BY <1>4 DEF Agrees
  <2>2. away \in Bag /\ away = Put(p.discards, a.tile) /\ a.tile \in Kinds
    BY <1>6, <1>7, <2>1
  <2>3. a.who # p.id
    BY <1>3, <1>7 DEF Me, Other
  <2> QED BY <1>3, <1>7, <2>2, <2>3, HandlesOtherThrow
<1>9. Queue(player, events \o <<a>>, q) /\ Plain(events \o <<a>>) /\ IsSequence(events \o <<a>>)
  <2>1. a.name \in PlainNames
    BY <1>7 DEF PlainNames, Names, Asking
  <2> QED BY <1>3, <1>8, <2>1, OneMore
<1>10. main' = "loop" /\ ~crashed' /\ replies' = <<>>
  BY <1>1, <1>3, ServerLeaves
<1>11. Given(can)'
  <2>1. can \subseteq Offers(k)
    OBVIOUS
  <2>2. drawn' = NoTile
    BY <1>1, TableParts DEF TableKept
  <2>3. Offers(k)' = Offers(k)
    BY <1>1 DEF Offers, CanEat
  <2>4. Offers(thrown)' = Offers(k)'
    BY <1>2 DEF Offers, CanEat
  <2> QED BY <2>1, <2>2, <2>3, <2>4 DEF Given
<1>12. /\ TurnKept' /\ LobbyKept' /\ QueuesTyped' /\ Queue(player, events', q)
  <2>1. CASE phase' = "idle" /\ events' = events \o <<a>>
    <3>1. Queue(player, events', q) /\ Plain(events') /\ IsSequence(events')
      BY <1>9, <2>1
    <3> QED BY <1>10, <2>1, <3>1, PlainTurn
  <2>2. CASE phase' = "options" /\ events' = events \o Append(<<a>>, b)
    <3>1. b.name = "command" /\ b.what = can
      BY EventIs
    <3> PICK front : front = events \o <<a>>
      OBVIOUS
    <3>2. Append(<<a>>, b) = <<a, b>>
      <4>1. IsSequence(<<a>>)
        BY SequenceTuples
      <4> QED BY <4>1, SequenceAppend, TwoAreJoined
    <3>3. events' = front \o <<b>>
      <4>1. IsSequence(events)
        BY <1>3 DEF Queue
      <4>2. events \o <<a, b>> = (events \o <<a>>) \o <<b>>
        BY <4>1, TwoMore
      <4> QED BY <2>2, <3>2, <4>2, Zenon
    <3>4. Handled(q, b) = q
      BY <3>1, HandledOther
    <3>5. Queue(player, events', q)
      BY <1>8, <1>9, <3>3, <3>4, QueuePlus
    <3>6. IsSequence(front) /\ Plain(front)
      BY <1>9
    <3>7. Given(b.what)'
      <4> PICK c : c = b.what
        OBVIOUS
      <4>1. Given(c)'
        BY <1>11, <3>1
      <4> QED BY <4>1
    <3> QED BY <1>10, <2>2, <3>1, <3>3, <3>5, <3>6, <3>7, AskingTurn
  <2> QED BY <1>2, <2>1, <2>2
<1>13. TableTyped'
  <2>1. phase' \in {"idle", "options"}
    BY <1>2
  <2>2. k \in Kinds \cup {NoTile}
    OBVIOUS
  <2> QED BY <1>1, <1>2, <1>6, <2>1, <2>2, TableParts DEF TableTyped, Bag
<1>14. TableKept'
  <2>1. ASSUME NEW j \in Kinds
        PROVE  /\ held'[j] + visible'[j] + (IF j \in door'.anGon THEN 4 ELSE 0) <= 4
               /\ door'.eat[j] + (IF thrown' = j THEN 1 ELSE 0) <= visible'[j]
               /\ j \in door'.pon => visible'[j] >= 3
    <3>1. visible'[j] = IF j = k THEN visible[j] + 1 ELSE visible[j]
      BY <1>6
    <3>2. /\ held[j] + visible[j] + (IF j \in door.anGon THEN 4 ELSE 0) <= 4
          /\ Unseen(j) = 4 - held[j] - visible[j] - (IF j \in door.anGon THEN 4 ELSE 0)
          /\ door.eat[j] + (IF thrown = j THEN 1 ELSE 0) <= visible[j]
          /\ j \in door.pon => visible[j] >= 3
          /\ held[j] \in 0..4 /\ visible[j] \in 0..4 /\ door.eat[j] \in 0..4
      BY TableCounts DEF Bag
    <3>3. door' = door /\ thrown' = k /\ held' = held /\ Unseen(k) > 0
      BY <1>1, <1>2
    <3> QED BY <3>1, <3>2, <3>3
  <2>2. drawn' = NoTile /\ deals' # 0 /\ thrown' # NoTile
    BY <1>1, <1>2, <1>4, TableParts, KindIs DEF TableKept
  <2>3. door' = [eat |-> door'.eat, pon |-> door'.pon, gon |-> door'.gon, anGon |-> door'.anGon]
    BY <1>1, TableParts DEF TableKept
  <2> PICK eaten : eaten = door'.eat
    OBVIOUS
  <2>4. eaten \in Bag /\ held' \in Bag
    BY <1>1, TableCounts
  <2>5. \A j \in Kinds :
           /\ held'[j] + visible'[j] + (IF j \in door'.anGon THEN 4 ELSE 0) <= 4
           /\ eaten[j] + (IF thrown' = j THEN 1 ELSE 0) <= visible'[j]
           /\ j \in door'.pon => visible'[j] >= 3
    BY <2>1
  <2> QED BY <1>6, <2>2, <2>3, <2>4, <2>5, TableKeptNext
<1>15. Agrees(q)'
  <2>1. drawn = NoTile /\ drawn' = NoTile
    BY <1>1, TableParts DEF TableKept
  <2>2. \A j \in Kinds : held'[j] = q.Hand[j] + missing'[j]
                           + (IF drawn' = j /\ phase' # "discard" THEN 1 ELSE 0)
    <3>1. \A j \in Kinds : held[j] = p.Hand[j] + missing[j]
                           + (IF drawn = j /\ phase # "discard" THEN 1 ELSE 0)
      BY <1>4 DEF Agrees
    <3>2. ASSUME NEW j \in Kinds
          PROVE  held'[j] = q.Hand[j] + missing'[j]
                              + (IF drawn' = j /\ phase' # "discard" THEN 1 ELSE 0)
      <4>1. j # NoTile /\ ~(drawn = j) /\ ~(drawn' = j)
        BY <2>1, KindIs
      <4>2. held[j] = p.Hand[j] + missing[j] + 0
        BY <3>1, <4>1
      <4>3. held'[j] = q.Hand[j] + missing'[j] + 0
        BY <1>1, <1>8, <4>2
      <4> QED BY <4>1, <4>3
    <3> QED BY <3>2
  <2>3. /\ q.discards = visible' /\ q.throwTile = thrown'
        /\ door' = [eat |-> q.eat, pon |-> q.pon, gon |-> q.gon, anGon |-> q.anGon]
    BY <1>1, <1>2, <1>4, <1>8 DEF Agrees
  <2> QED BY <2>1, <2>2, <2>3 DEF Agrees
<1>16. phase' # "lobby"
  BY <1>2
<1> QED BY <1>1, <1>8, <1>12, <1>13, <1>14, <1>15, <1>16, ServerKeeps

(* The bot draws.                                                          *)
LEMMA DrawsKeeps ==
  ASSUME Inv, ServerDraws
  PROVE  Inv' /\ WholeHand'
<1>1. /\ phase \in {"idle", "kong"} /\ thrown' = NoTile /\ replies' = replies
      /\ visible' = visible /\ door' = door /\ missing' = missing /\ deals' = deals
      /\ ServerUnchanged
  BY DEF ServerDraws
<1> PICK k \in Kinds :
       /\ Unseen(k) > 0
       /\ held' = Plus(held, k) /\ drawn' = k
       /\ LET can == OwnOptions(held') IN
          /\ phase' = IF can = {} THEN "discard" ELSE "options"
          /\ Announces(<<Event("draw", Me, NoCommand, k),
               IF can = {} THEN Event("throw", Me, NoCommand, NoTile)
                           ELSE Event("command", Me, can, NoTile)>>)
  BY DEF ServerDraws
<1> PICK can : can = OwnOptions(held')
  OBVIOUS
<1> PICK a : a = Event("draw", Me, NoCommand, k)
  OBVIOUS
<1> PICK b : b = IF can = {} THEN Event("throw", Me, NoCommand, NoTile)
                             ELSE Event("command", Me, can, NoTile)
  OBVIOUS
<1>2. /\ Unseen(k) > 0 /\ held' = Plus(held, k) /\ drawn' = k
      /\ phase' = (IF can = {} THEN "discard" ELSE "options")
      /\ events' = events \o <<a, b>>
  BY DEF Announces
<1> PICK p : p = InTheEnd
  OBVIOUS
<1>3. /\ Queue(player, events, p) /\ IsPlayer(p) /\ p.id = Me /\ Plain(events)
      /\ replies = <<>> /\ ~crashed /\ main = "loop"
  BY <1>1, FreeServer
<1>4. deals > 0 /\ deals # 0 /\ Agrees(p)
  BY <1>1, FreeServer, TurnsAreDealt
<1>5. drawn = NoTile
  BY <1>1, TableParts DEF TableKept
<1>6. ASSUME NEW j \in Kinds
      PROVE  /\ held[j] = p.Hand[j] + missing[j] /\ j # NoTile
             /\ held[j] \in 0..4 /\ p.Hand[j] \in 0..4 /\ missing[j] \in 0..4
             /\ visible[j] \in 0..4 /\ door.eat[j] \in 0..4
  <2>1. /\ held[j] \in 0..4 /\ p.Hand[j] \in 0..4 /\ missing[j] \in 0..4
        /\ visible[j] \in 0..4 /\ door.eat[j] \in 0..4
    BY <1>3, TableCounts, PlayerFields DEF Bag
  <2>2. held[j] = p.Hand[j] + missing[j] + (IF drawn = j /\ phase # "discard" THEN 1 ELSE 0)
    BY <1>4 DEF Agrees
  <2>3. j # NoTile /\ ~(drawn = j)
    BY <1>5, KindIs
  <2> QED BY <2>1, <2>2, <2>3
<1>7. held[k] < 4 /\ p.Hand[k] < 4
  <2>1. Unseen(k) = 4 - held[k] - visible[k] - (IF k \in door.anGon THEN 4 ELSE 0)
    BY TableCounts
  <2>2. /\ held[k] = p.Hand[k] + missing[k]
        /\ held[k] \in 0..4 /\ p.Hand[k] \in 0..4 /\ missing[k] \in 0..4
        /\ visible[k] \in 0..4 /\ door.eat[k] \in 0..4
    BY <1>6
  <2>3. Unseen(k) > 0
    BY <1>2
  <2> QED BY <2>1, <2>2, <2>3
<1>8. /\ held' \in Bag
      /\ held' = [j \in Kinds |-> IF j = k THEN held[j] + 1 ELSE held[j]]
  BY <1>2, <1>7, TableCounts, PutIs
<1> PICK r : r = Handled(p, a)
  OBVIOUS
<1>9. a.name = "draw" /\ a.tile = k
  BY EventIs
<1>10. /\ IsPlayer(r) /\ r.id = Me /\ r.Hand = p.Hand /\ r.discards = p.discards
       /\ r.eat = p.eat /\ r.pon = p.pon /\ r.gon = p.gon /\ r.anGon = p.anGon
       /\ r.drawTile = k /\ ~r.onlyThrow
  BY <1>3, <1>9, HandlesDraw
<1> PICK front : front = events \o <<a>>
  OBVIOUS
<1>11. Queue(player, front, r) /\ Plain(front) /\ IsSequence(front)
  <2>1. a.name \in PlainNames
    BY <1>9 DEF PlainNames, Names, Asking
  <2> QED BY <1>3, <1>10, <2>1, OneMore
<1>12. events' = front \o <<b>>
  <2>1. IsSequence(events)
    BY <1>3 DEF Queue
  <2>2. events \o <<a, b>> = (events \o <<a>>) \o <<b>>
    BY <2>1, TwoMore
  <2> QED BY <1>2, <2>2, Zenon
<1>13. main' = "loop" /\ ~crashed' /\ replies' = <<>>
  BY <1>1, <1>3, ServerLeaves
<1>14. TableTyped'
  <2>1. phase' \in {"options", "discard"} /\ k \in Kinds \cup {NoTile}
    BY <1>2
  <2> QED BY <1>1, <1>2, <1>8, <2>1, TableParts DEF TableTyped, Bag
<1>15. TableKept'
  <2> PICK eaten : eaten = door'.eat
    OBVIOUS
  <2>1. eaten \in Bag /\ visible' \in Bag
    BY <1>1, TableCounts
  <2>2. ASSUME NEW j \in Kinds
        PROVE  /\ held'[j] + visible'[j] + (IF j \in door'.anGon THEN 4 ELSE 0) <= 4
               /\ eaten[j] + (IF thrown' = j THEN 1 ELSE 0) <= visible'[j]
               /\ j \in door'.pon => visible'[j] >= 3
    <3>1. held'[j] = IF j = k THEN held[j] + 1 ELSE held[j]
      BY <1>8
    <3>2. /\ held[j] + visible[j] + (IF j \in door.anGon THEN 4 ELSE 0) <= 4
          /\ Unseen(j) = 4 - held[j] - visible[j] - (IF j \in door.anGon THEN 4 ELSE 0)
          /\ door.eat[j] + (IF thrown = j THEN 1 ELSE 0) <= visible[j]
          /\ j \in door.pon => visible[j] >= 3
      BY TableCounts
    <3>3. /\ door' = door /\ ~(thrown' = j) /\ visible' = visible /\ Unseen(k) > 0
          /\ eaten = door.eat
      BY <1>1, <1>2, <1>6
    <3>4. /\ held[j] = p.Hand[j] + missing[j]
          /\ held[j] \in 0..4 /\ p.Hand[j] \in 0..4 /\ missing[j] \in 0..4
          /\ visible[j] \in 0..4 /\ door.eat[j] \in 0..4
      BY <1>6
    <3> QED BY <3>1, <3>2, <3>3, <3>4
  <2>3. door' = [eat |-> door'.eat, pon |-> door'.pon, gon |-> door'.gon, anGon |-> door'.anGon]
    BY <1>1, TableParts DEF TableKept
  <2>4. drawn' # NoTile /\ deals' # 0 /\ phase' \notin {"idle", "kong"}
    BY <1>1, <1>2, <1>4, <1>6
  <2> QED BY <1>8, <2>1, <2>2, <2>3, <2>4, TableKeptNext
<1>16. /\ r.discards = visible'
       /\ door' = [eat |-> r.eat, pon |-> r.pon, gon |-> r.gon, anGon |-> r.anGon]
  BY <1>1, <1>4, <1>10 DEF Agrees
<1>w. WholeHand'
  <2> PICK bag : bag = held'
    OBVIOUS
  <2>1. ASSUME missing' = NoTiles PROVE ThrowsFrom(r) = bag
    <3>1. \A j \in Kinds : missing[j] = 0
      BY <1>1, <2>1 DEF NoTiles
    <3>2. ASSUME NEW j \in Kinds PROVE bag[j] = p.Hand[j] + (IF j = k THEN 1 ELSE 0)
      <4>1. /\ bag[j] = (IF j = k THEN held[j] + 1 ELSE held[j]) /\ missing[j] = 0
            /\ held[j] = p.Hand[j] + missing[j] /\ p.Hand[j] \in 0..4
        BY <1>6, <1>8, <3>1
      <4> QED BY <4>1
    <3>3. p.Hand \in Bag /\ bag \in Bag
      BY <1>3, <1>8, PlayerFields
    <3>4. Plus(p.Hand, k) = bag
      BY <3>2, <3>3, PlusOf
    <3> QED BY <1>10, <3>4 DEF ThrowsFrom
  <2> QED BY <1>1, <1>11, <1>12, <2>1, WholeNext
<1>17. CASE can = {}
  <2>1. phase' = "discard" /\ b.name = "throw"
    BY <1>2, <1>17, EventIs
  <2> PICK hand : hand = Put(p.Hand, k)
    OBVIOUS
  <2>2. hand \in Bag /\ hand = [j \in Kinds |-> IF j = k THEN p.Hand[j] + 1 ELSE p.Hand[j]]
    BY <1>3, <1>7, PlayerFields, PutIs
  <2> PICK q : q = Handled(r, b)
    OBVIOUS
  <2>3. hand = (IF r.onlyThrow THEN r.Hand ELSE Put(r.Hand, r.drawTile))
    BY <1>10
  <2>4. /\ IsPlayer(q) /\ q.id = r.id /\ q.Hand = hand /\ q.discards = r.discards
        /\ q.eat = r.eat /\ q.pon = r.pon /\ q.gon = r.gon /\ q.anGon = r.anGon
    BY <1>10, <2>1, <2>2, <2>3, HandlesThrow
  <2>5. Queue(player, events', q)
    BY <1>11, <1>12, <2>4, QueuePlus
  <2>6. TurnKept' /\ LobbyKept' /\ QueuesTyped'
    BY <1>11, <1>12, <1>13, <2>1, AskingTurn
  <2>7. Agrees(q)'
    <3>1. ASSUME NEW j \in Kinds
          PROVE  held'[j] = q.Hand[j] + missing'[j]
                              + (IF drawn' = j /\ phase' # "discard" THEN 1 ELSE 0)
      <4>1. /\ held'[j] = IF j = k THEN held[j] + 1 ELSE held[j]
            /\ q.Hand[j] = IF j = k THEN p.Hand[j] + 1 ELSE p.Hand[j]
            /\ missing'[j] = missing[j]
        <5>1. held'[j] = IF j = k THEN held[j] + 1 ELSE held[j]
          BY <1>8
        <5>2. q.Hand = hand
          BY <2>4
        <5>3. q.Hand[j] = IF j = k THEN p.Hand[j] + 1 ELSE p.Hand[j]
          BY <2>2, <5>2
        <5>4. missing'[j] = missing[j]
          BY <1>1
        <5> QED BY <5>1, <5>3, <5>4
      <4>2. /\ held[j] = p.Hand[j] + missing[j]
            /\ held[j] \in 0..4 /\ p.Hand[j] \in 0..4 /\ missing[j] \in 0..4
            /\ visible[j] \in 0..4 /\ door.eat[j] \in 0..4
        BY <1>6
      <4> QED BY <2>1, <4>1, <4>2
    <3> QED BY <1>1, <1>16, <2>1, <2>4, <3>1 DEF Agrees
  <2> QED BY <1>1, <1>10, <1>14, <1>15, <2>4, <2>5, <2>6, <2>7, <1>w, ServerKeeps
<1>18. CASE can # {}
  <2>1. phase' = "options" /\ b.name = "command" /\ b.what = can
    BY <1>2, <1>18, EventIs
  <2>2. Handled(r, b) = r
    BY <2>1, HandledOther
  <2>3. Queue(player, events', r)
    BY <1>10, <1>11, <1>12, <2>2, QueuePlus
  <2>4. Given(can)'
    <3>1. OwnOptions(held)' = can
      BY <1>1 DEF OwnOptions
    <3>2. drawn' # NoTile
      BY <1>2, <1>6
    <3> QED BY <1>18, <3>1, <3>2 DEF Given
  <2>5. Given(b.what)'
    <3> PICK c : c = b.what
      OBVIOUS
    <3>1. Given(c)'
      BY <2>1, <2>4
    <3> QED BY <3>1
  <2>6. TurnKept' /\ LobbyKept' /\ QueuesTyped'
    BY <1>11, <1>12, <1>13, <2>1, <2>5, AskingTurn
  <2>7. Agrees(r)'
    <3>1. ASSUME NEW j \in Kinds
          PROVE  held'[j] = r.Hand[j] + missing'[j]
                              + (IF drawn' = j /\ phase' # "discard" THEN 1 ELSE 0)
      <4>1. /\ held'[j] = IF j = k THEN held[j] + 1 ELSE held[j]
            /\ r.Hand[j] = p.Hand[j] /\ missing'[j] = missing[j] /\ drawn' = k
        BY <1>1, <1>2, <1>8, <1>10
      <4>2. /\ held[j] = p.Hand[j] + missing[j]
            /\ held[j] \in 0..4 /\ p.Hand[j] \in 0..4 /\ missing[j] \in 0..4
            /\ visible[j] \in 0..4 /\ door.eat[j] \in 0..4
        BY <1>6
      <4> QED BY <2>1, <4>1, <4>2
    <3>2. drawn' # NoTile => r.drawTile = drawn' /\ ~r.onlyThrow
      BY <1>2, <1>10
    <3> QED BY <1>1, <1>16, <2>1, <3>1, <3>2 DEF Agrees
  <2> QED BY <1>1, <1>10, <1>14, <1>15, <2>1, <2>3, <2>6, <2>7, <1>w, ServerKeeps
<1> QED BY <1>17, <1>18, <1>w

(* The tiles of a meld that come from the hand, and those that are shown.  *)
LEMMA FromHandIs ==
  ASSUME NEW e
  PROVE  /\ e.what = "EAT" => FromHand(e) = Each(Chow(e.tile[1]) \ {e.tile[2]})
         /\ e.what = "PON" => FromHand(e) = Several(e.tile, 2)
         /\ e.what = "GON" => FromHand(e) = Several(e.tile, 3)
         /\ e.what = "PONGON" => FromHand(e) = Several(e.tile, 1)
         /\ e.what = "ANGON" => FromHand(e) = Several(e.tile, 4)
         /\ e.what = "ANGON" => Shown(e) = NoTiles
         /\ e.what # "ANGON" => Shown(e) = FromHand(e)
BY DEF FromHand, Shown

(* Several equal tiles are a bag.                                          *)
LEMMA SeveralIs ==
  ASSUME NEW k, NEW n \in 0..4
  PROVE  /\ Several(k, n) \in Bag
         /\ \A j \in Kinds : Several(k, n)[j] = IF j = k THEN n ELSE 0
BY DEF Several, Bag

(* One tile of each of some kinds is a bag.                                *)
LEMMA EachIs ==
  ASSUME NEW ks
  PROVE  /\ Each(ks) \in Bag
         /\ \A j \in Kinds : Each(ks)[j] = IF j \in ks THEN 1 ELSE 0
BY DEF Each, Bag

(* Another player's claim.                                                 *)
LEMMA OtherClaimsKeeps ==
  ASSUME Inv, OtherClaims
  PROVE  Inv'
<1>1. /\ phase = "idle" /\ phase' = "idle" /\ thrown # NoTile /\ thrown' = NoTile
      /\ replies' = replies /\ held' = held /\ door' = door /\ drawn' = drawn
      /\ missing' = missing /\ deals' = deals /\ ServerUnchanged
  BY DEF OtherClaims
<1> PICK what \in {"EAT", "PON", "GON", "PONGON"}, first \in Kinds :
       LET e == Event("broadcastCommand", Other, what,
                      IF what = "EAT" THEN <<first, thrown>> ELSE first)
       IN /\ IF what = "EAT"
             THEN /\ Suited(first) /\ thrown \in Chow(first)
                  /\ \A j \in Chow(first) \ {thrown} : j \in Kinds /\ Unseen(j) > 0
             ELSE /\ what = "PONGON" \/ first = thrown
                  /\ Unseen(first) >= Shown(e)[first]
                  /\ first \notin door.pon /\ (what = "PONGON" => visible[first] = 3)
          /\ visible' = With(visible, Shown(e))
          /\ Announces(<<e>>)
  BY DEF OtherClaims
<1> PICK tile : tile = IF what = "EAT" THEN <<first, thrown>> ELSE first
  OBVIOUS
<1> PICK e : e = Event("broadcastCommand", Other, what, tile)
  OBVIOUS
<1> PICK shown : shown = Shown(e)
  OBVIOUS
<1>2. /\ what = "EAT" => \A j \in Chow(first) \ {thrown} : j \in Kinds /\ Unseen(j) > 0
      /\ what # "EAT" => Unseen(first) >= shown[first]
      /\ visible' = With(visible, shown) /\ events' = events \o <<e>>
  BY DEF Announces
<1>3. e.name = "broadcastCommand" /\ e.who = Other /\ e.what = what /\ e.tile = tile
  BY EventIs
<1>4. shown = FromHand(e)
  BY <1>3, FromHandIs
<1>5. shown \in Bag /\ \A j \in Kinds : Unseen(j) >= shown[j]
  <2>1. \A j \in Kinds : Unseen(j) >= 0 /\ Unseen(j) \in Int
    <3>1. \A j \in Kinds :
             /\ held[j] + visible[j] + (IF j \in door.anGon THEN 4 ELSE 0) <= 4
             /\ Unseen(j) = 4 - held[j] - visible[j] - (IF j \in door.anGon THEN 4 ELSE 0)
             /\ held[j] \in 0..4 /\ visible[j] \in 0..4
      BY TableCounts DEF Bag
    <3> QED BY <3>1
  <2>2. CASE what = "EAT"
    <3>1. tile[1] = first /\ tile[2] = thrown
      BY <2>2
    <3>2. shown = Each(Chow(first) \ {thrown})
      BY <1>3, <1>4, <2>2, <3>1, FromHandIs
    <3> PICK ks : ks = Chow(first) \ {thrown}
      OBVIOUS
    <3>3. shown \in Bag /\ \A j \in Kinds : shown[j] = IF j \in ks THEN 1 ELSE 0
      BY <3>2, EachIs
    <3> QED BY <1>2, <2>1, <2>2, <3>3
  <2>3. CASE what # "EAT"
    <3>1. PICK n \in 0..4 : shown = Several(first, n)
      <4>1. tile = first /\ e.what = what /\ e.tile = first
        BY <1>3, <2>3
      <4>2. \/ shown = Several(first, 2) \/ shown = Several(first, 3)
            \/ shown = Several(first, 1)
        BY <1>4, <2>3, <4>1, FromHandIs
      <4> QED BY <4>2
    <3>2. shown \in Bag /\ \A j \in Kinds : shown[j] = IF j = first THEN n ELSE 0
      BY <3>1, SeveralIs
    <3>3. Unseen(first) >= shown[first]
      BY <1>2, <2>3
    <3> QED BY <2>1, <3>2, <3>3
  <2> QED BY <2>2, <2>3
<1> PICK p : p = InTheEnd
  OBVIOUS
<1>6. /\ Queue(player, events, p) /\ IsPlayer(p) /\ p.id = Me /\ Plain(events)
      /\ replies = <<>> /\ ~crashed /\ main = "loop"
  BY <1>1, FreeServer
<1>7. deals > 0 /\ deals # 0 /\ Agrees(p)
  BY <1>1, FreeServer, TurnsAreDealt
<1>8. p.discards = visible /\ visible \in Bag
  BY <1>7, TableCounts DEF Agrees
<1>9. ASSUME NEW j \in Kinds
      PROVE  /\ held[j] + visible[j] + shown[j] + (IF j \in door.anGon THEN 4 ELSE 0) <= 4
             /\ held[j] \in 0..4 /\ visible[j] \in 0..4 /\ shown[j] \in 0..4
             /\ door.eat[j] \in 0..4 /\ door.eat[j] <= visible[j]
             /\ j \in door.pon => visible[j] >= 3
  <2>1. held[j] \in 0..4 /\ visible[j] \in 0..4 /\ shown[j] \in 0..4 /\ door.eat[j] \in 0..4
    BY <1>5, TableCounts DEF Bag
  <2>2. /\ Unseen(j) = 4 - held[j] - visible[j] - (IF j \in door.anGon THEN 4 ELSE 0)
        /\ door.eat[j] + (IF thrown = j THEN 1 ELSE 0) <= visible[j]
        /\ j \in door.pon => visible[j] >= 3
    BY TableCounts
  <2>3. Unseen(j) >= shown[j]
    BY <1>5
  <2> QED BY <2>1, <2>2, <2>3
<1>10. PutMany(visible, shown) = visible' /\ visible' \in Bag
  <2>1. \A j \in Kinds : visible[j] + shown[j] <= 4
    <3>1. ASSUME NEW j \in Kinds PROVE visible[j] + shown[j] <= 4
      BY <1>9
    <3> QED BY <3>1
  <2> QED BY <1>2, <1>5, <1>8, <2>1, PutManyIs
<1> PICK away : away = visible'
  OBVIOUS
<1> PICK q : q = Handled(p, e)
  OBVIOUS
<1>11. /\ IsPlayer(q) /\ q.id = Me /\ q.Hand = p.Hand /\ q.discards = away
       /\ q.eat = p.eat /\ q.pon = p.pon /\ q.gon = p.gon /\ q.anGon = p.anGon
  <2>1. away \in Bag /\ away = PutMany(p.discards, Shown(e))
    BY <1>8, <1>10
  <2>2. e.who # p.id
    BY <1>3, <1>6 DEF Me, Other
  <2> QED BY <1>3, <1>6, <2>1, <2>2, HandlesOtherClaim
<1>12. Queue(player, events', q) /\ Plain(events') /\ IsSequence(events')
  <2>1. e.name \in PlainNames
    BY <1>3 DEF PlainNames, Names, Asking
  <2> QED BY <1>2, <1>6, <1>11, <2>1, OneMore
<1>13. main' = "loop" /\ ~crashed' /\ replies' = <<>>
  BY <1>1, <1>6, ServerLeaves
<1>14. TurnKept' /\ LobbyKept' /\ QueuesTyped'
  BY <1>1, <1>12, <1>13, PlainTurn
<1>15. TableTyped'
  BY <1>1, <1>10, TableParts DEF TableTyped, Bag
<1>16. TableKept'
  <2> PICK eaten : eaten = door'.eat
    OBVIOUS
  <2>1. eaten \in Bag /\ held' \in Bag
    BY <1>1, TableCounts
  <2>2. ASSUME NEW j \in Kinds
        PROVE  /\ held'[j] + visible'[j] + (IF j \in door'.anGon THEN 4 ELSE 0) <= 4
               /\ eaten[j] + (IF thrown' = j THEN 1 ELSE 0) <= visible'[j]
               /\ j \in door'.pon => visible'[j] >= 3
    <3>1. visible'[j] = visible[j] + shown[j]
      BY <1>2 DEF With
    <3>2. door' = door /\ ~(thrown' = j) /\ held' = held /\ eaten = door.eat
      BY <1>1, KindIs
    <3> QED BY <1>9, <3>1, <3>2
  <2>3. door' = [eat |-> door'.eat, pon |-> door'.pon, gon |-> door'.gon, anGon |-> door'.anGon]
    BY <1>1, TableParts DEF TableKept
  <2>4. drawn' = NoTile /\ deals' # 0 /\ phase' = "idle"
    BY <1>1, <1>7, TableParts DEF TableKept
  <2> QED BY <1>10, <2>1, <2>2, <2>3, <2>4, TableKeptNext
<1>17. Agrees(q)'
  <2>1. \A j \in Kinds : held'[j] = q.Hand[j] + missing'[j]
                           + (IF drawn' = j /\ phase' # "discard" THEN 1 ELSE 0)
    BY <1>1, <1>7, <1>11 DEF Agrees
  <2>2. /\ q.discards = visible' /\ phase' = "idle" /\ thrown' = NoTile
        /\ door' = [eat |-> q.eat, pon |-> q.pon, gon |-> q.gon, anGon |-> q.anGon]
    BY <1>1, <1>7, <1>11 DEF Agrees
  <2> QED BY <2>1, <2>2 DEF Agrees
<1> QED BY <1>1, <1>11, <1>12, <1>14, <1>15, <1>16, <1>17, ServerKeeps

(* A claim that is granted.                                                *)
Only(p, e) == p.onlyThrow \/ e.what \in {"EAT", "PON"}
Gains(p, e, hand, away, chows, triplets, kongs, hidden, only) ==
  /\ hand = TakeMany(p.Hand, FromHand(e))
  /\ away = PutMany(p.discards, Shown(e))
  /\ chows = IF e.what = "EAT" THEN Plus(p.eat, Meld(e)) ELSE p.eat
  /\ triplets = IF e.what = "PON" THEN p.pon \cup {Meld(e)}
                ELSE IF e.what = "PONGON" THEN p.pon \ {Meld(e)} ELSE p.pon
  /\ kongs = IF e.what \in {"GON", "PONGON"} THEN p.gon \cup {Meld(e)} ELSE p.gon
  /\ hidden = IF e.what = "ANGON" THEN p.anGon \cup {Meld(e)} ELSE p.anGon
  /\ only = Only(p, e)
(* A granted claim changes exactly the hand, the open tiles and the melds  *)
(* named here.                                                             *)
LEMMA HandlesSuccess ==
  ASSUME NEW p, IsPlayer(p), NEW e, e.name = "success",
         NEW hand \in Bag, NEW away \in Bag, NEW chows \in Bag,
         NEW triplets, triplets \subseteq Kinds, NEW kongs, kongs \subseteq Kinds,
         NEW hidden, hidden \subseteq Kinds, NEW only \in BOOLEAN,
         Gains(p, e, hand, away, chows, triplets, kongs, hidden, only),
         NEW q, q = Handled(p, e)
  PROVE  /\ IsPlayer(q) /\ q.id = p.id /\ q.Hand = hand /\ q.discards = away
         /\ q.eat = chows /\ q.pon = triplets /\ q.gon = kongs /\ q.anGon = hidden
         /\ q.onlyThrow = only /\ q.throwTile = p.throwTile
<1>1. q = [p EXCEPT !.Hand = hand, !.discards = away, !.onlyThrow = only, !.eat = chows,
                    !.pon = triplets, !.gon = kongs, !.anGon = hidden]
  BY DEF Handled, Gains, Only
<1>2. p = PlayerWith(p.id, p.Hand, p.discards, p.eat, p.pon, p.gon, p.anGon,
               p.drawTile, p.throwTile, p.onlyThrow)
  BY PlayerMade
<1>3. q = PlayerWith(p.id, hand, away, chows, triplets, kongs, hidden,
               p.drawTile, p.throwTile, only)
  BY <1>1, <1>2 DEF PlayerWith
<1> PICK who \in {Me, Other} : who = p.id
  BY PlayerFields
<1> PICK tile \in Kinds \cup {NoTile} : tile = p.drawTile
  BY PlayerFields
<1> PICK last \in Kinds \cup {NoTile} : last = p.throwTile
  BY PlayerFields
<1>4. q = PlayerWith(who, hand, away, chows, triplets, kongs, hidden, tile, last, only)
  BY <1>3
<1>5. /\ IsPlayer(q) /\ q.id = who /\ q.Hand = hand /\ q.discards = away
      /\ q.eat = chows /\ q.pon = triplets /\ q.gon = kongs /\ q.anGon = hidden
      /\ q.drawTile = tile /\ q.throwTile = last /\ q.onlyThrow = only
  BY <1>4, PlayerOf
<1> QED BY <1>5

(* Taking from the hand and from what is missing of it, after what is gone *)
(* of both.                                                                *)
LEMMA StillMissingIs ==
  ASSUME NEW hand \in Bag, NEW lost \in [Kinds -> Nat], NEW less \in Bag, NEW after \in Bag,
         \A j \in Kinds : after[j] = hand[j] + lost[j] - less[j]
  PROVE  /\ StillMissing(lost, after) \in Bag
         /\ \A j \in Kinds : after[j] = TakeMany(hand, less)[j] + StillMissing(lost, after)[j]
<1>1. ASSUME NEW j \in Kinds
      PROVE  /\ StillMissing(lost, after)[j] \in 0..4
             /\ after[j] = TakeMany(hand, less)[j] + StillMissing(lost, after)[j]
  <2>1. hand[j] \in 0..4 /\ lost[j] \in Nat /\ less[j] \in 0..4 /\ after[j] \in 0..4
    BY DEF Bag
  <2>2. after[j] = hand[j] + lost[j] - less[j]
    OBVIOUS
  <2>3. StillMissing(lost, after)[j] = IF lost[j] <= after[j] THEN lost[j] ELSE after[j]
    BY <2>1, MinTwo DEF StillMissing
  <2>4. TakeMany(hand, less)[j] = IF hand[j] > less[j] THEN hand[j] - less[j] ELSE 0
    BY DEF TakeMany
  <2> QED BY <2>1, <2>2, <2>3, <2>4
<1>2. StillMissing(lost, after) = [j \in Kinds |-> StillMissing(lost, after)[j]]
  BY DEF StillMissing
<1> PICK rest : rest = StillMissing(lost, after)
  OBVIOUS
<1>3. rest = [j \in Kinds |-> rest[j]] /\ \A j \in Kinds : rest[j] \in 0..4
  BY <1>1, <1>2
<1>4. rest \in Bag
  BY <1>3 DEF Bag
<1> QED BY <1>1, <1>4

(* What an accepted claim of another player's tile takes from the hand.    *)
LEMMA ClaimTakes ==
  ASSUME Inv, phase = "options", NEW reply, Claims(reply), reply.what \in {"EAT", "PON"},
         NEW k, k = reply.tile, NEW e, e.what = reply.what,
         e.tile = (IF e.what = "EAT" THEN <<k, thrown>> ELSE k),
         NEW less, less = FromHand(e)
  PROVE  /\ drawn = NoTile /\ thrown \in Kinds /\ k \in Kinds /\ Meld(e) = k
         /\ Shown(e) = less /\ less \in Bag /\ \A j \in Kinds : less[j] <= held[j]
         /\ e.what = "PON" => k = thrown /\ less[k] = 2
         /\ e.what = "EAT" => door.eat[k] + 1 <= visible[k] + less[k] /\ door.eat[k] < 4
<1>1. drawn = NoTile /\ k \in Kinds /\ Acceptable(reply) /\ reply.name = "sendCommand"
  <2>1. Reply("sendCommand", reply.what, reply.tile).name = "sendCommand"
    BY ReplyIs
  <2> QED BY <2>1 DEF Claims
<1>2. thrown \in Kinds
  BY <1>1, TableParts DEF TableTyped, TableKept
<1>3. Shown(e) = less /\ Meld(e) = k
  <2>1. <<k, thrown>>[1] = k
    OBVIOUS
  <2> QED BY <2>1, FromHandIs DEF Meld
<1>4. CASE e.what = "PON"
  <2>1. k = thrown /\ held[k] >= 2
    BY <1>1, <1>4 DEF Acceptable
  <2>2. less = Several(k, 2)
    BY <1>4, FromHandIs
  <2>3. less \in Bag /\ \A j \in Kinds : less[j] = IF j = k THEN 2 ELSE 0
    BY <2>2, SeveralIs
  <2>4. \A j \in Kinds : held[j] \in 0..4
    BY TableCounts DEF Bag
  <2> QED BY <1>1, <1>2, <1>3, <1>4, <2>1, <2>3, <2>4
<1>5. CASE e.what = "EAT"
  <2>1. thrown \in Chow(k) /\ HasTiles(held, Chow(k) \ {thrown})
    BY <1>1, <1>5 DEF Acceptable
  <2> PICK ks : ks = Chow(k) \ {thrown}
    OBVIOUS
  <2>2. \A j \in ks : j \in Kinds /\ held[j] > 0
    BY <2>1 DEF HasTiles
  <2>3. less = Each(ks)
    <3>1. <<k, thrown>>[1] = k /\ <<k, thrown>>[2] = thrown
      OBVIOUS
    <3> QED BY <1>5, <3>1, FromHandIs
  <2>4. less \in Bag /\ \A j \in Kinds : less[j] = IF j \in ks THEN 1 ELSE 0
    BY <2>3, EachIs
  <2>5. \A j \in Kinds : held[j] \in 0..4 /\ visible[j] \in 0..4 /\ door.eat[j] \in 0..4
    BY TableCounts DEF Bag
  <2>6. \A j \in Kinds : less[j] <= held[j]
    BY <2>2, <2>4, <2>5
  <2>7. k \in Chow(k)
    <3>1. k = <<k[1], k[2] + 0>>
      <4>1. k = <<k[1], k[2]>> /\ k[2] \in 0..8
        BY <1>1, KindIs
      <4>2. k[2] + 0 = k[2]
        BY <4>1
      <4> QED BY <4>1, <4>2
    <3>2. <<k[1], k[2] + 0>> \in Chow(k)
      BY DEF Chow
    <3> QED BY <3>1, <3>2
  <2>8. k = thrown \/ k \in ks
    BY <2>7
  <2>9. /\ door.eat[k] + (IF thrown = k THEN 1 ELSE 0) <= visible[k]
        /\ held[k] + visible[k] + (IF k \in door.anGon THEN 4 ELSE 0) <= 4
    BY <1>1, TableCounts
  <2>10. /\ held[k] \in 0..4 /\ visible[k] \in 0..4 /\ door.eat[k] \in 0..4
         /\ less[k] = IF k \in ks THEN 1 ELSE 0
    BY <1>1, <2>4, <2>5
  <2>11. k \in ks => held[k] > 0
    BY <2>2
  <2>12. door.eat[k] + 1 <= visible[k] + less[k] /\ door.eat[k] < 4
    BY <2>8, <2>9, <2>10, <2>11
  <2> QED BY <1>1, <1>2, <1>3, <1>5, <2>4, <2>6, <2>12
<1> QED BY <1>4, <1>5

(* A claim of another player's tile is granted.                            *)
LEMMA GrantsKeeps ==
  ASSUME Inv, ServerGrants
  PROVE  Inv' /\ WholeHand'
<1> PICK reply : reply = Head(replies)
  OBVIOUS
<1> PICK k : k = reply.tile
  OBVIOUS
<1>t. PICK tile : tile = IF reply.what = "EAT" THEN <<k, thrown>> ELSE k
  OBVIOUS
<1>a. PICK a : a = Event("success", Me, reply.what, tile)
  OBVIOUS
<1>b. PICK b : b = Event("broadcastCommand", Me, reply.what, tile)
  OBVIOUS
<1>c. PICK c : c = Event("throw", Me, NoCommand, NoTile)
  OBVIOUS
<1>l. PICK less : less = FromHand(a)
  OBVIOUS
<1>1. Granted(reply) = <<a, b>> /\ Granted(reply)[1] = a
  BY <1>t, <1>a, <1>b DEF Granted
<1>2. /\ phase = "options" /\ replies # <<>> /\ replies' = Tail(replies)
      /\ reply.what \in {"EAT", "PON"} /\ held' = Without(held, less)
      /\ visible' = With(visible, Shown(a))
      /\ door' = (IF reply.what = "EAT" THEN [door EXCEPT !.eat = Plus(@, k)]
                                        ELSE [door EXCEPT !.pon = @ \cup {k}])
      /\ missing' = StillMissing(missing, held') /\ thrown' = NoTile /\ phase' = "discard"
      /\ events' = events \o Append(<<a, b>>, c)
      /\ drawn' = drawn /\ deals' = deals /\ ServerUnchanged
  BY <1>1, <1>c, <1>l DEF ServerGrants, Takes, Announces
<1>3. /\ a.name = "success" /\ a.who = Me /\ a.what = reply.what /\ a.tile = tile
      /\ b.name = "broadcastCommand" /\ b.who = Me /\ c.name = "throw"
  BY <1>a, <1>b, <1>c, EventIs
<1> PICK p : p = player
  OBVIOUS
<1>4. /\ Queue(p, <<>>, p) /\ IsPlayer(p) /\ p.id = Me /\ IsSequence(<<>>) /\ Plain(<<>>)
      /\ events = <<>> /\ Tail(replies) = <<>> /\ ~crashed /\ main = "loop"
      /\ Agrees(p) /\ deals > 0 /\ Claims(reply)
  BY <1>2, AnswerTaken
<1>5. /\ drawn = NoTile /\ thrown \in Kinds /\ k \in Kinds /\ Meld(a) = k
      /\ Shown(a) = less /\ less \in Bag /\ \A j \in Kinds : less[j] <= held[j]
      /\ a.what = "PON" => k = thrown /\ less[k] = 2
      /\ a.what = "EAT" => door.eat[k] + 1 <= visible[k] + less[k] /\ door.eat[k] < 4
  <2>1. a.tile = (IF a.what = "EAT" THEN <<k, thrown>> ELSE k)
    BY <1>3, <1>t
  <2> QED BY <1>2, <1>3, <1>4, <1>l, <2>1, ClaimTakes
<1>6. p.Hand \in Bag /\ p.discards = visible /\ p.eat = door.eat /\ p.pon = door.pon
      /\ p.gon = door.gon /\ p.anGon = door.anGon
      /\ door = [eat |-> p.eat, pon |-> p.pon, gon |-> p.gon, anGon |-> p.anGon]
  BY <1>4, PlayerFields DEF Agrees
<1>7. ASSUME NEW j \in Kinds
      PROVE  /\ held[j] = p.Hand[j] + missing[j] /\ less[j] <= held[j]
             /\ held[j] + visible[j] + (IF j \in door.anGon THEN 4 ELSE 0) <= 4
             /\ held[j] \in 0..4 /\ visible[j] \in 0..4 /\ less[j] \in 0..4
             /\ p.Hand[j] \in 0..4 /\ missing[j] \in 0..4 /\ door.eat[j] \in 0..4
             /\ door.eat[j] + (IF thrown = j THEN 1 ELSE 0) <= visible[j]
             /\ j \in door.pon => visible[j] >= 3
             /\ j # NoTile
  <2>1. /\ held[j] \in 0..4 /\ visible[j] \in 0..4 /\ less[j] \in 0..4
        /\ p.Hand[j] \in 0..4 /\ missing[j] \in 0..4 /\ door.eat[j] \in 0..4
    BY <1>5, <1>6, TableCounts DEF Bag
  <2>2. /\ held[j] + visible[j] + (IF j \in door.anGon THEN 4 ELSE 0) <= 4
        /\ door.eat[j] + (IF thrown = j THEN 1 ELSE 0) <= visible[j]
        /\ j \in door.pon => visible[j] >= 3
        /\ j # NoTile
    BY TableCounts
  <2>3. held[j] = p.Hand[j] + missing[j] + (IF drawn = j /\ phase # "discard" THEN 1 ELSE 0)
    BY <1>4 DEF Agrees
  <2>4. ~(drawn = j)
    BY <1>5, <2>2
  <2>5. held[j] = p.Hand[j] + missing[j]
    BY <2>1, <2>3, <2>4
  <2>6. less[j] <= held[j]
    BY <1>5
  <2> QED BY <2>1, <2>2, <2>5, <2>6
<1>8. held' \in Bag /\ \A j \in Kinds : held'[j] = held[j] - less[j]
  <2>1. \A j \in Kinds : held[j] - less[j] \in 0..4
    <3>1. ASSUME NEW j \in Kinds PROVE held[j] - less[j] \in 0..4
      BY <1>7
    <3> QED BY <3>1
  <2> QED BY <1>2, <2>1 DEF Without, Bag
<1>9. /\ visible' \in Bag /\ PutMany(visible, less) = visible'
      /\ \A j \in Kinds : visible'[j] = visible[j] + less[j]
  <2>1. \A j \in Kinds : visible[j] + less[j] <= 4
    <3>1. ASSUME NEW j \in Kinds PROVE visible[j] + less[j] <= 4
      BY <1>7
    <3> QED BY <3>1
  <2>2. visible \in Bag /\ visible' = With(visible, less)
    BY <1>2, <1>5, TableCounts
  <2>3. \A j \in Kinds : visible'[j] = visible[j] + less[j]
    BY <2>2 DEF With
  <2> QED BY <1>5, <2>1, <2>2, <2>3, PutManyIs
<1>h. PICK hand : hand = TakeMany(p.Hand, less)
  OBVIOUS
<1>m. PICK rest : rest = missing'
  OBVIOUS
<1>10. hand \in Bag /\ rest \in Bag /\ \A j \in Kinds : held'[j] = hand[j] + rest[j]
  <2> PICK after : after = held'
    OBVIOUS
  <2>1. \A j \in Kinds : after[j] = p.Hand[j] + missing[j] - less[j]
    <3>1. ASSUME NEW j \in Kinds PROVE after[j] = p.Hand[j] + missing[j] - less[j]
      BY <1>7, <1>8
    <3> QED BY <3>1
  <2>2. missing \in [Kinds -> Nat]
    BY TableCounts DEF Bag
  <2>3. after \in Bag
    BY <1>8
  <2>4. /\ StillMissing(missing, after) \in Bag
        /\ \A j \in Kinds : after[j] = hand[j] + StillMissing(missing, after)[j]
    BY <1>5, <1>6, <1>h, <2>1, <2>2, <2>3, StillMissingIs
  <2>5. rest = StillMissing(missing, after)
    BY <1>2, <1>m
  <2> QED BY <1>5, <1>6, <1>h, <2>4, <2>5, TakeManyIs
<1>e. PICK chows : chows = IF a.what = "EAT" THEN Plus(p.eat, Meld(a)) ELSE p.eat
  OBVIOUS
<1>11. /\ chows \in Bag
       /\ \A j \in Kinds : chows[j] = IF a.what = "EAT" /\ j = k THEN door.eat[j] + 1
                                                                ELSE door.eat[j]
  <2>1. p.eat \in Bag
    BY <1>4, PlayerFields
  <2>2. CASE a.what = "EAT"
    <3>1. p.eat[k] < 4 /\ chows = Plus(p.eat, k)
      BY <1>5, <1>6, <1>e, <2>2
    <3>2. chows \in Bag /\ chows = [j \in Kinds |-> IF j = k THEN p.eat[j] + 1 ELSE p.eat[j]]
      BY <1>5, <2>1, <3>1, PutIs
    <3> QED BY <1>6, <2>2, <3>2
  <2>3. CASE a.what # "EAT"
    BY <1>6, <1>e, <2>1, <2>3
  <2> QED BY <2>2, <2>3
<1>n. PICK triplets : triplets = IF a.what = "PON" THEN p.pon \cup {Meld(a)}
                               ELSE IF a.what = "PONGON" THEN p.pon \ {Meld(a)} ELSE p.pon
  OBVIOUS
<1>12. /\ triplets \subseteq Kinds
       /\ triplets = IF a.what = "PON" THEN door.pon \cup {k} ELSE door.pon
  <2>1. a.what # "PONGON" /\ p.pon \subseteq Kinds
    BY <1>2, <1>3, <1>4, PlayerFields
  <2> QED BY <1>5, <1>6, <1>n, <2>1
<1>o. PICK only \in BOOLEAN : only = Only(p, a)
  BY <1>4, PlayerFields DEF Only
<1>r. PICK r : r = Handled(p, a)
  OBVIOUS
<1>13. /\ IsPlayer(r) /\ r.id = Me /\ r.Hand = hand /\ r.discards = visible'
       /\ r.eat = chows /\ r.pon = triplets /\ r.gon = door.gon /\ r.anGon = door.anGon
       /\ r.onlyThrow = only
  <2> PICK away : away = visible'
    OBVIOUS
  <2>1. away \in Bag /\ away = PutMany(p.discards, Shown(a))
    BY <1>5, <1>6, <1>9
  <2>k. PICK kongs : kongs = IF a.what \in {"GON", "PONGON"} THEN p.gon \cup {Meld(a)} ELSE p.gon
    OBVIOUS
  <2>h. PICK hidden : hidden = IF a.what = "ANGON" THEN p.anGon \cup {Meld(a)} ELSE p.anGon
    OBVIOUS
  <2>2. /\ kongs = p.gon /\ hidden = p.anGon /\ kongs \subseteq Kinds /\ hidden \subseteq Kinds
    BY <1>2, <1>3, <1>4, <2>k, <2>h, PlayerFields
  <2>3. Gains(p, a, hand, away, chows, triplets, kongs, hidden, only)
    <3>1. hand = TakeMany(p.Hand, FromHand(a)) /\ only = Only(p, a)
      BY <1>h, <1>l, <1>o
    <3> QED BY <1>e, <1>n, <2>1, <2>k, <2>h, <3>1, Zenon DEF Gains
  <2>4. /\ IsPlayer(r) /\ r.id = p.id /\ r.Hand = hand /\ r.discards = away
        /\ r.eat = chows /\ r.pon = triplets /\ r.gon = kongs /\ r.anGon = hidden
        /\ r.onlyThrow = only
    BY <1>3, <1>4, <1>10, <1>11, <1>12, <1>r, <2>1, <2>2, <2>3, HandlesSuccess
  <2> QED BY <1>4, <1>6, <2>2, <2>4
<1>14. only
  BY <1>2, <1>3, <1>o DEF Only
<1>15. Handled(r, b) = r
  BY <1>3, <1>13, HandlesOwnClaim
<1>q. PICK q : q = Handled(r, c)
  OBVIOUS
<1>16. /\ IsPlayer(q) /\ q.id = Me /\ q.Hand = hand /\ q.discards = visible'
       /\ q.eat = chows /\ q.pon = triplets /\ q.gon = door.gon /\ q.anGon = door.anGon
  <2>1. hand = (IF r.onlyThrow THEN r.Hand ELSE Put(r.Hand, r.drawTile))
    BY <1>13, <1>14
  <2>2. /\ IsPlayer(q) /\ q.id = r.id /\ q.Hand = hand /\ q.discards = r.discards
        /\ q.eat = r.eat /\ q.pon = r.pon /\ q.gon = r.gon /\ q.anGon = r.anGon
    BY <1>3, <1>10, <1>13, <1>q, <2>1, HandlesThrow
  <2> QED BY <1>13, <2>2
<1>f. PICK front : front = (<<>> \o <<a>>) \o <<b>>
  OBVIOUS
<1>17. Queue(player, front, r) /\ Plain(front) /\ IsSequence(front)
  <2>1. a.name \in PlainNames /\ b.name \in PlainNames
    BY <1>3 DEF PlainNames, Names, Asking
  <2>2. Queue(player, <<>> \o <<a>>, r) /\ Plain(<<>> \o <<a>>)
    BY <1>4, <1>13, <1>r, <2>1, OneMore
  <2> QED BY <1>13, <1>15, <1>f, <2>1, <2>2, OneMore
<1>18. events' = front \o <<c>>
  <2>1. Append(<<a, b>>, c) = <<a, b, c>>
    <3>1. IsSequence(<<a, b>>)
      BY SequenceTuples
    <3>2. Append(<<a, b>>, c) = <<a, b>> \o <<c>>
      BY <3>1, SequenceAppend
    <3>3. <<a, b>> \o <<c>> = <<a, b, c>>
      BY ThreeAreJoined
    <3> QED BY <3>2, <3>3, Zenon
  <2>2. <<>> \o <<a, b, c>> = ((<<>> \o <<a>>) \o <<b>>) \o <<c>>
    BY <1>4, ThreeMore
  <2>3. events' = <<>> \o Append(<<a, b>>, c)
    BY <1>2, <1>4
  <2> QED BY <1>f, <2>1, <2>2, <2>3, Zenon
<1>19. Queue(player, events', q)
  BY <1>16, <1>17, <1>18, <1>q, QueuePlus
<1>20. main' = "loop" /\ ~crashed' /\ replies' = <<>>
  BY <1>2, <1>4, ServerLeaves
<1>21. TurnKept' /\ LobbyKept' /\ QueuesTyped'
  BY <1>2, <1>3, <1>17, <1>18, <1>20, AskingTurn
<1>22. /\ door' = [eat |-> chows, pon |-> triplets, gon |-> door.gon, anGon |-> door.anGon]
       /\ door'.eat = chows /\ door'.pon = triplets
       /\ door'.gon = door.gon /\ door'.anGon = door.anGon
  <2> PICK d : d = door
    OBVIOUS
  <2>1. d = [eat |-> p.eat, pon |-> p.pon, gon |-> p.gon, anGon |-> p.anGon]
    BY <1>6
  <2>2. CASE reply.what = "EAT"
    <3>1. door' = [d EXCEPT !.eat = Plus(d.eat, k)] /\ chows = Plus(d.eat, k)
      BY <1>2, <1>3, <1>5, <1>6, <1>e, <2>2
    <3>2. triplets = d.pon
      BY <1>3, <1>12, <2>2
    <3> QED BY <2>1, <3>1, <3>2
  <2>3. CASE reply.what = "PON"
    <3>1. door' = [d EXCEPT !.pon = d.pon \cup {k}] /\ triplets = d.pon \cup {k}
      BY <1>2, <1>3, <1>12, <2>3
    <3>2. chows = d.eat
      BY <1>3, <1>6, <1>e, <2>3
    <3> QED BY <2>1, <3>1, <3>2
  <2> QED BY <1>2, <2>2, <2>3
<1>23. TableTyped'
  BY <1>2, <1>8, <1>9, <1>10, <1>11, <1>12, <1>22, <1>m, TableParts DEF TableTyped, Bag
<1>24. TableKept'
  <2>1. ASSUME NEW j \in Kinds
        PROVE  /\ held'[j] + visible'[j] + (IF j \in door'.anGon THEN 4 ELSE 0) <= 4
               /\ chows[j] + (IF thrown' = j THEN 1 ELSE 0) <= visible'[j]
               /\ j \in door'.pon => visible'[j] >= 3
    <3>1. /\ held'[j] = held[j] - less[j] /\ visible'[j] = visible[j] + less[j]
          /\ chows[j] = IF a.what = "EAT" /\ j = k THEN door.eat[j] + 1 ELSE door.eat[j]
      BY <1>8, <1>9, <1>11
    <3>2. ~(thrown' = j) /\ door'.anGon = door.anGon
      BY <1>2, <1>7, <1>22
    <3>3. held'[j] + visible'[j] + (IF j \in door'.anGon THEN 4 ELSE 0) <= 4
      BY <1>7, <3>1, <3>2
    <3>4. chows[j] + (IF thrown' = j THEN 1 ELSE 0) <= visible'[j]
      <4>1. CASE a.what = "EAT" /\ j = k
        BY <1>5, <1>7, <3>1, <3>2, <4>1
      <4>2. CASE ~(a.what = "EAT" /\ j = k)
        BY <1>7, <3>1, <3>2, <4>2
      <4> QED BY <4>1, <4>2
    <3>5. j \in door'.pon => visible'[j] >= 3
      <4>1. CASE a.what = "PON" /\ j = k
        BY <1>5, <1>7, <3>1, <4>1
      <4>2. CASE ~(a.what = "PON" /\ j = k)
        <5>1. j \in door'.pon => j \in door.pon
          BY <1>12, <1>22, <4>2
        <5> QED BY <1>7, <3>1, <5>1
      <4> QED BY <4>1, <4>2
    <3> QED BY <3>3, <3>4, <3>5
  <2>2. door' = [eat |-> door'.eat, pon |-> door'.pon, gon |-> door'.gon, anGon |-> door'.anGon]
    BY <1>22
  <2>3. deals' # 0 /\ phase' = "discard"
    BY <1>2, TurnsAreDealt
  <2> QED BY <1>8, <1>9, <1>11, <1>22, <2>1, <2>2, <2>3, TableKeptNext
<1>25. Agrees(q)'
  <2>1. \A j \in Kinds : held'[j] = q.Hand[j] + missing'[j]
                           + (IF drawn' = j /\ phase' # "discard" THEN 1 ELSE 0)
    <3>1. ASSUME NEW j \in Kinds
          PROVE  held'[j] = q.Hand[j] + missing'[j]
                              + (IF drawn' = j /\ phase' # "discard" THEN 1 ELSE 0)
      <4>1. held'[j] = q.Hand[j] + missing'[j] /\ q.Hand[j] \in 0..4 /\ missing'[j] \in 0..4
        BY <1>10, <1>16, <1>m DEF Bag
      <4>2. phase' = "discard"
        BY <1>2
      <4> QED BY <4>1, <4>2
    <3> QED BY <3>1
  <2>2. /\ q.discards = visible' /\ phase' = "discard" /\ thrown' = NoTile
        /\ door' = [eat |-> q.eat, pon |-> q.pon, gon |-> q.gon, anGon |-> q.anGon]
    BY <1>2, <1>16, <1>22
  <2> QED BY <2>1, <2>2 DEF Agrees
<1>26. WholeHand'
  <2> PICK bag : bag = held'
    OBVIOUS
  <2>1. ASSUME missing' = NoTiles PROVE ThrowsFrom(r) = bag
    <3>1. \A j \in Kinds : rest[j] = 0
      BY <1>m, <2>1 DEF NoTiles
    <3>2. hand \in [Kinds -> Int] /\ bag \in [Kinds -> Int]
      BY <1>8, <1>10 DEF Bag
    <3>3. ASSUME NEW j \in Kinds PROVE hand[j] = bag[j]
      <4>1. bag[j] = hand[j] + rest[j] /\ rest[j] = 0 /\ hand[j] \in Int
        BY <1>10, <3>1, <3>2
      <4> QED BY <4>1
    <3>4. hand = bag
      BY <3>2, <3>3, SameBag
    <3> QED BY <1>13, <1>14, <3>4 DEF ThrowsFrom
  <2> QED BY <1>2, <1>17, <1>18, <2>1, WholeNext
<1> QED BY <1>2, <1>16, <1>19, <1>21, <1>23, <1>24, <1>25, <1>26, ServerKeeps

(* A kong takes all there is of its kind: nothing of it is missed, and the *)
(* drawn tile that was kept apart is missed if it is another.              *)
KongOf(hand, gone, bag, d, k, less, after, lost) ==
  /\ d \in Kinds /\ k \in Kinds /\ lost = IF k = d THEN gone ELSE Plus(gone, d)
  /\ hand \in Bag /\ gone \in Bag /\ bag \in Bag /\ less \in Bag /\ after \in Bag
  /\ \A j \in Kinds :
       /\ bag[j] = hand[j] + gone[j] + (IF d = j THEN 1 ELSE 0)
       /\ less[j] = IF j = k THEN bag[k] ELSE 0
       /\ after[j] = bag[j] - less[j]
(* What the bot still misses after a kong.                                 *)
LEMMA KongMisses ==
  ASSUME NEW hand, NEW gone, NEW bag, NEW d, NEW k, NEW less, NEW after, NEW lost,
         KongOf(hand, gone, bag, d, k, less, after, lost)
  PROVE  /\ StillMissing(lost, after) \in Bag
         /\ \A j \in Kinds : after[j] = TakeMany(hand, less)[j] + StillMissing(lost, after)[j]
<1>1. ASSUME NEW j \in Kinds
      PROVE  /\ StillMissing(lost, after)[j] \in 0..4
             /\ after[j] = TakeMany(hand, less)[j] + StillMissing(lost, after)[j]
  <2>1. /\ hand[j] \in 0..4 /\ gone[j] \in 0..4 /\ less[j] \in 0..4
        /\ after[j] \in 0..4 /\ bag[j] \in 0..4
    BY DEF Bag, KongOf
  <2>2. /\ bag[j] = hand[j] + gone[j] + (IF d = j THEN 1 ELSE 0)
        /\ less[j] = (IF j = k THEN bag[k] ELSE 0) /\ after[j] = bag[j] - less[j]
    BY DEF KongOf
  <2>3. lost[j] = IF k # d /\ j = d THEN gone[j] + 1 ELSE gone[j]
    <3>1. CASE k = d
      BY <3>1 DEF KongOf
    <3>2. CASE k # d
      <4>1. lost = [gone EXCEPT ![d] = gone[d] + 1] /\ d \in Kinds
        BY <3>2 DEF Plus, KongOf
      <4>2. DOMAIN gone = Kinds
        BY DEF Bag, KongOf
      <4> QED BY <3>2, <4>1, <4>2
    <3> QED BY <3>1, <3>2
  <2>4. lost[j] \in Nat
    BY <2>1, <2>3
  <2>5. StillMissing(lost, after)[j] = IF lost[j] <= after[j] THEN lost[j] ELSE after[j]
    <3>1. StillMissing(lost, after)[j] = Min({lost[j], after[j]})
      BY DEF StillMissing
    <3>2. lost[j] \in Nat /\ after[j] \in Nat
      BY <2>1, <2>4
    <3>3. Min({lost[j], after[j]}) = IF lost[j] <= after[j] THEN lost[j] ELSE after[j]
      BY <3>2, MinTwo
    <3> QED BY <3>1, <3>3
  <2>6. TakeMany(hand, less)[j] = IF hand[j] > less[j] THEN hand[j] - less[j] ELSE 0
    BY DEF TakeMany
  <2>7. CASE j = k
    BY <2>1, <2>2, <2>3, <2>5, <2>6, <2>7
  <2>8. CASE j # k
    BY <2>1, <2>2, <2>3, <2>5, <2>6, <2>8
  <2> QED BY <2>7, <2>8
<1>2. StillMissing(lost, after) = [j \in Kinds |-> StillMissing(lost, after)[j]]
  BY DEF StillMissing
<1> PICK rest : rest = StillMissing(lost, after)
  OBVIOUS
<1>3. rest = [j \in Kinds |-> rest[j]] /\ \A j \in Kinds : rest[j] \in 0..4
  BY <1>1, <1>2
<1>4. rest \in Bag
  BY <1>3 DEF Bag
<1> QED BY <1>1, <1>4

(* What an accepted kong takes from the hand.                              *)
LEMMA KongTakes ==
  ASSUME Inv, phase = "options", NEW reply, Claims(reply), reply.what \in {"ANGON", "PONGON"},
         NEW k, k = reply.tile, NEW e, e.what = reply.what, e.tile = k,
         NEW less, less = FromHand(e), NEW shown, shown = Shown(e)
  PROVE  /\ drawn \in Kinds /\ k \in Kinds /\ Meld(e) = k
         /\ less \in Bag /\ \A j \in Kinds : less[j] = IF j = k THEN held[k] ELSE 0
         /\ e.what = "ANGON" => held[k] = 4 /\ shown = NoTiles
         /\ e.what = "PONGON" => held[k] = 1 /\ shown = less /\ k \in door.pon
<1>1. drawn # NoTile /\ k \in Kinds /\ Acceptable(reply) /\ reply.name = "sendCommand"
  <2>1. Reply("sendCommand", reply.what, reply.tile).name = "sendCommand"
    BY ReplyIs
  <2> QED BY <2>1 DEF Claims
<1>2. drawn \in Kinds
  BY <1>1, TableParts DEF TableTyped
<1>3. Meld(e) = k
  BY DEF Meld
<1>4. CASE e.what = "ANGON"
  <2>1. held[k] = 4
    BY <1>1, <1>4 DEF Acceptable
  <2>2. less = Several(k, 4) /\ shown = NoTiles
    BY <1>4, FromHandIs
  <2>3. less \in Bag /\ \A j \in Kinds : less[j] = IF j = k THEN 4 ELSE 0
    BY <2>2, SeveralIs
  <2> QED BY <1>1, <1>2, <1>3, <1>4, <2>1, <2>2, <2>3
<1>5. CASE e.what = "PONGON"
  <2>1. held[k] = 1 /\ k \in door.pon
    BY <1>1, <1>5 DEF Acceptable
  <2>2. less = Several(k, 1) /\ shown = less
    BY <1>5, FromHandIs
  <2>3. less \in Bag /\ \A j \in Kinds : less[j] = IF j = k THEN 1 ELSE 0
    BY <2>2, SeveralIs
  <2> QED BY <1>1, <1>2, <1>3, <1>5, <2>1, <2>2, <2>3
<1> QED BY <1>4, <1>5

(* A kong of the bot's own is granted.                                     *)
LEMMA GrantsKongKeeps ==
  ASSUME Inv, ServerGrantsKong
  PROVE  Inv'
<1> PICK reply : reply = Head(replies)
  OBVIOUS
<1> PICK k : k = reply.tile
  OBVIOUS
<1>a. PICK a : a = Event("success", Me, reply.what, k)
  OBVIOUS
<1>b. PICK b : b = Event("broadcastCommand", Me, reply.what, k)
  OBVIOUS
<1>l. PICK less : less = FromHand(a)
  OBVIOUS
<1>s. PICK shown : shown = Shown(a)
  OBVIOUS
<1>g. PICK lost : lost = IF k = drawn THEN missing ELSE Plus(missing, drawn)
  OBVIOUS
<1>1. /\ phase = "options" /\ replies # <<>> /\ replies' = Tail(replies)
      /\ reply.what \in {"ANGON", "PONGON"}
  BY DEF ServerGrantsKong, Takes
<1>2. Granted(reply) = <<a, b>> /\ Granted(reply)[1] = a
  BY <1>1, <1>a, <1>b DEF Granted
<1>3. /\ held' = Without(held, less) /\ visible' = With(visible, shown)
      /\ door' = (IF reply.what = "ANGON" THEN [door EXCEPT !.anGon = @ \cup {k}]
                  ELSE [door EXCEPT !.pon = @ \ {k}, !.gon = @ \cup {k}])
      /\ missing' = StillMissing(lost, held') /\ drawn' = NoTile /\ phase' = "kong"
      /\ events' = events \o <<a, b>>
      /\ thrown' = thrown /\ deals' = deals /\ ServerUnchanged
  BY <1>2, <1>l, <1>s, <1>g DEF ServerGrantsKong, Announces
<1>4. /\ a.name = "success" /\ a.who = Me /\ a.what = reply.what /\ a.tile = k
      /\ b.name = "broadcastCommand" /\ b.who = Me
  BY <1>a, <1>b, EventIs
<1> PICK p : p = player
  OBVIOUS
<1>5. /\ Queue(p, <<>>, p) /\ IsPlayer(p) /\ p.id = Me /\ IsSequence(<<>>) /\ Plain(<<>>)
      /\ events = <<>> /\ Tail(replies) = <<>> /\ ~crashed /\ main = "loop"
      /\ Agrees(p) /\ deals > 0 /\ Claims(reply)
  BY <1>1, AnswerTaken
<1>6. /\ drawn \in Kinds /\ k \in Kinds /\ Meld(a) = k
      /\ less \in Bag /\ \A j \in Kinds : less[j] = IF j = k THEN held[k] ELSE 0
      /\ a.what = "ANGON" => held[k] = 4 /\ shown = NoTiles
      /\ a.what = "PONGON" => held[k] = 1 /\ shown = less /\ k \in door.pon
  BY <1>1, <1>4, <1>5, <1>l, <1>s, KongTakes
<1>7. /\ p.Hand \in Bag /\ p.discards = visible /\ p.eat = door.eat /\ p.pon = door.pon
      /\ p.gon = door.gon /\ p.anGon = door.anGon
      /\ door = [eat |-> p.eat, pon |-> p.pon, gon |-> p.gon, anGon |-> p.anGon]
      /\ thrown # NoTile => p.throwTile = thrown
  BY <1>5, PlayerFields DEF Agrees
<1>8. ASSUME NEW j \in Kinds
      PROVE  /\ held[j] = p.Hand[j] + missing[j] + (IF drawn = j THEN 1 ELSE 0)
             /\ held[j] + visible[j] + (IF j \in door.anGon THEN 4 ELSE 0) <= 4
             /\ held[j] \in 0..4 /\ visible[j] \in 0..4 /\ less[j] \in 0..4
             /\ p.Hand[j] \in 0..4 /\ missing[j] \in 0..4 /\ door.eat[j] \in 0..4
             /\ door.eat[j] + (IF thrown = j THEN 1 ELSE 0) <= visible[j]
             /\ j \in door.pon => visible[j] >= 3
             /\ less[j] = IF j = k THEN held[k] ELSE 0
  <2>1. /\ held[j] \in 0..4 /\ visible[j] \in 0..4 /\ less[j] \in 0..4
        /\ p.Hand[j] \in 0..4 /\ missing[j] \in 0..4 /\ door.eat[j] \in 0..4
    BY <1>6, <1>7, TableCounts DEF Bag
  <2>2. /\ held[j] + visible[j] + (IF j \in door.anGon THEN 4 ELSE 0) <= 4
        /\ door.eat[j] + (IF thrown = j THEN 1 ELSE 0) <= visible[j]
        /\ j \in door.pon => visible[j] >= 3
    BY TableCounts
  <2>3. held[j] = p.Hand[j] + missing[j] + (IF drawn = j THEN 1 ELSE 0)
    BY <1>1, <1>5 DEF Agrees
  <2>4. less[j] = IF j = k THEN held[k] ELSE 0
    BY <1>6
  <2> QED BY <2>1, <2>2, <2>3, <2>4
<1>9. held' \in Bag /\ \A j \in Kinds : held'[j] = held[j] - less[j]
  <2>1. \A j \in Kinds : held[j] - less[j] \in 0..4
    <3>1. ASSUME NEW j \in Kinds PROVE held[j] - less[j] \in 0..4
      <4>1. held[j] \in 0..4 /\ less[j] = IF j = k THEN held[k] ELSE 0
        BY <1>8
      <4> QED BY <4>1
    <3> QED BY <3>1
  <2> QED BY <1>3, <2>1 DEF Without, Bag
<1>10. /\ shown \in Bag
       /\ \A j \in Kinds : shown[j] = IF j = k /\ a.what = "PONGON" THEN 1 ELSE 0
  <2>1. CASE a.what = "ANGON"
    <3>1. shown = NoTiles
      BY <1>6, <2>1
    <3> QED BY <2>1, <3>1 DEF NoTiles, Bag
  <2>2. CASE a.what = "PONGON"
    <3>1. shown = less /\ held[k] = 1 /\ less \in Bag
      BY <1>6, <2>2
    <3>2. \A j \in Kinds : less[j] = IF j = k THEN held[k] ELSE 0
      BY <1>6
    <3> QED BY <2>2, <3>1, <3>2
  <2> QED BY <1>1, <1>4, <2>1, <2>2
<1>11. /\ visible' \in Bag /\ PutMany(visible, shown) = visible'
       /\ \A j \in Kinds : visible'[j] = visible[j] + shown[j]
  <2>1. \A j \in Kinds : visible[j] + shown[j] <= 4
    <3>1. ASSUME NEW j \in Kinds PROVE visible[j] + shown[j] <= 4
      <4>1. /\ held[j] + visible[j] + (IF j \in door.anGon THEN 4 ELSE 0) <= 4
            /\ held[j] \in 0..4 /\ visible[j] \in 0..4
        BY <1>8
      <4>2. shown[j] = IF j = k /\ a.what = "PONGON" THEN 1 ELSE 0
        BY <1>10
      <4>3. a.what = "PONGON" => held[k] = 1
        BY <1>6
      <4> QED BY <4>1, <4>2, <4>3
    <3> QED BY <3>1
  <2>2. visible \in Bag /\ visible' = With(visible, shown)
    BY <1>3, TableCounts
  <2>3. \A j \in Kinds : visible'[j] = visible[j] + shown[j]
    BY <2>2 DEF With
  <2> QED BY <1>10, <2>1, <2>2, <2>3, PutManyIs
<1>h. PICK hand : hand = TakeMany(p.Hand, less)
  OBVIOUS
<1>m. PICK rest : rest = missing'
  OBVIOUS
<1>12. hand \in Bag /\ rest \in Bag /\ \A j \in Kinds : held'[j] = hand[j] + rest[j]
  <2>a. PICK after : after = held'
    OBVIOUS
  <2>b. PICK bag : bag = held
    OBVIOUS
  <2>c. PICK gone : gone = missing
    OBVIOUS
  <2>d. PICK d \in Kinds : d = drawn
    BY <1>6
  <2>1. \A j \in Kinds : bag[j] = p.Hand[j] + gone[j] + (IF d = j THEN 1 ELSE 0)
    BY <1>8, <2>b, <2>c, <2>d
  <2>2. /\ \A j \in Kinds : after[j] = bag[j] - less[j]
        /\ \A j \in Kinds : less[j] = IF j = k THEN bag[k] ELSE 0
    BY <1>6, <1>9, <2>a, <2>b
  <2>3. after \in Bag /\ bag \in Bag /\ gone \in Bag
    BY <1>9, <2>a, <2>b, <2>c, TableCounts
  <2>4. lost = (IF k = d THEN gone ELSE Plus(gone, d))
    BY <1>g, <2>c, <2>d
  <2>5. /\ StillMissing(lost, after) \in Bag
        /\ \A j \in Kinds : after[j] = TakeMany(p.Hand, less)[j] + StillMissing(lost, after)[j]
    <3>1. KongOf(p.Hand, gone, bag, d, k, less, after, lost)
      BY <1>6, <1>7, <2>1, <2>2, <2>3, <2>4 DEF KongOf
    <3> QED BY <3>1, KongMisses
  <2>6. rest = StillMissing(lost, after) /\ hand \in Bag
    BY <1>3, <1>6, <1>7, <1>h, <1>m, <2>a, TakeManyIs
  <2> QED BY <1>h, <2>a, <2>5, <2>6
<1>n. PICK triplets : triplets = IF a.what = "PON" THEN p.pon \cup {Meld(a)}
                                 ELSE IF a.what = "PONGON" THEN p.pon \ {Meld(a)} ELSE p.pon
  OBVIOUS
<1>k. PICK kongs : kongs = IF a.what \in {"GON", "PONGON"} THEN p.gon \cup {Meld(a)} ELSE p.gon
  OBVIOUS
<1>i. PICK hidden : hidden = IF a.what = "ANGON" THEN p.anGon \cup {Meld(a)} ELSE p.anGon
  OBVIOUS
<1>13. /\ triplets \subseteq Kinds /\ kongs \subseteq Kinds /\ hidden \subseteq Kinds
       /\ a.what = "ANGON" => triplets = p.pon /\ kongs = p.gon /\ hidden = p.anGon \cup {k}
       /\ a.what = "PONGON" => triplets = p.pon \ {k} /\ kongs = p.gon \cup {k} /\ hidden = p.anGon
  <2>1. p.pon \subseteq Kinds /\ p.gon \subseteq Kinds /\ p.anGon \subseteq Kinds
    BY <1>5, PlayerFields
  <2>2. a.what = "ANGON" \/ a.what = "PONGON"
    BY <1>1, <1>4
  <2>3. CASE a.what = "ANGON"
    BY <1>6, <1>n, <1>k, <1>i, <2>1, <2>3
  <2>4. CASE a.what = "PONGON"
    BY <1>6, <1>n, <1>k, <1>i, <2>1, <2>4
  <2> QED BY <2>2, <2>3, <2>4
<1>o. PICK only \in BOOLEAN : only = Only(p, a)
  BY <1>5, PlayerFields DEF Only
<1>q. PICK q : q = Handled(p, a)
  OBVIOUS
<1>14. /\ IsPlayer(q) /\ q.id = Me /\ q.Hand = hand /\ q.discards = visible'
       /\ q.eat = door.eat /\ q.pon = triplets /\ q.gon = kongs /\ q.anGon = hidden
       /\ q.throwTile = p.throwTile
  <2> PICK away : away = visible'
    OBVIOUS
  <2>1. away \in Bag /\ away = PutMany(p.discards, Shown(a))
    BY <1>7, <1>11, <1>s
  <2>e. PICK chows : chows = IF a.what = "EAT" THEN Plus(p.eat, Meld(a)) ELSE p.eat
    OBVIOUS
  <2>2. chows = p.eat /\ chows \in Bag
    BY <1>1, <1>4, <1>5, <2>e, PlayerFields
  <2>3. Gains(p, a, hand, away, chows, triplets, kongs, hidden, only)
    <3>1. hand = TakeMany(p.Hand, FromHand(a)) /\ only = Only(p, a)
      BY <1>h, <1>l, <1>o
    <3> QED BY <1>n, <1>k, <1>i, <2>e, <2>1, <3>1, Zenon DEF Gains
  <2>4. /\ IsPlayer(q) /\ q.id = p.id /\ q.Hand = hand /\ q.discards = away
        /\ q.eat = chows /\ q.pon = triplets /\ q.gon = kongs /\ q.anGon = hidden
        /\ q.onlyThrow = only /\ q.throwTile = p.throwTile
    BY <1>4, <1>5, <1>12, <1>13, <1>q, <2>1, <2>2, <2>3, HandlesSuccess
  <2> QED BY <1>5, <1>7, <2>2, <2>4
<1>15. Handled(q, b) = q
  BY <1>4, <1>14, HandlesOwnClaim
<1>16. Queue(player, events', q) /\ Plain(events') /\ IsSequence(events')
  <2>1. a.name \in PlainNames /\ b.name \in PlainNames
    BY <1>4 DEF PlainNames, Names, Asking
  <2>2. Queue(player, <<>> \o <<a>>, q) /\ Plain(<<>> \o <<a>>)
    BY <1>5, <1>14, <1>q, <2>1, OneMore
  <2>f. PICK all : all = (<<>> \o <<a>>) \o <<b>>
    OBVIOUS
  <2>3. Queue(player, all, q) /\ Plain(all) /\ IsSequence(all)
    BY <1>14, <1>15, <2>f, <2>1, <2>2, OneMore
  <2>4. events' = all
    <3>1. <<>> \o <<a, b>> = (<<>> \o <<a>>) \o <<b>>
      BY <1>5, TwoMore
    <3>2. events' = <<>> \o <<a, b>>
      BY <1>3, <1>5
    <3> QED BY <2>f, <3>1, <3>2, Zenon
  <2> QED BY <2>3, <2>4
<1>17. main' = "loop" /\ ~crashed' /\ replies' = <<>>
  BY <1>1, <1>3, <1>5, ServerLeaves
<1>18. TurnKept' /\ LobbyKept' /\ QueuesTyped'
  BY <1>3, <1>16, <1>17, PlainTurn
<1>19. /\ door' = [eat |-> door.eat, pon |-> triplets, gon |-> kongs, anGon |-> hidden]
       /\ door'.eat = door.eat /\ door'.pon = triplets
       /\ door'.gon = kongs /\ door'.anGon = hidden
  <2> PICK d : d = door
    OBVIOUS
  <2>1. d = [eat |-> p.eat, pon |-> p.pon, gon |-> p.gon, anGon |-> p.anGon]
    BY <1>7
  <2>2. CASE reply.what = "ANGON"
    <3>1. door' = [d EXCEPT !.anGon = d.anGon \cup {k}]
      BY <1>3, <2>2
    <3>2. triplets = d.pon /\ kongs = d.gon /\ hidden = d.anGon \cup {k}
      BY <1>4, <1>7, <1>13, <2>2
    <3> QED BY <2>1, <3>1, <3>2
  <2>3. CASE reply.what = "PONGON"
    <3>1. door' = [d EXCEPT !.pon = d.pon \ {k}, !.gon = d.gon \cup {k}]
      BY <1>3, <2>3
    <3>2. triplets = d.pon \ {k} /\ kongs = d.gon \cup {k} /\ hidden = d.anGon
      BY <1>4, <1>7, <1>13, <2>3
    <3> QED BY <2>1, <3>1, <3>2
  <2> QED BY <1>1, <2>2, <2>3
<1>20. TableTyped'
  <2>1. door.eat \in Bag
    BY TableCounts
  <2> QED BY <1>3, <1>9, <1>11, <1>12, <1>13, <1>19, <1>m, <2>1, TableParts DEF TableTyped, Bag
<1>21. TableKept'
  <2> PICK eaten : eaten = door'.eat
    OBVIOUS
  <2>1. ASSUME NEW j \in Kinds
        PROVE  /\ held'[j] + visible'[j] + (IF j \in door'.anGon THEN 4 ELSE 0) <= 4
               /\ eaten[j] + (IF thrown' = j THEN 1 ELSE 0) <= visible'[j]
               /\ j \in door'.pon => visible'[j] >= 3
    <3>1. /\ held'[j] = held[j] - less[j] /\ visible'[j] = visible[j] + shown[j]
          /\ shown[j] = IF j = k /\ a.what = "PONGON" THEN 1 ELSE 0
      BY <1>9, <1>10, <1>11
    <3>2. thrown' = thrown /\ door'.anGon = hidden /\ door'.pon = triplets /\ eaten = door.eat
      BY <1>3, <1>19
    <3>3. /\ a.what = "ANGON" => triplets = door.pon /\ hidden = door.anGon \cup {k}
          /\ a.what = "PONGON" => triplets = door.pon \ {k} /\ hidden = door.anGon
          /\ a.what = "ANGON" => held[k] = 4
          /\ a.what = "PONGON" => held[k] = 1
      BY <1>6, <1>7, <1>13
    <3>4. /\ held[j] + visible[j] + (IF j \in door.anGon THEN 4 ELSE 0) <= 4
          /\ held[j] \in 0..4 /\ visible[j] \in 0..4 /\ door.eat[j] \in 0..4
          /\ door.eat[j] + (IF thrown = j THEN 1 ELSE 0) <= visible[j]
          /\ j \in door.pon => visible[j] >= 3
          /\ less[j] = IF j = k THEN held[k] ELSE 0
      BY <1>8
    <3>5. a.what = "ANGON" \/ a.what = "PONGON"
      BY <1>1, <1>4
    <3>6. held'[j] + visible'[j] + (IF j \in door'.anGon THEN 4 ELSE 0) <= 4
      <4>1. CASE j = k
        BY <3>1, <3>2, <3>3, <3>4, <3>5, <4>1
      <4>2. CASE j # k
        <5>1. j \in door'.anGon <=> j \in door.anGon
          BY <3>2, <3>3, <3>5, <4>2
        <5> QED BY <3>1, <3>4, <4>2, <5>1
      <4> QED BY <4>1, <4>2
    <3>7. eaten[j] + (IF thrown' = j THEN 1 ELSE 0) <= visible'[j]
      BY <3>1, <3>2, <3>4
    <3>8. j \in door'.pon => visible'[j] >= 3
      <4>1. j \in door'.pon => j \in door.pon
        BY <3>2, <3>3, <3>5
      <4> QED BY <3>1, <3>4, <4>1
    <3> QED BY <3>6, <3>7, <3>8
  <2>2. door' = [eat |-> door'.eat, pon |-> door'.pon, gon |-> door'.gon, anGon |-> door'.anGon]
    BY <1>19
  <2>3. deals' # 0 /\ phase' = "kong" /\ drawn' = NoTile
    BY <1>1, <1>3, TurnsAreDealt
  <2>4. eaten \in Bag
    BY <1>19, TableCounts
  <2> QED BY <1>9, <1>11, <2>1, <2>2, <2>3, <2>4, TableKeptNext
<1>22. Agrees(q)'
  <2>1. \A j \in Kinds : held'[j] = q.Hand[j] + missing'[j]
                           + (IF drawn' = j /\ phase' # "discard" THEN 1 ELSE 0)
    <3>1. ASSUME NEW j \in Kinds
          PROVE  held'[j] = q.Hand[j] + missing'[j]
                              + (IF drawn' = j /\ phase' # "discard" THEN 1 ELSE 0)
      <4>1. held'[j] = q.Hand[j] + missing'[j] /\ q.Hand[j] \in 0..4 /\ missing'[j] \in 0..4
        BY <1>12, <1>14, <1>m DEF Bag
      <4>2. ~(drawn' = j)
        BY <1>3, KindIs
      <4> QED BY <4>1, <4>2
    <3> QED BY <3>1
  <2>2. /\ q.discards = visible' /\ phase' = "kong"
        /\ thrown' # NoTile => q.throwTile = thrown'
        /\ door' = [eat |-> q.eat, pon |-> q.pon, gon |-> q.gon, anGon |-> q.anGon]
    BY <1>3, <1>7, <1>14, <1>19
  <2> QED BY <2>1, <2>2 DEF Agrees
<1> QED BY <1>3, <1>14, <1>16, <1>18, <1>20, <1>21, <1>22, ServerKeeps

-----------------------------------------------------------------------------
(* main(), and the whole.                                                  *)

(* What a step of main() has to show: it touches neither bot nor table.    *)
LEMMA MainKeeps ==
  ASSUME Inv, botVars' = botVars, events' = events, tableVars' = tableVars,
         FlagsTyped', TurnKept', LobbyKept', Len(replies') <= 2
  PROVE  Inv'
<1>1. player' = player /\ crashed' = crashed
  BY DEF botVars, idVars, playerVars, meldVars, tileVars, player
<1>2. /\ phase' = phase /\ held' = held /\ visible' = visible /\ door' = door
      /\ drawn' = drawn /\ thrown' = thrown /\ missing' = missing /\ deals' = deals
  BY DEF tableVars
<1>3. TableTyped' /\ TableKept'
  BY <1>2, TableParts DEF TableTyped, TableKept, Unseen
<1>4. QueuesTyped'
  BY TypeParts DEF Inv, QueuesTyped
<1>5. IsPlayer(player)'
  BY <1>1, TypeParts DEF Inv
<1>6. PlayerKept' /\ InTheEnd' = InTheEnd
  <2>1. PlayerKept
    BY DEF Inv, Support
  <2>2. Kept(player', events') <=> Kept(player, events)'
    BY DEF Kept, Handling
  <2>3. InTheEnd' = End(player', events')
    BY DEF InTheEnd, End, Handling
  <2> QED BY <1>1, <2>1, <2>2, <2>3 DEF PlayerKept, InTheEnd
<1>7. AgreesInTheEnd'
  <2>1. AgreesInTheEnd
    BY DEF Inv, Support
  <2> PICK p : p = InTheEnd
    OBVIOUS
  <2>2. phase # "lobby" => p.id = Me
    BY <2>1 DEF AgreesInTheEnd
  <2>3. deals > 0 /\ ~crashed => Agrees(p)
    BY <2>1 DEF AgreesInTheEnd
  <2>4. deals' > 0 /\ ~crashed' => (Agrees(InTheEnd))'
    <3> SUFFICES ASSUME deals' > 0 /\ ~crashed' PROVE (Agrees(InTheEnd))'
      OBVIOUS
    <3>1. Agrees(p)'
      BY <1>1, <1>2, <2>3 DEF Agrees
    <3> QED BY <3>1, <1>6 DEF Agrees
  <2> QED BY <1>2, <1>6, <2>2, <2>4 DEF AgreesInTheEnd
<1> QED BY <1>3, <1>4, <1>5, <1>6, <1>7, TypePartsNext DEF Inv, Support

(* Nothing changes but what main() knows of the connection.                *)
LEMMA ConnectionKeeps ==
  ASSUME Inv, main' = main, connect_finish' \in BOOLEAN, botVars' = botVars,
         events' = events, replies' = replies, tableVars' = tableVars
  PROVE  Inv'
<1>1. FlagsTyped'
  BY TableParts DEF FlagsTyped, botVars, idVars
<1>2. TurnKept'
  <2>1. TurnKept
    BY DEF Inv, Support
  <2>2. /\ phase' = phase /\ held' = held /\ door' = door /\ drawn' = drawn
        /\ thrown' = thrown /\ crashed' = crashed /\ Hand' = Hand
    BY DEF tableVars, botVars, playerVars
  <2>3. (Given(events[Len(events)].what))' <=> Given(events[Len(events)].what)
    BY <2>2 DEF Given, OwnOptions, Offers, CanEat
  <2>4. (Throws(Head(replies)))' <=> Throws(Head(replies))
    BY <2>2 DEF Throws
  <2>5. (Claims(Head(replies)))' <=> Claims(Head(replies))
    BY <2>2 DEF Claims, Acceptable
  <2>6. /\ Pending("throw")' <=> Pending("throw")
        /\ Pending("command")' <=> Pending("command")
        /\ Answered' <=> Answered
    BY <2>2 DEF Pending, Answered
  <2> QED BY <2>1, <2>2, <2>3, <2>4, <2>5, <2>6 DEF TurnKept
<1>3. LobbyKept'
  <2>1. LobbyKept
    BY DEF Inv, Support
  <2>2. phase' = phase /\ deals' = deals /\ crashed' = crashed
    BY DEF tableVars, botVars
  <2> QED BY <2>1, <2>2 DEF LobbyKept, Named
<1>4. Len(replies') <= 2
  BY TypeParts DEF Inv, QueuesTyped
<1> QED BY <1>1, <1>2, <1>3, <1>4, MainKeeps

(* The connection is reported, or nothing happens.                         *)
LEMMA ConnectedKeeps ==
  ASSUME Inv, OnConnected \/ UNCHANGED vars
  PROVE  Inv'
<1>1. main' = main /\ connect_finish' \in BOOLEAN
  BY TableParts DEF OnConnected, vars, startVars, FlagsTyped
<1>2. /\ botVars' = botVars /\ events' = events /\ replies' = replies
      /\ tableVars' = tableVars
  BY DEF OnConnected, vars
<1> QED BY <1>1, <1>2, ConnectionKeeps

(* Until main() has joined nothing is under way.                           *)
LEMMA BeforeTheLoop ==
  ASSUME Inv, main # "loop"
  PROVE  phase = "lobby" /\ events = <<>> /\ replies = <<>> /\ deals = 0 /\ ~crashed
<1>1. phase = "lobby"
  BY Zenon DEF Inv, Support, TurnKept
<1> QED BY <1>1, Zenon DEF Inv, Support, LobbyKept

(* main() waits for the connection and binds the listeners.                *)
LEMMA WaitsOrBindsKeeps ==
  ASSUME Inv, MainWaits \/ MainBinds
  PROVE  Inv'
<1>1. /\ main # "loop" /\ main' \in {"wait", "bound"} /\ connect_finish' = connect_finish
      /\ botVars' = botVars /\ events' = events
      /\ replies' = replies /\ tableVars' = tableVars
  BY DEF MainWaits, MainBinds
<1>2. phase = "lobby" /\ events = <<>> /\ replies = <<>> /\ deals = 0 /\ ~crashed
  BY <1>1, BeforeTheLoop
<1>3. phase' = "lobby" /\ events' = <<>> /\ replies' = <<>> /\ deals' = 0 /\ ~crashed'
  BY <1>1, <1>2 DEF tableVars, botVars
<1>4. FlagsTyped'
  BY <1>1, TableParts DEF FlagsTyped, botVars, idVars
<1>5. TurnKept' /\ LobbyKept' /\ Len(replies') <= 2
  <2>1. TurnKept'
    BY <1>3 DEF TurnKept
  <2>2. main' # "loop"
    BY <1>1
  <2>3. LobbyKept'
    BY <1>3, <2>2, Zenon DEF LobbyKept
  <2>4. Len(replies') <= 2
    BY <1>3
  <2> QED BY <2>1, <2>3, <2>4
<1> QED BY <1>1, <1>4, <1>5, MainKeeps

(* main() joins, and goes into its loop.                                   *)
LEMMA MainJoinsKeeps ==
  ASSUME Inv, MainJoins
  PROVE  Inv'
<1> PICK a : a = Reply("join", NoCommand, NoTile)
  OBVIOUS
<1>1. /\ main = "bound" /\ main' = "loop" /\ connect_finish' = connect_finish
      /\ botVars' = botVars /\ events' = events
      /\ replies' = Append(replies, a) /\ tableVars' = tableVars
  BY DEF MainJoins
<1>2. phase = "lobby" /\ events = <<>> /\ replies = <<>> /\ deals = 0 /\ ~crashed
  BY <1>1, BeforeTheLoop
<1>3. phase' = "lobby" /\ events' = <<>> /\ deals' = 0 /\ ~crashed'
  BY <1>1, <1>2 DEF tableVars, botVars
<1>4. replies' = <<a>> /\ IsSequence(replies') /\ Len(replies') = 1 /\ replies'[1] = a
  <2>1. /\ IsSequence(<<a>>) /\ Append(<<>>, a) = <<>> \o <<a>>
        /\ Len(Append(<<>>, a)) = Len(<<>>) + 1 /\ Append(<<>>, a)[Len(<<>>) + 1] = a
    BY SequenceEmpty, SequenceAppend, Zenon
  <2>2. <<>> \o <<a>> = <<a>>
    BY <2>1, SequenceShape, Zenon
  <2>3. Len(<<>>) = 0
    OBVIOUS
  <2>4. Append(<<>>, a) = <<a>>
    BY <2>1, <2>2, Zenon
  <2>5. Len(<<a>>) = 1 /\ <<a>>[1] = a
    BY <2>1, <2>3, <2>4
  <2> QED BY <1>1, <1>2, <2>1, <2>4, <2>5, Zenon
<1>5. FlagsTyped'
  BY <1>1, TableParts DEF FlagsTyped, botVars, idVars
<1>6. LobbyKept'
  <2>1. (Named(replies, <<"join">>))'
    BY <1>4, ReplyIs DEF Named
  <2> QED BY <1>1, <1>3, <2>1, Zenon DEF LobbyKept
<1>7. TurnKept' /\ Len(replies') <= 2
  BY <1>3, <1>4 DEF TurnKept
<1> QED BY <1>1, <1>5, <1>6, <1>7, MainKeeps

-----------------------------------------------------------------------------
(* The inductive invariant.                                                *)

(* At the start nothing is held, seen or under way.                        *)
LEMMA InitInv == Init => Inv
<1> SUFFICES ASSUME Init PROVE Inv
  OBVIOUS
<1>1. NoTiles \in Bag /\ \A k \in Kinds : NoTiles[k] = 0
  BY DEF NoTiles, Bag
<1>2. /\ id \in {Me, Other} /\ Hand \in Bag /\ discards \in Bag /\ eat \in Bag
      /\ pon = {} /\ gon = {} /\ anGon = {}
      /\ drawTile = NoTile /\ throwTile = NoTile /\ onlyThrow = FALSE
  BY <1>1 DEF Init
<1>3. IsPlayer(player)
  BY <1>2 DEF IsPlayer, player, Bag
<1>4. FlagsTyped
  BY DEF Init, FlagsTyped
<1>5. TableTyped
  BY <1>1, TableAssumption DEF Init, TableTyped, NoDoor, Bag
<1>6. events = <<>> /\ replies = <<>> /\ phase = "lobby" /\ main = "start"
      /\ deals = 0 /\ ~crashed
  BY DEF Init
<1>7. DOMAIN events = {} /\ Len(replies) = 0
  BY <1>6
<1>8. QueuesTyped
  BY <1>7 DEF QueuesTyped
<1>9. PlayerKept
  BY <1>3, <1>6, HandledNone, SequenceEmpty DEF PlayerKept
<1>10. AgreesInTheEnd
  BY <1>6 DEF AgreesInTheEnd
<1>11. TableKept
  <2>1. ASSUME NEW k \in Kinds
        PROVE  /\ Unseen(k) >= 0
               /\ door.eat[k] + (IF thrown = k THEN 1 ELSE 0) <= visible[k]
               /\ k \in door.pon => visible[k] >= 3
    <3>1. held[k] = 0 /\ visible[k] = 0 /\ thrown # k /\ door.eat[k] = 0
          /\ k \notin door.pon /\ k \notin door.anGon
      BY <1>1, KindIs DEF Init, NoDoor
    <3> QED BY <3>1 DEF Unseen
  <2>2. door = [eat |-> door.eat, pon |-> door.pon, gon |-> door.gon, anGon |-> door.anGon]
    BY DEF Init, NoDoor
  <2> QED BY <1>6, <2>1, <2>2 DEF TableKept
<1>12. TurnKept /\ LobbyKept
  BY <1>6 DEF TurnKept, LobbyKept
<1> QED BY <1>3, <1>4, <1>5, <1>8, <1>9, <1>10, <1>11, <1>12, TypeParts DEF Inv, Support

(* Every step keeps it: the listeners,                                     *)
LEMMA ListenersKeep ==
  ASSUME Inv, Listeners
  PROVE  Inv'
<1>1. CASE OnJoinAck
  BY <1>1, JoinAckKeeps
<1>2. CASE OnReadyToStart
  BY <1>2, ReadyToStartKeeps
<1>3. CASE OnReadyAck
  BY <1>3, ReadyAckKeeps
<1>4. CASE OnDealTile
  BY <1>4, DealTileKeeps
<1>5. CASE OnDraw
  BY <1>5, DrawKeeps
<1>6. CASE OnThrow
  BY <1>6, ThrowKeeps
<1>7. CASE OnBroadcastThrow
  BY <1>7, BroadcastThrowKeeps
<1>8. CASE OnCommand
  BY <1>8, CommandKeeps
<1>9. CASE OnSuccess
  BY <1>9, SuccessKeeps
<1>10. CASE OnBroadcastCommand
  BY <1>10, BroadcastCommandKeeps
<1> QED BY <1>1, <1>2, <1>3, <1>4, <1>5, <1>6, <1>7, <1>8, <1>9, <1>10 DEF Listeners

(* the server and the other players,                                       *)
LEMMA ServerKeepsAll ==
  ASSUME Inv, Server
  PROVE  Inv'
<1>1. CASE ServerJoins
  BY <1>1, JoinsKeeps
<1>2. CASE ServerAuthenticates
  BY <1>2, AuthenticatesKeeps
<1>3. CASE ServerStarts
  BY <1>3, StartsKeeps
<1>4. CASE ServerDeals
  BY <1>4, DealsKeeps
<1>5. CASE ServerDraws
  BY <1>5, DrawsKeeps
<1>6. CASE ServerTakesThrow
  BY <1>6, TakesThrowKeeps
<1>7. CASE OtherThrows
  BY <1>7, OtherThrowsKeeps
<1>8. CASE ServerTakesNone
  BY <1>8, TakesNoneKeeps
<1>9. CASE ServerTakesWin
  BY <1>9, TakesWinKeeps
<1>10. CASE Refused
  BY <1>10, RefusedKeeps
<1>11. CASE ServerGrants
  BY <1>11, GrantsKeeps
<1>12. CASE ServerGrantsKong
  BY <1>12, GrantsKongKeeps
<1>13. CASE OtherClaims
  BY <1>13, OtherClaimsKeeps
<1>14. CASE ServerEnds
  BY <1>14, EndsKeeps
<1> QED BY <1>1, <1>2, <1>3, <1>4, <1>5, <1>6, <1>7, <1>8, <1>9, <1>10, <1>11, <1>12,
           <1>13, <1>14 DEF Server

(* and main().                                                             *)
LEMMA NextInv == Inv /\ [Next]_vars => Inv'
<1> SUFFICES ASSUME Inv, [Next]_vars PROVE Inv'
  OBVIOUS
<1>1. CASE OnConnected \/ UNCHANGED vars
  BY <1>1, ConnectedKeeps
<1>2. CASE MainWaits \/ MainBinds
  BY <1>2, WaitsOrBindsKeeps
<1>3. CASE MainJoins
  BY <1>3, MainJoinsKeeps
<1>4. CASE Listeners
  BY <1>4, ListenersKeep
<1>5. CASE Server
  BY <1>5, ServerKeepsAll
<1> QED BY <1>1, <1>2, <1>3, <1>4, <1>5 DEF Next

(* Types and support always hold: one inductive invariant for what the bot *)
(* believes, what is under way and what the server knows.                  *)
THEOREM Invariance == Spec => []Inv
<1>1. Init => Inv
  BY InitInv
<1>2. Inv /\ [Next]_vars => Inv'
  BY NextInv
<1> QED BY <1>1, <1>2, PTL DEF Spec

(* Once it has handled the events under way the bot agrees with the server *)
(* about hand, open tiles, melds, drawn and thrown tile; at most one       *)
(* question is open, it is the last event, and its answer can be accepted. *)
THEOREM Supported == Spec => []Support
<1>1. Inv => Support
  BY DEF Inv
<1> QED BY <1>1, Invariance, PTL

(* No count of tiles leaves 0..4, every field of the bot has its type and  *)
(* at most two replies are under way.                                      *)
THEOREM TypesOK == Spec => []TypeOK
<1>1. Inv => TypeOK
  BY DEF Inv
<1> QED BY <1>1, Invariance, PTL

(* A settled bot has nothing left to handle.                               *)
LEMMA SettledAgrees ==
  ASSUME Inv, deals > 0, events = <<>>, ~crashed
  PROVE  /\ discards = visible
         /\ door = [eat |-> eat, pon |-> pon, gon |-> gon, anGon |-> anGon]
         /\ \A k \in Kinds :
              held[k] = Hand[k] + missing[k]
                          + (IF drawn = k /\ phase # "discard" THEN 1 ELSE 0)
<1>1. InTheEnd = player
  BY HandledNone DEF InTheEnd
<1>2. Agrees(player)
  BY <1>1 DEF Inv, Support, AgreesInTheEnd
<1>3. /\ player.Hand = Hand /\ player.discards = discards /\ player.eat = eat
      /\ player.pon = pon /\ player.gon = gon /\ player.anGon = anGon
  BY DEF player
<1> QED BY <1>2, <1>3 DEF Agrees

(* Whatever was drawn, thrown, claimed and melded, a settled bot's Hand is *)
(* what the server says it holds, but for the tile just drawn and those    *)
(* that were drawn before a kong of other tiles (main.cpp puts the drawn   *)
(* tile into Hand only when it throws).                                    *)
THEOREM KnowsHand == Spec => []HandAgrees
<1>1. Inv => HandAgrees
  BY SettledAgrees DEF HandAgrees, Settled
<1> QED BY <1>1, Invariance, PTL

(* The tiles that the search takes for gone are those that lie open, those *)
(* of the bot's own claims counted once although they are announced twice. *)
THEOREM KnowsDiscards == Spec => []DiscardsAgree
<1>1. Inv => DiscardsAgree
  BY SettledAgrees DEF DiscardsAgree, Settled
<1> QED BY <1>1, Invariance, PTL

(* The bot's chows, triplets and kongs are those the server granted.       *)
THEOREM KnowsMelds == Spec => []MeldsAgree
<1>1. Inv => MeldsAgree
  BY SettledAgrees DEF MeldsAgree, Settled
<1> QED BY <1>1, Invariance, PTL

(* Every answer is one of two that the turn or the lobby waits for.        *)
LEMMA AllAcceptable ==
  ASSUME Inv
  PROVE  AnswersAcceptable
<1> SUFFICES ASSUME NEW i \in DOMAIN replies PROVE Acceptable(replies[i])
  BY DEF AnswersAcceptable
<1>1. replies # <<>>
  OBVIOUS
<1>2. CASE phase = "lobby"
  <2>1. replies[i].name \in {"join", "auth", "ready"}
    <3>1. \/ Named(replies, <<"join">>) \/ Named(replies, <<"auth", "ready">>)
          \/ Named(replies, <<"ready">>)
      BY <1>1, <1>2, Zenon DEF Inv, Support, LobbyKept
    <3>2. ASSUME NEW names \in {<<"join">>, <<"auth", "ready">>, <<"ready">>},
                 Named(replies, names)
          PROVE  i \in DOMAIN names /\ replies[i].name = names[i]
      <4>1. DOMAIN replies = 1..Len(replies) /\ DOMAIN names = 1..Len(names)
            /\ Len(replies) = Len(names)
        BY <3>2, SequenceShape DEF Named
      <4> QED BY <3>2, <4>1 DEF Named
    <3> QED BY <3>1, <3>2
  <2> QED BY <2>1 DEF Acceptable
<1>3. CASE phase # "lobby"
  <2>1. \/ phase = "discard" /\ Answered /\ Throws(Head(replies))
        \/ phase = "options" /\ Answered /\ Claims(Head(replies))
    BY <1>1, <1>3, Zenon DEF Inv, Support, TurnKept, Pending
  <2>2. replies[i] = Head(replies)
    <3>1. replies = <<Head(replies)>>
      BY <2>1 DEF Answered
    <3> QED BY <3>1
  <2>3. CASE Claims(Head(replies))
    BY <2>2, <2>3 DEF Claims
  <2>4. CASE phase = "discard" /\ Answered /\ Throws(Head(replies))
    <3> PICK a : a = Head(replies)
      OBVIOUS
    <3>1. /\ a.name = "throwTile" /\ a.tile \in Kinds /\ Hand[a.tile] > 0
          /\ events = <<>> /\ ~crashed
      BY <2>4, ReplyIs DEF Throws, Answered
    <3>2. deals > 0
      BY <2>4, TurnsAreDealt
    <3>3. held[a.tile] = Hand[a.tile] + missing[a.tile]
                           + (IF drawn = a.tile /\ phase # "discard" THEN 1 ELSE 0)
      BY <3>1, <3>2, SettledAgrees
    <3>4. Hand[a.tile] \in 0..4 /\ missing[a.tile] \in 0..4
      BY <3>1, TypeParts DEF Inv, TableTyped, IsPlayer, player
    <3>5. held[a.tile] > 0
      BY <2>4, <3>1, <3>3, <3>4
    <3> QED BY <2>2, <2>4, <3>1, <3>5 DEF Acceptable
  <2> QED BY <2>1, <2>3, <2>4
<1> QED BY <1>2, <1>3

(* The server can accept every answer: the bot has the tile that Throw     *)
(* chooses, and those of the meld or kong that it names.                   *)
THEOREM AnswersAccepted == Spec => []AnswersAcceptable
<1>1. Inv => AnswersAcceptable
  BY AllAcceptable
<1> QED BY <1>1, Invariance, PTL

-----------------------------------------------------------------------------
(* A throw finds a tile as long as none is lost.                           *)

(* Bags of either module.                                                  *)
LEMMA SameBags == Bag = Bags
BY DEF Bag, Bags

(* What has to hold in the next state, part by part.                       *)
LEMMA ThrowPartsNext ==
  /\ SizeKept' <=>
       (phase' \notin {"lobby", "over"} =>
          /\ Total(held') % 3 = (IF phase' = "discard" \/ drawn' # NoTile THEN 2 ELSE 1)
          /\ Total(held') <= HandSize + (IF phase' = "discard" \/ drawn' # NoTile THEN 1 ELSE 0))
  /\ WinsKept' <=>
       /\ phase' = "options" /\ Pending("command")' /\ drawn' = NoTile
            /\ Complete(Plus(held', thrown')) => "HU" \in events'[Len(events')].what
       /\ phase' = "options" /\ Answered' /\ Head(replies').what \notin {"HU", "ZIMO"} =>
            ~Complete(IF drawn' = NoTile THEN Plus(held', thrown') ELSE held')
       /\ phase' = "discard" => StepToHu[held'] # 0
  /\ WholeHand' <=>
       (phase' = "discard" /\ Pending("throw")' /\ missing' = NoTiles =>
          ThrowsFrom(Asked(player', events')) = held')
<1>1. (ThrowsFrom(Asked(player, events)))' = ThrowsFrom(Asked(player', events'))
  BY DEF ThrowsFrom, Asked, Handling
<1>2. (Total(held))' = Total(held')
  BY DEF Total, OneByOne
<1> QED BY <1>1, <1>2 DEF SizeKept, WinsKept, WholeHand, ToThrow

(* Where nothing is asked the hand need not be more than counted, and      *)
(* between deals not even that.                                            *)
LEMMA NothingAsked ==
  ASSUME phase' \notin {"options", "discard"}, SizeKept'
  PROVE  ThrowKept'
BY ThrowPartsNext DEF ThrowKept

(* Between the deals no part of ThrowKept asks anything.                   *)
LEMMA NoTurn ==
  ASSUME phase' \in {"lobby", "over"}
  PROVE  ThrowKept'
BY ThrowPartsNext DEF ThrowKept

(* The question that arrives comes alone, and the bot is as it was asked.  *)
LEMMA AskedNow ==
  ASSUME Inv, events # <<>>, ~crashed, Head(events).name \in Asking
  PROVE  /\ Asked(player, events) = player
         /\ events[Len(events)] = Head(events)
         /\ Head(events).name = "throw" => phase = "discard" /\ Pending("throw")
         /\ Head(events).name = "command" => phase = "options" /\ Pending("command")
<1>1. Tail(events) = <<>> /\ replies = <<>>
  BY AskedLast
<1>2. IsSequence(events) /\ Len(events) = 1 /\ Head(events) = events[1]
  BY <1>1, QueueRest DEF Inv, Support, PlayerKept
<1>3. Handling(player, events)[0] = player
  BY <1>2, HandlingStep
<1>4. Asked(player, events) = player
  BY <1>2, <1>3 DEF Asked
<1>5. /\ Head(events).name = "throw" => phase = "discard"
      /\ Head(events).name = "command" => phase = "options"
  BY AskedLast
<1> QED BY <1>1, <1>2, <1>4, <1>5 DEF Pending

(* A listener that is not asked leaves the question as it was.             *)
LEMMA QuietThrow ==
  ASSUME Inv, ThrowKept, events # <<>>, events' = Tail(events), ~crashed,
         crashed' = crashed, player' = Handled(player, Head(events)),
         replies' = replies, UNCHANGED tableVars
  PROVE  ThrowKept'
<1>1. /\ phase' = phase /\ held' = held /\ drawn' = drawn /\ thrown' = thrown
      /\ missing' = missing
  BY DEF tableVars
<1>2. SizeKept'
  BY <1>1, ThrowPartsNext DEF ThrowKept, SizeKept, ToThrow
<1>3. CASE phase \notin {"options", "discard"}
  BY <1>1, <1>2, <1>3, NothingAsked
<1>4. CASE phase \in {"options", "discard"}
  <2>1. /\ replies = <<>>
        /\ phase = "options" => Pending("command")
        /\ phase = "discard" => Pending("throw")
    BY <1>4, Zenon DEF Inv, Support, TurnKept, Pending, Answered
  <2>2. ~Answered'
    BY <2>1 DEF Answered
  <2>3. ASSUME events' # <<>>
        PROVE  /\ events'[Len(events')] = events[Len(events)]
               /\ Asked(player', events') = Asked(player, events)
    <3>1. IsSequence(events)
      BY DEF Inv, Support, PlayerKept
    <3>2. Len(events) # 1
      BY <2>3, <3>1, QueueRest
    <3> QED BY <3>1, <3>2, EventsRest, AskedRest
  <2>4. \A name : Pending(name)' => events' # <<>>
    BY DEF Pending
  <2>5. WinsKept'
    <3>1. WinsKept
      BY DEF ThrowKept
    <3> QED BY <1>1, <2>1, <2>2, <2>3, <2>4, <3>1, ThrowPartsNext DEF WinsKept
  <2>6. WholeHand'
    <3>1. WholeHand
      BY DEF ThrowKept
    <3> QED BY <1>1, <2>1, <2>3, <2>4, <3>1, ThrowPartsNext DEF WholeHand
  <2> QED BY <1>2, <2>5, <2>6 DEF ThrowKept
<1> QED BY <1>3, <1>4

(* With nothing lost the bot throws from the hand it holds: a tile is found.*)
LEMMA SomethingToThrow ==
  ASSUME Inv, ThrowKept, phase \in {"discard", "options"}, StepToHu[held] # 0,
         phase = "options" => drawn # NoTile,
         NEW bag, bag = held
  PROVE  Throw(bag, discards) \in Kinds
<1>1. bag \in Bags /\ discards \in [Kinds -> Nat]
  <2>1. held \in Bags
    BY TableCounts, SameBags
  <2>2. discards \in [Kinds -> 0..4]
    BY DEF Inv, TypeOK
  <2> QED BY <2>1, <2>2
<1>2. Total(bag) % 3 = 2 /\ Total(bag) <= HandSize + 1
  <2>1. phase \notin {"lobby", "over"} /\ ToThrow
    BY DEF ToThrow
  <2>2. Total(held) % 3 = 2 /\ Total(held) <= HandSize + 1
    BY <2>1 DEF ThrowKept, SizeKept
  <2> QED BY <2>2
<1>3. Candidates(bag) # {}
  BY <1>1, <1>2, SpareTile
<1>4. bag \in [Kinds -> Nat]
  BY <1>1 DEF Bags
<1> QED BY <1>1, <1>3, <1>4, ThrowFinds

(* OnThrow: with no tile lost the bot chooses from the whole hand, which is*)
(* no winning one, so that Throw finds a tile.                             *)
LEMMA ThrowSpares ==
  ASSUME Inv, ThrowKept, CrashNeedsLoss, OnThrow
  PROVE  ThrowKept' /\ CrashNeedsLoss'
<1> PICK bag : bag = IF onlyThrow THEN Hand ELSE Plus(Hand, drawTile)
  OBVIOUS
<1>1. /\ events # <<>> /\ events' = Tail(events) /\ Head(events).name = "throw"
      /\ ~crashed /\ UNCHANGED tableVars
      /\ crashed' = TRUE \/ crashed' = crashed
      /\ crashed' = TRUE => Throw(bag, discards) = NoTile
  BY DEF OnThrow, Arrives
<1>2. /\ phase' = phase /\ held' = held /\ drawn' = drawn /\ missing' = missing
  BY <1>1 DEF tableVars
<1>3. /\ Asked(player, events) = player /\ phase = "discard" /\ Pending("throw")
      /\ events' = <<>>
  BY <1>1, AskedNow, AskedLast DEF Asking
<1>4. missing = NoTiles => bag = held
  <2>1. ThrowsFrom(player) = bag
    BY DEF ThrowsFrom, player
  <2> QED BY <1>3, <2>1 DEF ThrowKept, WholeHand
<1>5. StepToHu[held] # 0
  BY <1>3 DEF ThrowKept, WinsKept
<1>6. CrashNeedsLoss'
  <2>1. missing = NoTiles => Throw(bag, discards) \in Kinds
    BY <1>3, <1>4, <1>5, SomethingToThrow
  <2>2. NoTile \notin Kinds
    BY KindIs
  <2> QED BY <1>1, <1>2, <2>1, <2>2 DEF CrashNeedsLoss
<1>7. SizeKept'
  BY <1>2, ThrowPartsNext DEF ThrowKept, SizeKept, ToThrow
<1>8. WinsKept'
  BY <1>2, <1>3, <1>5, ThrowPartsNext
<1>9. WholeHand'
  <2>1. ~Pending("throw")'
    BY <1>3 DEF Pending
  <2> QED BY <2>1, ThrowPartsNext
<1> QED BY <1>6, <1>7, <1>8, <1>9 DEF ThrowKept

(* On its own turn the bot takes a win; else it finds a tile to throw.     *)
LEMMA OwnSpares ==
  ASSUME Inv, ThrowKept, phase = "options", Agrees(player), drawn # NoTile,
         NEW can, Given(can), NEW borrowed, NEW cmd, cmd = Answer(can, borrowed)
  PROVE  /\ cmd[1] \notin {"HU", "ZIMO"} => ~Complete(held)
         /\ cmd[2] = NoTile => missing # NoTiles
<1>1. can = OwnOptions(held) /\ can # {} /\ can \subseteq {"ZIMO", "ANGON", "PONGON"}
      /\ (Complete(held) => "ZIMO" \in can)
  BY DEF Given, OwnOptions
<1>2. OwnTurn(can)
  BY <1>1 DEF OwnTurn
<1>3. /\ Hand \in [Kinds -> 0..4] /\ discards \in [Kinds -> 0..4] /\ pon \subseteq Kinds
      /\ drawTile = drawn /\ drawn \in Kinds
  BY KnownHand
<1>4. cmd = WannaHuGon(Hand, discards, pon, can, drawn)
  BY <1>2, <1>3 DEF Answer
<1>5. /\ cmd[1] # "ZIMO" => "ZIMO" \notin can
      /\ cmd[2] = NoTile => cmd[1] # "ZIMO" /\ Throw(Plus(Hand, drawn), discards) = NoTile
  BY <1>3, <1>4, OwnAnswerIs
<1>6. cmd[1] # "ZIMO" => ~Complete(held)
  BY <1>1, <1>5
<1>7. ASSUME cmd[2] = NoTile, missing = NoTiles
      PROVE  FALSE
  <2>1. held \in Bags /\ Total(held) % 3 = 2 /\ Total(held) <= HandSize + 1
    <3>1. phase \notin {"lobby", "over"} /\ ToThrow
      BY DEF ToThrow
    <3>2. Total(held) % 3 = 2 /\ Total(held) <= HandSize + 1
      BY <3>1 DEF ThrowKept, SizeKept
    <3> QED BY <3>2, TableCounts, SameBags
  <2>2. ~Complete(held)
    BY <1>5, <1>6, <1>7
  <2>3. StepToHu[held] # 0
    BY <2>1, <2>2, NoStepIsWon
  <2> PICK bag : bag = Plus(Hand, drawn)
    OBVIOUS
  <2>4. bag = held
    <3>1. \A k \in Kinds : held[k] = Hand[k] + missing[k] + (IF drawn = k THEN 1 ELSE 0)
      BY DEF Agrees, player
    <3>2. \A k \in Kinds : missing[k] = 0
      BY <1>7 DEF NoTiles
    <3>3. bag \in [Kinds -> Int] /\ held \in [Kinds -> Int]
          /\ \A k \in Kinds : bag[k] = IF k = drawn THEN Hand[k] + 1 ELSE Hand[k]
      <4>1. Hand \in [Kinds -> Int] /\ held \in [Kinds -> Int]
        BY <1>3, <2>1, BagIs
      <4> QED BY <1>3, <4>1, PlusIs
    <3>4. ASSUME NEW k \in Kinds PROVE bag[k] = held[k]
      <4>1. /\ held[k] = Hand[k] + missing[k] + (IF drawn = k THEN 1 ELSE 0)
            /\ missing[k] = 0 /\ Hand[k] \in 0..4
            /\ bag[k] = IF k = drawn THEN Hand[k] + 1 ELSE Hand[k]
        BY <1>3, <3>1, <3>2, <3>3
      <4> QED BY <4>1
    <3> QED BY <3>3, <3>4, SameBag
  <2>5. Throw(bag, discards) \in Kinds
    BY <2>3, <2>4, SomethingToThrow
  <2>6. NoTile \notin Kinds
    BY KindIs
  <2> QED BY <1>5, <1>7, <2>5, <2>6
<1> QED BY <1>6, <1>7

(* On another player's turn it takes a win, and answers with a kind.       *)
LEMMA OtherSpares ==
  ASSUME Inv, ThrowKept, phase = "options", Agrees(player), drawn = NoTile,
         NEW can, Given(can), Complete(Plus(held, thrown)) => "HU" \in can,
         NEW borrowed, NEW cmd, cmd = Answer(can, borrowed)
  PROVE  /\ cmd[1] \notin {"HU", "ZIMO"} => ~Complete(Plus(held, thrown))
         /\ cmd[2] # NoTile
<1>1. /\ "EAT" \in can => Suited(thrown) /\ \E place \in 0..2 : HasTiles(held, EatTiles(thrown, place))
      /\ "PON" \in can => held[thrown] >= 2
      /\ can \cap {"ZIMO", "ANGON", "PONGON"} = {}
  BY DEF Given, Offers, CanEat
<1>2. ~OwnTurn(can)
  BY <1>1 DEF OwnTurn
<1>3. /\ Hand \in [Kinds -> 0..4] /\ held \in [Kinds -> 0..4]
      /\ \A k \in Kinds : Hand[k] <= held[k]
      /\ throwTile = thrown /\ thrown \in Kinds
  BY KnownHand
<1> DEFINE claim == WannaHGPE(Hand, can, thrown, borrowed)
           low == Lowest(thrown, claim[2])
<1>4. cmd = <<claim[1], low>>
  BY <1>2, <1>3, Zenon DEF Answer
<1>5. low \in Kinds
  BY <1>1, <1>3, OtherAnswerIs, ZenonT(60)
<1>6. "HU" \in can => claim[1] = "HU"
  BY ChoosesOffered
<1> HIDE DEF claim, low
<1>7. cmd[1] = claim[1] /\ cmd[2] = low
  BY <1>4
<1>8. low # NoTile
  BY <1>5, KindIs
<1> QED BY <1>6, <1>7, <1>8

(* OnCommand: what the bot passes on is no winning hand, and it crashes    *)
(* only after a loss.                                                      *)
LEMMA CommandSpares ==
  ASSUME Inv, ThrowKept, CrashNeedsLoss, OnCommand
  PROVE  ThrowKept' /\ CrashNeedsLoss'
<1>1. /\ events # <<>> /\ events' = Tail(events) /\ Head(events).name = "command"
      /\ ~crashed /\ UNCHANGED tableVars
      /\ UNCHANGED <<idVars, playerVars, tileVars>>
  BY DEF OnCommand, Arrives, idVars
<1>2. PICK borrowed \in SUBSET {"EAT", "PON"} :
        LET cmd == Answer(Head(events).what, borrowed) IN
        \/ cmd[2] = NoTile /\ crashed' = TRUE /\ UNCHANGED replies
        \/ /\ cmd[2] # NoTile /\ UNCHANGED crashed
           /\ replies' = Append(replies, Reply("sendCommand", cmd[1], cmd[2]))
  BY Zenon DEF OnCommand, Sends
<1> PICK can, cmd : can = Head(events).what /\ cmd = Answer(can, borrowed)
  OBVIOUS
<1>3. \/ cmd[2] = NoTile /\ crashed' = TRUE
      \/ crashed' = crashed /\ replies' = Append(replies, Reply("sendCommand", cmd[1], cmd[2]))
  BY <1>2
<1>4. /\ phase = "options" /\ Given(can) /\ InTheEnd = player /\ replies = <<>>
      /\ events' = <<>> /\ Pending("command") /\ events[Len(events)].what = can
  <2>1. Handled(player, Head(events)) = player
    BY <1>1, HandledOther
  <2> QED BY <1>1, <2>1, AskedLast, AskedNow DEF Asking
<1>5. Agrees(player)
  <2>1. deals > 0
    BY <1>4, TurnsAreDealt
  <2> QED BY <1>1, <1>4, <2>1 DEF Inv, Support, AgreesInTheEnd
<1>6. drawn = NoTile /\ Complete(Plus(held, thrown)) => "HU" \in can
  BY <1>4 DEF ThrowKept, WinsKept
<1>7. /\ cmd[1] \notin {"HU", "ZIMO"} =>
           ~Complete(IF drawn = NoTile THEN Plus(held, thrown) ELSE held)
      /\ cmd[2] = NoTile => missing # NoTiles
  <2>1. CASE drawn = NoTile
    BY <1>4, <1>5, <1>6, <2>1, OtherSpares
  <2>2. CASE drawn # NoTile
    BY <1>4, <1>5, <2>2, OwnSpares
  <2> QED BY <2>1, <2>2
<1>8. /\ phase' = phase /\ held' = held /\ drawn' = drawn /\ thrown' = thrown
      /\ missing' = missing
  BY <1>1 DEF tableVars
<1>9. CrashNeedsLoss'
  BY <1>1, <1>3, <1>7, <1>8 DEF CrashNeedsLoss
<1>10. SizeKept'
  BY <1>8, ThrowPartsNext DEF ThrowKept, SizeKept, ToThrow
<1>11. WinsKept'
  <2>1. ~Pending("command")'
    BY <1>4 DEF Pending
  <2>2. Answered' => Head(replies').what = cmd[1]
    <3> SUFFICES ASSUME Answered' PROVE Head(replies').what = cmd[1]
      OBVIOUS
    <3> PICK a : a = Reply("sendCommand", cmd[1], cmd[2])
      OBVIOUS
    <3>1. replies' = Append(replies, a)
      BY <1>3, <1>4 DEF Answered
    <3>2. Head(replies') = a
      BY <1>4, <3>1
    <3> QED BY <3>2, ReplyIs
  <2> QED BY <1>4, <1>7, <1>8, <2>1, <2>2, ThrowPartsNext
<1>12. WholeHand'
  BY <1>4, <1>8, ThrowPartsNext
<1> QED BY <1>9, <1>10, <1>11, <1>12 DEF ThrowKept

(* The listeners.                                                          *)
LEMMA ListenersSpare ==
  ASSUME Inv, ThrowKept, CrashNeedsLoss, Listeners
  PROVE  ThrowKept' /\ CrashNeedsLoss'
<1>1. CASE OnThrow
  BY <1>1, ThrowSpares
<1>2. CASE OnCommand
  BY <1>2, CommandSpares
<1>3. ASSUME events # <<>>, events' = Tail(events), ~crashed, crashed' = crashed,
             player' = Handled(player, Head(events)), UNCHANGED tableVars,
             replies' = replies
      PROVE  ThrowKept' /\ CrashNeedsLoss'
  <2>1. ThrowKept'
    BY <1>3, QuietThrow
  <2> QED BY <1>3, <2>1 DEF CrashNeedsLoss
<1>4. CASE OnJoinAck
  <2>1. player' = Handled(player, Head(events))
    BY <1>4 DEF OnJoinAck, Arrives, player, playerVars, meldVars, tileVars, Handled
  <2> QED BY <1>3, <1>4, <2>1 DEF OnJoinAck, Arrives
<1>5. CASE OnReadyToStart
  <2>1. events # <<>> /\ Head(events).name = "readyToStart" /\ crashed' = crashed
        /\ ~crashed /\ phase' = phase
    BY <1>5 DEF OnReadyToStart, Arrives, botVars, tableVars
  <2>2. phase' = "lobby"
    BY <2>1, ArrivesWhen
  <2> QED BY <2>1, <2>2, NoTurn DEF CrashNeedsLoss
<1>6. CASE OnReadyAck
  <2>1. player' = Handled(player, Head(events))
    BY <1>6 DEF OnReadyAck, Arrives, player, playerVars, meldVars, tileVars, Handled
  <2> QED BY <1>3, <1>6, <2>1 DEF OnReadyAck, Arrives
<1>7. CASE OnDealTile
  <2>1. player' = Handled(player, Head(events))
    BY <1>7 DEF OnDealTile, Arrives, player, idVars, tileVars, Handled, DealtHand,
                DealtDiscards
  <2> QED BY <1>3, <1>7, <2>1 DEF OnDealTile, Arrives
<1>8. CASE OnDraw
  <2>1. player' = Handled(player, Head(events))
    BY <1>8 DEF OnDraw, Arrives, player, idVars, playerVars, meldVars, Handled,
                OnlyThrowAfterDraw
  <2> QED BY <1>3, <1>8, <2>1 DEF OnDraw, Arrives
<1>9. CASE OnBroadcastThrow
  <2>1. player' = Handled(player, Head(events))
    BY <1>9 DEF OnBroadcastThrow, Arrives, player, idVars, meldVars, Handled, IsOwn
  <2> QED BY <1>3, <1>9, <2>1 DEF OnBroadcastThrow, Arrives
<1>10. CASE OnSuccess
  <2>1. player' = Handled(player, Head(events))
    BY <1>10 DEF OnSuccess, Arrives, player, idVars, Handled, PonAfter
  <2> QED BY <1>3, <1>10, <2>1 DEF OnSuccess, Arrives
<1>11. CASE OnBroadcastCommand
  <2>1. player' = Handled(player, Head(events))
    BY <1>11 DEF OnBroadcastCommand, Arrives, player, idVars, meldVars, tileVars, Handled,
                 IsOwn
  <2> QED BY <1>3, <1>11, <2>1 DEF OnBroadcastCommand, Arrives
<1> QED BY <1>1, <1>2, <1>4, <1>5, <1>6, <1>7, <1>8, <1>9, <1>10, <1>11 DEF Listeners

-----------------------------------------------------------------------------
(* The server.                                                             *)

(* The server does not touch the bot: no step of its own crashes it.       *)
LEMMA ServerNoCrash ==
  ASSUME ServerUnchanged, ~crashed
  PROVE  CrashNeedsLoss'
BY ServerLeaves DEF CrashNeedsLoss

(* How many tiles the bot holds.                                           *)
LEMMA HeldSize ==
  ASSUME Inv, ThrowKept, phase \notin {"lobby", "over"}
  PROVE  /\ held \in Bags /\ Total(held) \in Nat
         /\ ~ToThrow => Total(held) % 3 = 1 /\ Total(held) <= HandSize
         /\ ToThrow => Total(held) % 3 = 2 /\ Total(held) <= HandSize + 1
<1>1. held \in Bags
  BY TableCounts, SameBags
<1>2. /\ Total(held) % 3 = (IF ToThrow THEN 2 ELSE 1)
      /\ Total(held) <= HandSize + (IF ToThrow THEN 1 ELSE 0)
  BY DEF ThrowKept, SizeKept
<1>3. HandSize \in Nat /\ Total(held) \in Nat
  BY <1>1, TotalZero, HandSizeAssumption
<1> QED BY <1>1, <1>2, <1>3

(* What has to hold of it in the next state.                               *)
LEMMA SizeNext ==
  ASSUME NEW n, n = Total(held'), n \in Int,
         NEW more \in BOOLEAN, more <=> (phase' = "discard" \/ drawn' # NoTile),
         ~more => n % 3 = 1 /\ n <= HandSize,
         more => n % 3 = 2 /\ n <= HandSize + 1
  PROVE  SizeKept'
<1>1. HandSize \in Nat
  BY HandSizeAssumption
<1>2. /\ n % 3 = (IF more THEN 2 ELSE 1) /\ n <= HandSize + (IF more THEN 1 ELSE 0)
  BY <1>1
<1> QED BY <1>2, ThrowPartsNext

(* A hand that is neither added to nor taken from keeps its size, as long  *)
(* as it has to throw as before.                                           *)
LEMMA SameSize ==
  ASSUME ThrowKept, phase \notin {"lobby", "over"}, held' = held,
         (phase' = "discard" \/ drawn' # NoTile) <=> ToThrow
  PROVE  SizeKept'
<1>1. /\ Total(held) % 3 = (IF ToThrow THEN 2 ELSE 1)
      /\ Total(held) <= HandSize + (IF ToThrow THEN 1 ELSE 0)
  BY DEF ThrowKept, SizeKept
<1> QED BY <1>1, ThrowPartsNext

(* Where the bot has been waited for, it has answered.                     *)
LEMMA AnsweredIs ==
  ASSUME Inv, phase \in {"discard", "options"}, replies # <<>>
  PROVE  Answered /\ Acceptable(Head(replies))
<1>1. Answered
  BY Zenon DEF Inv, Support, TurnKept, Pending
<1>2. DOMAIN replies = {1} /\ replies[1] = Head(replies)
  <2> PICK r : r = Head(replies)
    OBVIOUS
  <2>1. replies = <<r>>
    BY <1>1 DEF Answered
  <2> QED BY <2>1
<1>3. AnswersAcceptable
  BY AllAcceptable
<1>4. Acceptable(replies[1])
  BY <1>2, <1>3 DEF AnswersAcceptable
<1> QED BY <1>1, <1>2, <1>4

(* Before the first deal, and when one ends.                               *)
LEMMA LobbySpares ==
  ASSUME Inv, ServerJoins \/ ServerAuthenticates \/ ServerStarts
  PROVE  ThrowKept' /\ CrashNeedsLoss'
<1>1. /\ replies # <<>> /\ Head(replies).name \in {"join", "auth", "ready"}
      /\ ServerUnchanged /\ phase' \in {phase, "over"}
  BY DEF ServerJoins, ServerAuthenticates, ServerStarts, Takes
<1>2. phase = "lobby"
  BY <1>1, LobbyReply
<1>3. ~crashed
  BY <1>1, <1>2, LobbyServer
<1> QED BY <1>1, <1>2, <1>3, NoTurn, ServerNoCrash

(* The end of a deal, by a win or by the last tile.                        *)
LEMMA EndsSpare ==
  ASSUME Inv, ServerTakesWin \/ ServerEnds
  PROVE  ThrowKept' /\ CrashNeedsLoss'
<1>1. ServerUnchanged /\ phase' = "over"
  BY DEF ServerTakesWin, ServerEnds
<1>2. ~crashed
  <2>1. CASE ServerTakesWin
    BY <2>1, AnsweredServer DEF ServerTakesWin, Takes
  <2>2. CASE ServerEnds
    BY <2>2, FreeServer DEF ServerEnds
  <2> QED BY <2>1, <2>2
<1> QED BY <1>1, <1>2, NoTurn, ServerNoCrash

(* A deal gives HandSize tiles, one less than a hand that throws.          *)
LEMMA DealSpares ==
  ASSUME Inv, ServerDeals
  PROVE  ThrowKept' /\ CrashNeedsLoss'
<1>1. /\ phase = "over" /\ phase' = "idle" /\ drawn' = NoTile /\ ServerUnchanged
      /\ held' \in Hands({HandSize})
  BY DEF ServerDeals
<1>2. ~crashed
  BY <1>1, FreeServer
<1> PICK n : n = Total(held')
  OBVIOUS
<1>3. n = HandSize
  BY <1>1 DEF Hands
<1>4. n \in Int /\ n % 3 = 1 /\ n <= HandSize
  BY <1>3, HandSizeAssumption
<1>5. SizeKept'
  BY <1>1, <1>4, SizeNext
<1> QED BY <1>1, <1>2, <1>5, NothingAsked, ServerNoCrash

(* A hand that is not won by the drawn tile has a step to go.              *)
LEMMA DrawSpares ==
  ASSUME Inv, ThrowKept, ServerDraws
  PROVE  ThrowKept' /\ CrashNeedsLoss'
<1> PICK k \in Kinds :
       /\ Unseen(k) > 0
       /\ held' = Plus(held, k) /\ drawn' = k
       /\ LET can == OwnOptions(held') IN
          /\ phase' = IF can = {} THEN "discard" ELSE "options"
          /\ Announces(<<Event("draw", Me, NoCommand, k),
               IF can = {} THEN Event("throw", Me, NoCommand, NoTile)
                           ELSE Event("command", Me, can, NoTile)>>)
  BY DEF ServerDraws
<1> PICK can : can = OwnOptions(held')
  OBVIOUS
<1>1. /\ phase \in {"idle", "kong"} /\ ServerUnchanged /\ replies' = replies
      /\ held' = Plus(held, k) /\ drawn' = k /\ Unseen(k) > 0
      /\ phase' = (IF can = {} THEN "discard" ELSE "options")
  BY DEF ServerDraws
<1>2. replies = <<>> /\ ~crashed
  BY <1>1, FreeServer
<1>3. drawn = NoTile /\ ~ToThrow
  BY <1>1, TableParts DEF TableKept, ToThrow
<1>4. held \in Bags /\ Total(held) \in Nat /\ Total(held) % 3 = 1 /\ Total(held) <= HandSize
  BY <1>1, <1>3, HeldSize
<1>5. held[k] \in 0..3
  <2>1. /\ Unseen(k) = 4 - held[k] - visible[k] - (IF k \in door.anGon THEN 4 ELSE 0)
        /\ held[k] \in 0..4 /\ visible[k] \in 0..4
    BY TableCounts DEF Bag
  <2> QED BY <1>1, <2>1
<1>6. held' \in Bags /\ Total(held') = Total(held) + 1
  <2>1. held \in Counts
    BY <1>4, BagIs
  <2>2. held \in Bag /\ held[k] < 4
    BY <1>5, TableCounts
  <2>3. Plus(held, k) \in Bag
    BY <2>2, PutIs
  <2> QED BY <1>1, <1>5, <2>1, <2>3, TotalPlus, SameBags
<1> PICK n : n = Total(held')
  OBVIOUS
<1>7. n \in Int /\ n % 3 = 2 /\ n <= HandSize + 1
  BY <1>4, <1>6, HandSizeAssumption
<1>8. drawn' # NoTile
  BY <1>1, KindIs
<1>9. SizeKept'
  BY <1>7, <1>8, SizeNext
<1>10. phase' = "discard" => StepToHu[held'] # 0
  <2> SUFFICES ASSUME phase' = "discard", StepToHu[held'] = 0 PROVE FALSE
    OBVIOUS
  <2> PICK bag : bag = held'
    OBVIOUS
  <2>1. Complete(bag)
    BY <1>6, <1>7, NoStepIsWon
  <2>2. "ZIMO" \in OwnOptions(bag)
    BY <2>1 DEF OwnOptions
  <2>3. can = {}
    BY <1>1
  <2>4. can = OwnOptions(bag)
    OBVIOUS
  <2> QED BY <2>2, <2>3, <2>4
<1>11. WinsKept'
  <2>1. ~Answered'
    BY <1>1, <1>2 DEF Answered
  <2> QED BY <1>8, <1>10, <2>1, ThrowPartsNext
<1>12. WholeHand'
  BY DrawsKeeps
<1> QED BY <1>1, <1>2, <1>9, <1>11, <1>12, ServerNoCrash DEF ThrowKept

(* The tile thrown was the one too many.                                   *)
LEMMA TakenThrowSpares ==
  ASSUME Inv, ThrowKept, ServerTakesThrow
  PROVE  ThrowKept' /\ CrashNeedsLoss'
<1> PICK k : k = Head(replies).tile
  OBVIOUS
<1>1. /\ phase = "discard" /\ replies # <<>> /\ Head(replies).name = "throwTile"
      /\ held' = Take(held, k) /\ drawn' = NoTile /\ phase' = "idle" /\ ServerUnchanged
  BY DEF ServerTakesThrow, Takes
<1>2. ~crashed /\ Throws(Head(replies))
  BY <1>1, AnsweredServer
<1>3. k \in Kinds
  BY <1>2 DEF Throws
<1>4. held[k] > 0
  <2> PICK reply : reply = Head(replies)
    OBVIOUS
  <2>1. Acceptable(reply) /\ reply.name = "throwTile"
    BY <1>1, AnsweredIs
  <2> QED BY <2>1 DEF Acceptable
<1>5. /\ held \in Bags /\ Total(held) \in Nat /\ Total(held) % 3 = 2
      /\ Total(held) <= HandSize + 1
  BY <1>1, HeldSize DEF ToThrow
<1>6. Total(held') = Total(held) - 1
  <2>1. held[k] \in 1..4 /\ held \in Counts
    BY <1>3, <1>4, <1>5, BagIs
  <2>2. held' = Minus(held, k)
    BY <1>1, <2>1 DEF Take, Minus
  <2> QED BY <1>3, <2>1, <2>2, TotalMinus
<1> PICK n : n = Total(held')
  OBVIOUS
<1>7. n \in Int /\ n % 3 = 1 /\ n <= HandSize
  BY <1>5, <1>6, HandSizeAssumption
<1>8. SizeKept'
  BY <1>1, <1>7, SizeNext
<1> QED BY <1>1, <1>2, <1>8, NothingAsked, ServerNoCrash

(* What wins is offered.                                                   *)
LEMMA OtherThrowSpares ==
  ASSUME Inv, ThrowKept, OtherThrows
  PROVE  ThrowKept' /\ CrashNeedsLoss'
<1>1. /\ phase = "idle" /\ replies' = replies /\ held' = held /\ drawn' = drawn
      /\ ServerUnchanged
  BY DEF OtherThrows
<1> PICK k \in Kinds, next \in BOOLEAN :
       /\ Unseen(k) > 0
       /\ visible' = Plus(visible, k) /\ thrown' = k
       /\ LET can == IF next THEN Offers(k) ELSE Offers(k) \ {"EAT"}
              news == <<Event("broadcastThrow", Other, NoCommand, k)>>
          IN \/ phase' = "idle" /\ Announces(news)
             \/ /\ can # {} /\ phase' = "options"
                /\ Announces(Append(news, Event("command", Me, can, NoTile)))
  BY DEF OtherThrows
<1> PICK can : can = IF next THEN Offers(k) ELSE Offers(k) \ {"EAT"}
  OBVIOUS
<1> PICK a : a = Event("broadcastThrow", Other, NoCommand, k)
  OBVIOUS
<1> PICK b : b = Event("command", Me, can, NoTile)
  OBVIOUS
<1>2. /\ thrown' = k
      /\ phase' = "idle" \/ (phase' = "options" /\ events' = events \o Append(<<a>>, b))
  BY DEF Announces
<1>3. replies = <<>> /\ ~crashed /\ IsSequence(events)
  BY <1>1, FreeServer DEF Queue
<1>4. drawn = NoTile /\ ~ToThrow
  BY <1>1, TableParts DEF TableKept, ToThrow
<1>5. SizeKept'
  BY <1>1, <1>2, <1>4, SameSize DEF ToThrow
<1>6. Complete(Plus(held, k)) => "HU" \in can
  <2>1. Complete(Plus(held, k)) => "HU" \in Offers(k)
    BY DEF Offers
  <2> QED BY <2>1
<1>7. CASE phase' = "options" /\ events' = events \o Append(<<a>>, b)
  <2>1. Append(<<a>>, b) = <<a, b>>
    <3>1. IsSequence(<<a>>)
      BY SequenceTuples
    <3> QED BY <3>1, SequenceAppend, TwoAreJoined
  <2> PICK front : front = events \o <<a>>
    OBVIOUS
  <2>2. events' = front \o <<b>>
    <3>1. events \o <<a, b>> = (events \o <<a>>) \o <<b>>
      BY <1>3, TwoMore
    <3> QED BY <1>7, <2>1, <3>1, Zenon
  <2>3. IsSequence(front)
    BY <1>3, ElementsPlus
  <2> PICK last : last = events'[Len(events')]
    OBVIOUS
  <2>4. last = b
    <3>1. Len(front \o <<b>>) = Len(front) + 1 /\ (front \o <<b>>)[Len(front) + 1] = b
      BY <2>3, ElementsPlus
    <3> QED BY <2>2, <3>1, Zenon
  <2>5. last.what = can
    BY <2>4, EventIs
  <2>6. Complete(Plus(held', thrown')) => "HU" \in last.what
    BY <1>1, <1>2, <1>6, <2>5
  <2>7. ~Answered'
    BY <1>1, <1>3 DEF Answered
  <2>8. WinsKept'
    BY <1>7, <2>6, <2>7, ThrowPartsNext
  <2>9. WholeHand'
    BY <1>7, ThrowPartsNext
  <2> QED BY <1>1, <1>3, <1>5, <2>8, <2>9, ServerNoCrash DEF ThrowKept
<1>8. CASE phase' = "idle"
  BY <1>1, <1>3, <1>5, <1>8, NothingAsked, ServerNoCrash
<1> QED BY <1>2, <1>7, <1>8

(* What is not claimed does not win.                                       *)
LEMMA NoneSpares ==
  ASSUME Inv, ThrowKept, ServerTakesNone
  PROVE  ThrowKept' /\ CrashNeedsLoss'
<1>1. /\ phase = "options" /\ replies # <<>> /\ Head(replies).what = "NONE"
      /\ replies' = Tail(replies) /\ held' = held /\ drawn' = drawn /\ ServerUnchanged
      /\ phase' = (IF drawn = NoTile THEN "idle" ELSE "discard")
  BY DEF ServerTakesNone, Takes, GameUnchanged
<1>2. ~crashed /\ Answered
  BY <1>1, AnsweredServer, AnsweredIs
<1>3. SizeKept'
  BY <1>1, SameSize DEF ToThrow
<1>4. CASE drawn = NoTile
  BY <1>1, <1>2, <1>3, <1>4, NothingAsked, ServerNoCrash
<1>5. CASE drawn # NoTile
  <2>1. phase' = "discard"
    BY <1>1, <1>5
  <2> PICK bag : bag = held
    OBVIOUS
  <2>2. ~Complete(bag)
    BY <1>1, <1>2, <1>5 DEF ThrowKept, WinsKept
  <2>3. bag \in Bags /\ Total(bag) % 3 = 2 /\ Total(bag) <= HandSize + 1
    BY <1>1, <1>5, HeldSize DEF ToThrow
  <2>4. StepToHu[bag] # 0
    BY <2>2, <2>3, NoStepIsWon
  <2>5. StepToHu[held'] # 0
    BY <1>1, <2>4
  <2>6. WinsKept'
    BY <2>1, <2>5, ThrowPartsNext
  <2>7. WholeHand'
    BY TakesNoneKeeps
  <2> QED BY <1>1, <1>2, <1>3, <2>6, <2>7, ServerNoCrash DEF ThrowKept
<1> QED BY <1>4, <1>5

(* A claim that another player overrules changes no hand.                  *)
LEMMA RefusedSpares ==
  ASSUME Inv, ThrowKept, Refused
  PROVE  ThrowKept' /\ CrashNeedsLoss'
<1> PICK reply : reply = Head(replies)
  OBVIOUS
<1>1. /\ phase = "options" /\ replies # <<>> /\ reply.what \in {"EAT", "PON"}
      /\ held' = held /\ drawn' = drawn /\ ServerUnchanged /\ phase' = "idle"
  BY DEF Refused, Takes, GameUnchanged
<1>2. ~crashed /\ Claims(reply)
  BY <1>1, AnsweredServer
<1>3. drawn = NoTile
  BY <1>1, <1>2 DEF Claims
<1>4. SizeKept'
  BY <1>1, <1>3, SameSize DEF ToThrow
<1> QED BY <1>1, <1>2, <1>4, NothingAsked, ServerNoCrash

(* What the other player claims changes no hand of the bot's.              *)
LEMMA OtherClaimSpares ==
  ASSUME Inv, ThrowKept, OtherClaims
  PROVE  ThrowKept' /\ CrashNeedsLoss'
<1>1. /\ phase = "idle" /\ phase' = phase /\ held' = held /\ drawn' = drawn /\ ServerUnchanged
  BY DEF OtherClaims
<1>2. ~crashed
  BY <1>1, FreeServer
<1>3. SizeKept'
  BY <1>1, SameSize DEF ToThrow
<1> QED BY <1>1, <1>2, <1>3, NothingAsked, ServerNoCrash

(* A meld with a tile of another player: what the hand gives, and the hand *)
(* that had the tile.                                                      *)
LEMMA MeldOf ==
  ASSUME NEW bag \in Bags, NEW card \in Kinds, bag[card] <= 3,
         NEW less \in Bags, \A j \in Kinds : less[j] <= bag[j],
         NEW meld \in MeldBags,
         \A j \in Kinds : meld[j] = less[j] + (IF j = card THEN 1 ELSE 0)
  PROVE  /\ Without(bag, less) \in Bags /\ Total(Without(bag, less)) = Total(bag) - 2
         /\ With(Without(bag, less), meld) = Plus(bag, card)
         /\ Plus(bag, card) \in Bags /\ Total(Plus(bag, card)) = Total(bag) + 1
<1>1. /\ bag \in [Kinds -> Int] /\ \A k \in Kinds : bag[k] \in 0..4
      /\ less \in [Kinds -> Int] /\ \A k \in Kinds : less[k] \in 0..4
      /\ bag \in Counts /\ less \in Counts
  BY BagIs
<1>2. meld \in Bags /\ Total(meld) = 3 /\ meld \in [Kinds -> Int] /\ meld \in Counts
  BY MeldTotal, BagIs
<1>3. bag[card] \in 0..3
  BY <1>1
<1>4. Plus(bag, card) \in Counts /\ Total(Plus(bag, card)) = Total(bag) + 1
  BY <1>1, <1>3, TotalPlus
<1> PICK more : more = Plus(bag, card)
  OBVIOUS
<1>5. more \in [Kinds -> Int] /\ \A j \in Kinds : more[j] = IF j = card THEN bag[j] + 1 ELSE bag[j]
  BY <1>1, PlusIs
<1>6. more \in Bags
  <2>1. \A j \in Kinds : more[j] \in 0..4
    BY <1>1, <1>3, <1>5
  <2> QED BY <1>5, <2>1, CountIs
<1>7. Total(less) = 2
  <2> PICK one : one = Several(card, 1)
    OBVIOUS
  <2>1. one \in Bags /\ Total(one) = 1 /\ \A j \in Kinds : one[j] = IF j = card THEN 1 ELSE 0
    <3>1. 1 \in 0..4
      OBVIOUS
    <3> QED BY <3>1, TotalFew DEF Several
  <2>2. one \in Counts /\ one \in [Kinds -> Int]
    BY <2>1, BagIs
  <2> PICK sum : sum = With(less, one)
    OBVIOUS
  <2>3. sum \in [Kinds -> Int] /\ \A j \in Kinds : sum[j] = less[j] + one[j]
    BY <1>1, <2>2, WithIs
  <2>4. \A j \in Kinds : sum[j] = meld[j]
    BY <2>1, <2>3
  <2>5. sum = meld
    BY <1>2, <2>3, <2>4, SameBag
  <2>6. \A j \in Kinds : one[j] > 0 => less[j] >= 0
    BY <1>1
  <2>7. With(less, one) \in Counts
    BY <1>2, <2>5
  <2>8. Total(With(less, one)) = Total(less) + Total(one)
    <3>1. less \in Counts /\ one \in Bags
      BY <1>1, <2>1
    <3> QED BY <3>1, <2>6, <2>7, TotalWith
  <2>9. Total(less) \in Nat /\ Total(sum) = 3
    BY <1>2, <2>5, TotalZero
  <2> QED BY <2>1, <2>8, <2>9
<1> PICK rest : rest = Without(bag, less)
  OBVIOUS
<1>8. rest \in Bags /\ Total(rest) = Total(bag) - 2
  <2>1. \A j \in Kinds : bag[j] >= less[j]
    BY <1>1
  <2> QED BY <1>7, <2>1, TotalWithout
<1>9. With(rest, meld) = more
  <2>1. rest \in [Kinds -> Int] /\ \A j \in Kinds : rest[j] = bag[j] - less[j]
    BY <1>1, WithIs
  <2> PICK all : all = With(rest, meld)
    OBVIOUS
  <2>2. all \in [Kinds -> Int] /\ \A j \in Kinds : all[j] = rest[j] + meld[j]
    BY <1>2, <2>1, WithIs
  <2>3. ASSUME NEW j \in Kinds PROVE all[j] = more[j]
    <3>1. /\ all[j] = rest[j] + meld[j] /\ rest[j] = bag[j] - less[j]
          /\ meld[j] = less[j] + (IF j = card THEN 1 ELSE 0)
          /\ more[j] = (IF j = card THEN bag[j] + 1 ELSE bag[j])
          /\ bag[j] \in Int /\ less[j] \in Int
      BY <1>1, <1>5, <2>1, <2>2
    <3> QED BY <3>1
  <2> QED BY <1>5, <2>2, <2>3, SameBag
<1> QED BY <1>4, <1>6, <1>8, <1>9

(* What is claimed is a meld.                                              *)
LEMMA ClaimMelds ==
  ASSUME Inv, phase = "options", NEW reply, Claims(reply), reply.what \in {"EAT", "PON"},
         NEW k, k = reply.tile, NEW e, e.what = reply.what,
         e.tile = (IF e.what = "EAT" THEN <<k, thrown>> ELSE k),
         NEW less, less = FromHand(e)
  PROVE  \E meld \in MeldBags :
           \A j \in Kinds : meld[j] = less[j] + (IF j = thrown THEN 1 ELSE 0)
<1>1. drawn = NoTile /\ thrown \in Kinds /\ k \in Kinds
  BY ClaimTakes
<1>2. Acceptable(reply) /\ reply.name = "sendCommand"
  <2>1. Reply("sendCommand", reply.what, reply.tile).name = "sendCommand"
    BY ReplyIs
  <2> QED BY <2>1 DEF Claims
<1>3. CASE e.what = "PON"
  <2>1. k = thrown
    BY <1>2, <1>3 DEF Acceptable
  <2>2. less = Several(k, 2)
    BY <1>3, FromHandIs
  <2> PICK meld : meld = Several(k, 3)
    OBVIOUS
  <2>3. /\ \A j \in Kinds : less[j] = IF j = k THEN 2 ELSE 0
        /\ \A j \in Kinds : meld[j] = IF j = k THEN 3 ELSE 0
    BY <2>2, SeveralIs
  <2>4. meld \in MeldBags
    BY <1>1 DEF MeldBags
  <2>5. \A j \in Kinds : meld[j] = less[j] + (IF j = thrown THEN 1 ELSE 0)
    BY <2>1, <2>3
  <2> QED BY <2>4, <2>5
<1>4. CASE e.what = "EAT"
  <2>1. Suited(thrown) /\ thrown \in Chow(k) /\ HasTiles(held, Chow(k) \ {thrown})
    BY <1>2, <1>4 DEF Acceptable
  <2> PICK ks : ks = Chow(k) \ {thrown}
    OBVIOUS
  <2>2. less = Each(ks)
    <3>1. <<k, thrown>>[1] = k /\ <<k, thrown>>[2] = thrown
      OBVIOUS
    <3> QED BY <1>4, <3>1, FromHandIs
  <2>3. ks \subseteq Kinds
    BY <2>1 DEF HasTiles
  <2>4. Chow(k) \subseteq Kinds
    BY <1>1, <2>3
  <2>5. Suited(k)
    <3>1. PICK i \in 0..2 : thrown = <<k[1], k[2] + i>>
      BY <2>1 DEF Chow
    <3>2. thrown[1] = k[1]
      BY <3>1
    <3> QED BY <2>1, <3>2 DEF Suited
  <2> PICK meld : meld = Each(Chow(k))
    OBVIOUS
  <2>6. meld \in MeldBags
    BY <1>1, <2>4, <2>5 DEF MeldBags
  <2>7. /\ \A j \in Kinds : less[j] = IF j \in ks THEN 1 ELSE 0
        /\ \A j \in Kinds : meld[j] = IF j \in Chow(k) THEN 1 ELSE 0
    BY <2>2, EachIs
  <2>8. \A j \in Kinds : meld[j] = less[j] + (IF j = thrown THEN 1 ELSE 0)
    BY <2>1, <2>7
  <2> QED BY <2>6, <2>8
<1> QED BY <1>3, <1>4

(* A meld from a hand that the tile does not complete leaves a step to go. *)
LEMMA GrantSpares ==
  ASSUME Inv, ThrowKept, ServerGrants
  PROVE  ThrowKept' /\ CrashNeedsLoss'
<1> PICK reply : reply = Head(replies)
  OBVIOUS
<1> PICK k : k = reply.tile
  OBVIOUS
<1> PICK tile : tile = IF reply.what = "EAT" THEN <<k, thrown>> ELSE k
  OBVIOUS
<1> PICK a : a = Event("success", Me, reply.what, tile)
  OBVIOUS
<1> PICK less : less = FromHand(a)
  OBVIOUS
<1>1. Granted(reply)[1] = a
  BY DEF Granted
<1>2. /\ phase = "options" /\ replies # <<>> /\ reply.what \in {"EAT", "PON"}
      /\ held' = Without(held, less) /\ drawn' = drawn /\ phase' = "discard" /\ ServerUnchanged
  BY <1>1 DEF ServerGrants, Takes
<1>3. ~crashed /\ Claims(reply) /\ Answered
  BY <1>2, AnsweredServer, AnsweredIs
<1>4. a.what = reply.what /\ a.tile = (IF a.what = "EAT" THEN <<k, thrown>> ELSE k)
  BY EventIs
<1>5. /\ drawn = NoTile /\ thrown \in Kinds
      /\ less \in Bag /\ \A j \in Kinds : less[j] <= held[j]
  BY <1>2, <1>3, <1>4, ClaimTakes
<1>6. PICK meld \in MeldBags :
        \A j \in Kinds : meld[j] = less[j] + (IF j = thrown THEN 1 ELSE 0)
  BY <1>2, <1>3, <1>4, ClaimMelds
<1> PICK bag : bag = held
  OBVIOUS
<1> PICK card : card = thrown
  OBVIOUS
<1>7. ~Complete(Plus(bag, card))
  BY <1>2, <1>3, <1>5 DEF ThrowKept, WinsKept
<1>8. /\ bag \in Bags /\ Total(bag) \in Nat /\ Total(bag) % 3 = 1 /\ Total(bag) <= HandSize
  BY <1>2, <1>5, HeldSize DEF ToThrow
<1>9. bag[card] <= 3
  <2>1. /\ door.eat[card] + (IF thrown = card THEN 1 ELSE 0) <= visible[card]
        /\ held[card] + visible[card] + (IF card \in door.anGon THEN 4 ELSE 0) <= 4
        /\ held[card] \in 0..4 /\ visible[card] \in 0..4 /\ door.eat[card] \in 0..4
    BY <1>5, TableCounts DEF Bag
  <2> QED BY <2>1
<1> PICK rest : rest = held'
  OBVIOUS
<1>10. /\ rest \in Bags /\ Total(rest) = Total(bag) - 2
       /\ With(rest, meld) = Plus(bag, card)
       /\ Plus(bag, card) \in Bags /\ Total(Plus(bag, card)) = Total(bag) + 1
  <2>1. less \in Bags /\ card \in Kinds /\ \A j \in Kinds : less[j] <= bag[j]
    BY <1>5, SameBags
  <2>2. \A j \in Kinds : meld[j] = less[j] + (IF j = card THEN 1 ELSE 0)
    BY <1>6
  <2>3. rest = Without(bag, less)
    BY <1>2
  <2> QED BY <1>8, <1>9, <2>1, <2>2, <2>3, MeldOf
<1> PICK n : n = Total(rest)
  OBVIOUS
<1>11. n \in Int /\ n % 3 = 2 /\ n <= HandSize + 1
  BY <1>8, <1>10, HandSizeAssumption
<1>12. SizeKept'
  BY <1>2, <1>11, SizeNext
<1>13. StepToHu[rest] # 0
  <2> SUFFICES ASSUME StepToHu[rest] = 0 PROVE FALSE
    OBVIOUS
  <2>1. With(rest, meld) \in Bags /\ Total(With(rest, meld)) <= HandSize + 1
    BY <1>8, <1>10, HandSizeAssumption
  <2>2. Complete(With(rest, meld))
    BY <1>10, <1>11, <2>1, MeldIsLarger
  <2> QED BY <1>7, <1>10, <2>2
<1>14. WinsKept'
  BY <1>2, <1>13, ThrowPartsNext
<1>15. WholeHand'
  BY GrantsKeeps
<1> QED BY <1>2, <1>3, <1>12, <1>14, <1>15, ServerNoCrash DEF ThrowKept

(* A kong takes the drawn tile and three of the hand; the bot draws again. *)
LEMMA KongSpares ==
  ASSUME Inv, ThrowKept, ServerGrantsKong
  PROVE  ThrowKept' /\ CrashNeedsLoss'
<1> PICK reply : reply = Head(replies)
  OBVIOUS
<1> PICK k : k = reply.tile
  OBVIOUS
<1> PICK a : a = Event("success", Me, reply.what, k)
  OBVIOUS
<1> PICK less : less = FromHand(a)
  OBVIOUS
<1>1. phase = "options" /\ replies # <<>> /\ reply.what \in {"ANGON", "PONGON"}
  BY DEF ServerGrantsKong, Takes
<1>2. Granted(reply)[1] = a
  BY <1>1 DEF Granted
<1>3. held' = Without(held, less) /\ drawn' = NoTile /\ phase' = "kong" /\ ServerUnchanged
  BY <1>2 DEF ServerGrantsKong
<1>4. ~crashed /\ Claims(reply)
  BY <1>1, AnsweredServer
<1>5. a.what = reply.what /\ a.tile = k
  BY EventIs
<1>6. /\ drawn \in Kinds /\ k \in Kinds
      /\ less \in Bag /\ \A j \in Kinds : less[j] = IF j = k THEN held[k] ELSE 0
      /\ held[k] \in {1, 4}
  <2> PICK shown : shown = Shown(a)
    OBVIOUS
  <2>1. /\ drawn \in Kinds /\ k \in Kinds
        /\ less \in Bag /\ \A j \in Kinds : less[j] = IF j = k THEN held[k] ELSE 0
        /\ a.what = "ANGON" => held[k] = 4 /\ shown = NoTiles
        /\ a.what = "PONGON" => held[k] = 1 /\ shown = less /\ k \in door.pon
    BY <1>1, <1>4, <1>5, KongTakes
  <2> QED BY <1>1, <1>5, <2>1
<1> PICK bag : bag = held
  OBVIOUS
<1>7. /\ bag \in Bags /\ Total(bag) \in Nat /\ Total(bag) % 3 = 2 /\ Total(bag) <= HandSize + 1
  <2>1. ToThrow
    BY <1>6, KindIs DEF ToThrow
  <2> QED BY <1>1, <2>1, HeldSize
<1> PICK m : m = bag[k]
  OBVIOUS
<1>8. less \in Bags /\ Total(less) = m /\ \A j \in Kinds : bag[j] >= less[j]
  <2>1. m \in 0..4 /\ \A j \in Kinds : less[j] = IF j = k THEN m ELSE 0
    BY <1>6
  <2> PICK all : all = Several(k, m)
    OBVIOUS
  <2>2. all \in Bags /\ Total(all) = m /\ \A j \in Kinds : all[j] = IF j = k THEN m ELSE 0
    BY <1>6, <2>1, TotalFew DEF Several
  <2>3. less \in Bags
    BY <1>6, SameBags
  <2>4. all = less
    <3>1. all \in [Kinds -> Int] /\ less \in [Kinds -> Int]
      BY <2>2, <2>3, BagIs
    <3>2. \A j \in Kinds : all[j] = less[j]
      BY <2>1, <2>2
    <3> QED BY <3>1, <3>2, SameBag
  <2>5. \A j \in Kinds : bag[j] \in 0..4
    BY <1>7, BagIs
  <2> QED BY <2>1, <2>2, <2>4, <2>5
<1> PICK n : n = Total(held')
  OBVIOUS
<1>9. n = Total(bag) - m
  BY <1>3, <1>7, <1>8, TotalWithout
<1>10. n \in Int /\ n % 3 = 1 /\ n <= HandSize
  <2>1. m = 1 \/ m = 4
    BY <1>6
  <2> QED BY <1>7, <1>9, <2>1, HandSizeAssumption
<1>11. SizeKept'
  BY <1>3, <1>10, SizeNext
<1> QED BY <1>3, <1>4, <1>11, NothingAsked, ServerNoCrash

(* No step of the server makes a throw or an answer fail.                  *)
LEMMA ServerSpares ==
  ASSUME Inv, ThrowKept, Server
  PROVE  ThrowKept' /\ CrashNeedsLoss'
<1>1. CASE ServerJoins \/ ServerAuthenticates \/ ServerStarts
  BY <1>1, LobbySpares
<1>2. CASE ServerTakesWin \/ ServerEnds
  BY <1>2, EndsSpare
<1>3. CASE ServerDeals
  BY <1>3, DealSpares
<1>4. CASE ServerDraws
  BY <1>4, DrawSpares
<1>5. CASE ServerTakesThrow
  BY <1>5, TakenThrowSpares
<1>6. CASE OtherThrows
  BY <1>6, OtherThrowSpares
<1>7. CASE ServerTakesNone
  BY <1>7, NoneSpares
<1>8. CASE Refused
  BY <1>8, RefusedSpares
<1>9. CASE ServerGrants
  BY <1>9, GrantSpares
<1>10. CASE ServerGrantsKong
  BY <1>10, KongSpares
<1>11. CASE OtherClaims
  BY <1>11, OtherClaimSpares
<1> QED BY <1>1, <1>2, <1>3, <1>4, <1>5, <1>6, <1>7, <1>8, <1>9, <1>10, <1>11 DEF Server

(* What main() does changes neither the table nor the queues; it joins     *)
(* before the first deal.                                                  *)
LEMMA MainSpares ==
  ASSUME Inv, ThrowKept, CrashNeedsLoss,
         OnConnected \/ MainWaits \/ MainBinds \/ MainJoins \/ UNCHANGED vars
  PROVE  ThrowKept' /\ CrashNeedsLoss'
<1>1. botVars' = botVars /\ events' = events /\ tableVars' = tableVars
  BY DEF OnConnected, MainWaits, MainBinds, MainJoins, vars
<1>2. CrashNeedsLoss'
  BY <1>1 DEF CrashNeedsLoss, botVars, tableVars
<1>3. CASE MainJoins
  <2>1. phase' = "lobby"
    BY <1>1, <1>3, BeforeTheLoop DEF MainJoins, tableVars
  <2> QED BY <1>2, <2>1, NoTurn
<1>4. CASE replies' = replies
  <2>1. /\ phase' = phase /\ held' = held /\ drawn' = drawn /\ thrown' = thrown
        /\ missing' = missing /\ crashed' = crashed /\ player' = player
    BY <1>1 DEF botVars, idVars, playerVars, meldVars, tileVars, tableVars, player
  <2>2. SizeKept'
    BY <2>1, ThrowPartsNext DEF ThrowKept, SizeKept, ToThrow
  <2>3. WinsKept'
    <3>1. (Pending("command")' <=> Pending("command")) /\ (Answered' <=> Answered)
      BY <1>1, <1>4, <2>1 DEF Pending, Answered
    <3>2. WinsKept
      BY DEF ThrowKept
    <3> QED BY <1>1, <1>4, <2>1, <3>1, <3>2, ThrowPartsNext DEF WinsKept
  <2>4. WholeHand'
    <3>1. Pending("throw")' <=> Pending("throw")
      BY <1>1, <1>4, <2>1 DEF Pending
    <3>2. WholeHand
      BY DEF ThrowKept
    <3> QED BY <1>1, <2>1, <3>1, <3>2, ThrowPartsNext DEF WholeHand
  <2> QED BY <1>2, <2>2, <2>3, <2>4 DEF ThrowKept
<1> QED BY <1>3, <1>4 DEF OnConnected, MainWaits, MainBinds, vars

(* Every step keeps the hand fit to throw from, and crashes the bot only   *)
(* after a loss.                                                           *)
LEMMA NextSpares ==
  Inv /\ ThrowKept /\ CrashNeedsLoss /\ [Next]_vars => ThrowKept' /\ CrashNeedsLoss'
<1> SUFFICES ASSUME Inv, ThrowKept, CrashNeedsLoss, [Next]_vars
             PROVE  ThrowKept' /\ CrashNeedsLoss'
  OBVIOUS
<1>1. CASE OnConnected \/ MainWaits \/ MainBinds \/ MainJoins \/ UNCHANGED vars
  BY <1>1, MainSpares
<1>2. CASE Listeners
  BY <1>2, ListenersSpare
<1>3. CASE Server
  BY <1>3, ServerSpares
<1> QED BY <1>1, <1>2, <1>3 DEF Next

(* Before the bot has joined there is neither hand nor crash.              *)
LEMMA InitSpares == Init => ThrowKept /\ CrashNeedsLoss
BY DEF Init, ThrowKept, SizeKept, WinsKept, WholeHand, CrashNeedsLoss

(* Whatever is dealt, claimed and drawn, the bot that is asked to throw has*)
(* a hand of a size that has no split without rest, lets no winning hand   *)
(* pass, and, unless a tile was lost, throws from all it holds (Throw and  *)
(* onlyThrow in Irb00.cpp and bot.cpp).                                    *)
THEOREM ThrowsKept == Spec => []ThrowKept
<1>1. Init => Inv /\ ThrowKept /\ CrashNeedsLoss
  BY InitInv, InitSpares
<1>2. Inv /\ ThrowKept /\ CrashNeedsLoss /\ [Next]_vars
        => (Inv /\ ThrowKept /\ CrashNeedsLoss)'
  BY NextInv, NextSpares
<1> QED BY <1>1, <1>2, PTL DEF Spec

(* The bot crashes on an empty choice, in Throw or where an answer is made,*)
(* only if it has lost a tile of its hand before: by itself the search     *)
(* never comes back without a tile to throw.                               *)
THEOREM CrashTakesLoss == Spec => []CrashNeedsLoss
<1>1. Init => Inv /\ ThrowKept /\ CrashNeedsLoss
  BY InitInv, InitSpares
<1>2. Inv /\ ThrowKept /\ CrashNeedsLoss /\ [Next]_vars
        => (Inv /\ ThrowKept /\ CrashNeedsLoss)'
  BY NextInv, NextSpares
<1> QED BY <1>1, <1>2, PTL DEF Spec

-----------------------------------------------------------------------------
(* The search and the game.                                                *)

(* In a deal the hand can be searched, and has a distance.                 *)
LEMMA HeldSearched ==
  ASSUME Inv, ThrowKept, InDeal
  PROVE  /\ held \in Bags /\ Total(held) <= HandSize + 1
         /\ Total(held) \in 1..HandSize + 1 /\ Total(held) % 3 # 0
         /\ StepToHu[held] \in Nat
<1>1. /\ held \in Bags /\ Total(held) \in Nat
      /\ ~ToThrow => Total(held) % 3 = 1 /\ Total(held) <= HandSize
      /\ ToThrow => Total(held) % 3 = 2 /\ Total(held) <= HandSize + 1
  BY HeldSize DEF InDeal
<1> PICK n : n = Total(held)
  OBVIOUS
<1>2. n <= HandSize + 1 /\ n % 3 # 0 /\ n \in Nat /\ HandSize \in Nat
  BY <1>1, HandSizeAssumption
<1>3. n \in 1..HandSize + 1
  BY <1>2
<1> QED BY <1>1, <1>2, <1>3, BestSplit

LEMMA NotTooFar ==
  ASSUME Inv, ThrowKept
  PROVE  NeverTooFar
<1> SUFFICES ASSUME InDeal PROVE StepToHu[held] <= Distance[held]
  BY DEF NeverTooFar
<1>1. /\ held \in Bags /\ Total(held) <= HandSize + 1
      /\ Total(held) \in 1..HandSize + 1 /\ Total(held) % 3 # 0
  BY HeldSearched
<1>2. PICK won \in Winning[Total(held) \div 3] : Distance[held] = Misses(held, won)
  BY <1>1, DistanceFrom
<1> QED BY <1>1, <1>2, StepsSuffice

LEMMA ZeroWhenWon ==
  ASSUME Inv, ThrowKept
  PROVE  NoStepWhenWon
<1> SUFFICES ASSUME InDeal
             PROVE  Complete(held) <=> Total(held) % 3 = 2 /\ StepToHu[held] = 0
  BY DEF NoStepWhenWon
<1>1. /\ held \in Bags /\ Total(held) <= HandSize + 1 /\ StepToHu[held] \in Nat
  BY HeldSearched
<1>2. ASSUME Complete(held) PROVE Total(held) % 3 = 2 /\ StepToHu[held] = 0
  <2>1. Total(held) % 3 = 2 /\ Distance[held] = 0
    BY <1>2 DEF Complete
  <2>2. StepToHu[held] <= Distance[held]
    BY NotTooFar DEF NeverTooFar
  <2> QED BY <1>1, <2>1, <2>2
<1>3. ASSUME Total(held) % 3 = 2, StepToHu[held] = 0 PROVE Complete(held)
  BY <1>1, <1>3, NoStepIsWon
<1> QED BY <1>2, <1>3

(* Of no hand that the bot holds in a deal does the search count more      *)
(* steps than the nearest winning hand is away (StepToHu1617, Irb00.cpp):  *)
(* sizes are kept, so that the search has a count for it.                  *)
THEOREM StepsNotTooFar == Spec => []NeverTooFar
<1>1. Inv /\ ThrowKept => NeverTooFar
  BY NotTooFar
<1> QED BY <1>1, Invariance, ThrowsKept, PTL

(* The hands of which the search counts no step are those the game calls   *)
(* won: where the server offers the win, nothing is left to throw for, and *)
(* where it does not a step is left.                                       *)
THEOREM NoStepsWhenWon == Spec => []NoStepWhenWon
<1>1. Inv /\ ThrowKept => NoStepWhenWon
  BY ZeroWhenWon
<1> QED BY <1>1, Invariance, ThrowsKept, PTL

-----------------------------------------------------------------------------
(* The answers and the search.                                             *)

(* What Pays says of a hand, a thrown tile and an answer, and that meld by *)
(* meld.                                                                   *)
PaysFrom(bag, card, reply) ==
  LET tile == IF reply.what = "EAT" THEN <<reply.tile, card>> ELSE reply.tile
      granted == <<Event("success", Me, reply.what, tile),
                   Event("broadcastCommand", Me, reply.what, tile)>>
      after == StepToHu[Without(bag, FromHand(granted[1]))] IN
  /\ reply.name = "throwTile" => StepToHu[Minus(bag, reply.tile)] = StepToHu[bag]
  /\ reply.name = "sendCommand" =>
       /\ reply.what \in {"EAT", "PON"} => after = StepToHu[bag] - 1
       /\ reply.what \in {"ANGON", "PONGON"} => after = StepToHu[bag]
PaysByMeld(bag, card, reply) ==
  /\ reply.name = "throwTile" => StepToHu[Minus(bag, reply.tile)] = StepToHu[bag]
  /\ reply.name = "sendCommand" =>
       /\ reply.what = "EAT" => Helps(bag, Each(Chow(reply.tile) \ {card}))
       /\ reply.what = "PON" => Helps(bag, Several(reply.tile, 2))
       /\ reply.what = "ANGON" =>
            StepToHu[Without(bag, Several(reply.tile, 4))] = StepToHu[bag]
       /\ reply.what = "PONGON" =>
            StepToHu[Without(bag, Several(reply.tile, 1))] = StepToHu[bag]

(* An answer that pays meld by meld pays.                                  *)
LEMMA PaysMeld ==
  ASSUME NEW bag, NEW card, NEW reply, PaysByMeld(bag, card, reply)
  PROVE  PaysFrom(bag, card, reply)
<1> DEFINE tile == IF reply.what = "EAT" THEN <<reply.tile, card>> ELSE reply.tile
           e == Event("success", Me, reply.what, tile)
           granted == <<e, Event("broadcastCommand", Me, reply.what, tile)>>
<1>1. granted[1] = e /\ e.what = reply.what /\ e.tile = tile
  BY DEF Event
<1>2. /\ reply.what = "EAT" => FromHand(e) = Each(Chow(reply.tile) \ {card})
      /\ reply.what = "PON" => FromHand(e) = Several(reply.tile, 2)
      /\ reply.what = "ANGON" => FromHand(e) = Several(reply.tile, 4)
      /\ reply.what = "PONGON" => FromHand(e) = Several(reply.tile, 1)
  <2>1. reply.what = "EAT" => e.tile[1] = reply.tile /\ e.tile[2] = card
    BY <1>1
  <2>2. reply.what # "EAT" => e.tile = reply.tile
    BY <1>1
  <2> HIDE DEF tile, e
  <2> QED BY <1>1, <2>1, <2>2 DEF FromHand
<1> DEFINE after == StepToHu[Without(bag, FromHand(granted[1]))]
<1>3. after = StepToHu[Without(bag, FromHand(e))]
  BY <1>1, Zenon
<1>4. reply.name = "sendCommand" =>
       /\ reply.what \in {"EAT", "PON"} => after = StepToHu[bag] - 1
       /\ reply.what \in {"ANGON", "PONGON"} => after = StepToHu[bag]
  <2> HIDE DEF after, e
  <2> QED BY <1>2, <1>3 DEF PaysByMeld, Helps
<1>5. reply.name = "throwTile" => StepToHu[Minus(bag, reply.tile)] = StepToHu[bag]
  BY DEF PaysByMeld
<1> QED BY <1>4, <1>5, Zenon DEF PaysFrom

(* What AnswersPay says now, and in the next state.                        *)
LEMMA PayNow ==
  AnswersPay <=>
    (missing = NoTiles => \A i \in DOMAIN replies : PaysFrom(held, thrown, replies[i]))
BY Zenon DEF AnswersPay, Pays, Granted, PaysFrom

LEMMA PayNext ==
  AnswersPay' <=>
    (missing' = NoTiles => \A i \in DOMAIN replies' : PaysFrom(held', thrown', replies'[i]))
BY Zenon DEF AnswersPay, Pays, Granted, PaysFrom

(* An answer that was there, and pays, goes on paying at the same table.   *)
LEMMA PayKept ==
  ASSUME AnswersPay, replies' = replies, UNCHANGED tableVars
  PROVE  AnswersPay'
<1>1. missing' = missing /\ held' = held /\ thrown' = thrown
  BY DEF tableVars
<1> QED BY <1>1, PayNow, PayNext

(* The only answer there is.                                               *)
LEMMA PayAlone ==
  ASSUME NEW reply, replies' = <<reply>>,
         missing' = NoTiles => PaysByMeld(held', thrown', reply)
  PROVE  AnswersPay'
<1> PICK bag, card : bag = held' /\ card = thrown'
  OBVIOUS
<1>1. missing' = NoTiles => PaysFrom(held', thrown', reply)
  <2>1. PaysByMeld(bag, card, reply) => PaysFrom(bag, card, reply)
    BY PaysMeld
  <2> QED BY <2>1, Zenon
<1>2. DOMAIN replies' = {1} /\ replies'[1] = reply
  OBVIOUS
<1> QED BY <1>1, <1>2, PayNext

(* What waits in the lobby is neither a throw nor a claim.                 *)
LEMMA NamedFew ==
  ASSUME NEW s
  PROVE  /\ \A a : Named(s, <<a>>) => \A i \in DOMAIN s : s[i].name = a
         /\ \A a, b : Named(s, <<a, b>>) => \A i \in DOMAIN s : s[i].name \in {a, b}
<1>1. ASSUME NEW a, Named(s, <<a>>), NEW i \in DOMAIN s PROVE s[i].name = a
  <2>1. Len(s) = 1 /\ s[1].name = a /\ DOMAIN s = 1..Len(s)
    BY <1>1, SequenceShape DEF Named
  <2> QED BY <1>1, <2>1
<1>2. ASSUME NEW a, NEW b, Named(s, <<a, b>>), NEW i \in DOMAIN s
      PROVE  s[i].name \in {a, b}
  <2>1. Len(s) = 2 /\ s[1].name = a /\ s[2].name = b /\ DOMAIN s = 1..Len(s)
    BY <1>2, SequenceShape DEF Named
  <2>2. i = 1 \/ i = 2
    BY <1>2, <2>1
  <2> QED BY <2>1, <2>2
<1> QED BY <1>1, <1>2

(* Where nothing is answered, or only the lobby is, everything pays.       *)
LEMMA FreelyPaid ==
  ASSUME Inv', phase' \notin {"discard", "options"} \/ replies' = <<>>
  PROVE  AnswersPay'
<1>1. ASSUME replies' = <<>> PROVE AnswersPay'
  <2>1. DOMAIN replies' = {}
    BY <1>1
  <2> QED BY <2>1, PayNext
<1>2. TurnKept' /\ LobbyKept'
  BY Zenon DEF Inv, Support
<1>3. CASE phase' = "lobby"
  <2>1. \/ replies' = <<>> \/ Named(replies', <<"join">>)
        \/ Named(replies', <<"auth", "ready">>) \/ Named(replies', <<"ready">>)
    BY <1>2, <1>3, Zenon DEF LobbyKept
  <2> PICK s : s = replies'
    OBVIOUS
  <2>2. s # <<>> => \A i \in DOMAIN s : s[i].name \in {"join", "auth", "ready"}
    BY <2>1, NamedFew
  <2>3. \A r : r.name \in {"join", "auth", "ready"} => PaysFrom(held', thrown', r)
    BY DEF PaysFrom
  <2> QED BY <1>1, <2>2, <2>3, PayNext
<1>4. CASE phase' \notin {"lobby", "discard", "options"}
  <2>1. replies' = <<>>
    BY <1>2, <1>4, Zenon DEF TurnKept
  <2> QED BY <1>1, <2>1
<1> QED BY <1>1, <1>3, <1>4

(* The server takes the answer, or waits for none.                         *)
LEMMA ServerPaid ==
  ASSUME Inv, Inv', Server
  PROVE  AnswersPay'
<1>1. CASE phase \in {"discard", "options"} /\ replies # <<>> /\ replies' = Tail(replies)
  BY <1>1, AnsweredServer, FreelyPaid
<1>2. CASE phase \in {"over", "idle", "kong"} /\ replies' = replies
  BY <1>2, FreeServer, FreelyPaid
<1>3. CASE ServerJoins \/ ServerAuthenticates \/ ServerStarts
  <2>1. /\ replies # <<>> /\ Head(replies).name \in {"join", "auth", "ready"}
        /\ phase' \in {phase, "over"}
    BY <1>3 DEF ServerJoins, ServerAuthenticates, ServerStarts, Takes
  <2>2. phase = "lobby"
    BY <2>1, LobbyReply
  <2> QED BY <2>1, <2>2, FreelyPaid
<1>4. CASE ServerDeals \/ ServerDraws \/ OtherThrows \/ OtherClaims \/ ServerEnds
  BY <1>2, <1>4 DEF ServerDeals, ServerDraws, OtherThrows, OtherClaims, ServerEnds
<1>5. CASE \/ ServerTakesThrow \/ ServerTakesNone \/ ServerTakesWin \/ Refused
           \/ ServerGrants \/ ServerGrantsKong
  BY <1>1, <1>5 DEF ServerTakesThrow, ServerTakesNone, ServerTakesWin, Refused,
                    ServerGrants, ServerGrantsKong, Takes
<1> QED BY <1>3, <1>4, <1>5 DEF Server

(* main() joins, and answers nothing else.                                 *)
LEMMA MainPaid ==
  ASSUME Inv, Inv', AnswersPay,
         OnConnected \/ MainWaits \/ MainBinds \/ MainJoins \/ UNCHANGED vars
  PROVE  AnswersPay'
<1>1. CASE MainJoins
  <2>1. phase' = "lobby"
    BY <1>1, BeforeTheLoop DEF MainJoins, tableVars
  <2> QED BY <2>1, FreelyPaid
<1>2. CASE OnConnected \/ MainWaits \/ MainBinds \/ UNCHANGED vars
  <2>1. replies' = replies /\ tableVars' = tableVars
    BY <1>2 DEF OnConnected, MainWaits, MainBinds, vars
  <2> QED BY <2>1, PayKept
<1> QED BY <1>1, <1>2

(* Throw picks among the tiles that cost no step, and with none lost it    *)
(* looks at the hand the server knows.                                     *)
LEMMA ThrowPays ==
  ASSUME Inv, ThrowKept, AnswersPay, OnThrow
  PROVE  AnswersPay'
<1> PICK bag : bag = IF onlyThrow THEN Hand ELSE Plus(Hand, drawTile)
  OBVIOUS
<1> PICK tile : tile = Throw(bag, discards)
  OBVIOUS
<1>1. /\ events # <<>> /\ events' = Tail(events) /\ Head(events).name = "throw"
      /\ ~crashed /\ UNCHANGED tableVars
      /\ \/ replies' = replies
         \/ tile # NoTile /\ replies' = Append(replies, Reply("throwTile", NoCommand, tile))
  BY DEF OnThrow, Arrives, Sends
<1>2. held' = held /\ thrown' = thrown /\ missing' = missing
  BY <1>1 DEF tableVars
<1>3. /\ Asked(player, events) = player /\ phase = "discard" /\ Pending("throw")
  BY <1>1, AskedNow DEF Asking
<1>4. missing = NoTiles => bag = held
  <2>1. ThrowsFrom(player) = bag
    BY DEF ThrowsFrom, player
  <2> QED BY <1>3, <2>1 DEF ThrowKept, WholeHand
<1>5. ASSUME tile # NoTile, replies' = Append(replies, Reply("throwTile", NoCommand, tile))
      PROVE  AnswersPay'
  <2> PICK reply : reply = Reply("throwTile", NoCommand, tile)
    OBVIOUS
  <2>1. reply.name = "throwTile" /\ reply.tile = tile
    BY ReplyIs
  <2>2. replies' = <<reply>>
    <3>1. replies = <<>> /\ replies' = Append(replies, reply)
      BY <1>3, <1>5 DEF Pending
    <3> QED BY <3>1
  <2>3. ASSUME missing = NoTiles PROVE StepToHu[Minus(held, tile)] = StepToHu[held]
    <3>1. bag = held
      BY <1>4, <2>3
    <3>2. held \in [Kinds -> Nat] /\ discards \in [Kinds -> Nat]
      <4>1. held \in [Kinds -> 0..4] /\ discards \in [Kinds -> 0..4]
        BY DEF Inv, TypeOK
      <4> QED BY <4>1
    <3>3. Throw(held, discards) # NoTile
      BY <1>5, <3>1
    <3>4. tile \in Candidates(held)
      BY <3>1, <3>2, <3>3, ThrowIs
    <3> QED BY <3>4, Zenon DEF Candidates
  <2>4. missing' = NoTiles => PaysByMeld(held', thrown', reply)
    BY <1>2, <2>1, <2>3 DEF PaysByMeld
  <2> QED BY <2>2, <2>4, PayAlone
<1> QED BY <1>1, <1>5, PayKept

(* On its own turn the bot names a kong that costs no step.                *)
LEMMA OwnPays ==
  ASSUME Inv, phase = "options", Agrees(player), drawn # NoTile, missing = NoTiles,
         NEW can, Given(can), NEW borrowed, NEW cmd, cmd = Answer(can, borrowed),
         cmd[2] # NoTile
  PROVE  PaysByMeld(held, thrown, Reply("sendCommand", cmd[1], cmd[2]))
<1>1. can = OwnOptions(held) /\ can # {} /\ can \subseteq {"ZIMO", "ANGON", "PONGON"}
  BY DEF Given, OwnOptions
<1>2. OwnTurn(can)
  BY <1>1 DEF OwnTurn
<1>3. /\ Hand \in [Kinds -> 0..4] /\ discards \in [Kinds -> 0..4] /\ pon \subseteq Kinds
      /\ held \in [Kinds -> 0..4] /\ drawTile = drawn /\ drawn \in Kinds
  BY KnownHand
<1>4. cmd = WannaHuGon(Hand, discards, pon, can, drawn)
  BY <1>2, <1>3 DEF Answer
<1> PICK bag : bag = Put(Hand, drawn)
  OBVIOUS
<1> PICK k, what : k = cmd[2] /\ what = cmd[1]
  OBVIOUS
<1>5. /\ k \in Kinds
      /\ \/ what = "ZIMO"
         \/ what = "ANGON" /\ bag[k] = 4
         \/ what = "PONGON" /\ bag[k] = 1
         \/ what = "NONE"
      /\ what \in {"ANGON", "PONGON"} => GoodGon(bag, k)
  BY <1>3, <1>4, OwnAnswerIs
<1>6. bag = held
  <2>1. \A j \in Kinds : held[j] = Hand[j] + missing[j] + (IF drawn = j THEN 1 ELSE 0)
    BY DEF Agrees, player
  <2>2. \A j \in Kinds : missing[j] = 0
    BY DEF NoTiles
  <2>3. \A j \in Kinds : bag[j] = IF j = drawn /\ (~Suited(j) \/ Hand[j] < 4)
                                  THEN Hand[j] + 1 ELSE Hand[j]
    BY <1>3 DEF Put
  <2>4. ASSUME NEW j \in Kinds PROVE bag[j] = held[j]
    <3>1. /\ held[j] = Hand[j] + missing[j] + (IF drawn = j THEN 1 ELSE 0)
          /\ missing[j] = 0 /\ Hand[j] \in 0..4 /\ held[j] \in 0..4
          /\ bag[j] = IF j = drawn /\ (~Suited(j) \/ Hand[j] < 4)
                      THEN Hand[j] + 1 ELSE Hand[j]
      BY <1>3, <2>1, <2>2, <2>3
    <3> QED BY <3>1
  <2>5. bag \in [Kinds -> Int] /\ held \in [Kinds -> Int]
    <3>1. held \in [Kinds -> Int]
      BY <1>3
    <3>2. bag = [j \in Kinds |-> bag[j]]
      BY <1>3 DEF Put
    <3>3. \A j \in Kinds : bag[j] \in Int
      BY <2>4, <3>1
    <3> QED BY <3>1, <3>2, <3>3
  <2> QED BY <2>4, <2>5, SameBag
<1>7. /\ what = "ANGON" => StepToHu[Without(held, Several(k, 4))] = StepToHu[held]
      /\ what = "PONGON" => StepToHu[Without(held, Several(k, 1))] = StepToHu[held]
      /\ what \notin {"EAT", "PON"}
  BY <1>5, <1>6 DEF GoodGon
<1> PICK reply : reply = Reply("sendCommand", what, k)
  OBVIOUS
<1>8. reply.name = "sendCommand" /\ reply.what = what /\ reply.tile = k
  BY ReplyIs
<1>9. PaysByMeld(held, thrown, reply)
  BY <1>7, <1>8 DEF PaysByMeld
<1> QED BY <1>9

(* On another player's turn it claims what is a step less: the server      *)
(* offers a claim only to a hand that has its tiles, so that no digit of   *)
(* HelpsOrNot borrows from the next one.                                   *)
LEMMA ClaimPays ==
  ASSUME Inv, phase = "options", Agrees(player), drawn = NoTile, missing = NoTiles,
         NEW can, Given(can), NEW borrowed, NEW cmd, cmd = Answer(can, borrowed)
  PROVE  PaysByMeld(held, thrown, Reply("sendCommand", cmd[1], cmd[2]))
<1>1. /\ "EAT" \in can => Suited(thrown) /\ \E place \in 0..2 : HasTiles(held, EatTiles(thrown, place))
      /\ "PON" \in can => held[thrown] >= 2
      /\ can \cap {"ZIMO", "ANGON", "PONGON"} = {}
  BY DEF Given, Offers, CanEat
<1>2. ~OwnTurn(can)
  BY <1>1 DEF OwnTurn
<1>3. /\ Hand \in [Kinds -> 0..4] /\ held \in [Kinds -> 0..4]
      /\ \A k \in Kinds : Hand[k] <= held[k]
      /\ throwTile = thrown /\ thrown \in Kinds
  BY KnownHand
<1>4. Hand = held
  <2>1. \A j \in Kinds : held[j] = Hand[j] + missing[j] + (IF drawn = j THEN 1 ELSE 0)
    BY DEF Agrees, player
  <2>2. NoTile \notin Kinds
    BY KindIs
  <2>3. ASSUME NEW j \in Kinds PROVE Hand[j] = held[j]
    <3>1. /\ held[j] = Hand[j] + missing[j] + (IF drawn = j THEN 1 ELSE 0)
          /\ missing[j] = 0 /\ Hand[j] \in 0..4 /\ drawn # j
      BY <1>3, <2>1, <2>2 DEF NoTiles
    <3> QED BY <3>1
  <2>4. Hand \in [Kinds -> Int] /\ held \in [Kinds -> Int]
    BY <1>3
  <2> QED BY <2>3, <2>4, SameBag
<1> PICK claim : claim = WannaHGPE(Hand, can, thrown, borrowed)
  OBVIOUS
<1> PICK low : low = Lowest(thrown, claim[2])
  OBVIOUS
<1>5. cmd = <<claim[1], low>>
  BY <1>2, <1>3, Zenon DEF Answer
<1>6. /\ claim[1] = "EAT" => Helps(held, Each(Chow(low) \ {thrown}))
      /\ claim[1] = "PON" => low = thrown /\ Helps(held, Several(thrown, 2))
  <2>1. claim = WannaHGPE(held, can, thrown, borrowed)
    BY <1>4
  <2> QED BY <1>1, <1>3, <2>1, ClaimHelps
<1>7. \/ claim[1] = "HU" \/ claim[1] = "EAT" \/ claim[1] = "PON" \/ claim[1] = "NONE"
  BY <1>1, <1>3, OtherAnswerIs, ZenonT(60)
<1> PICK k, what : k = cmd[2] /\ what = cmd[1]
  OBVIOUS
<1>8. k = low /\ what = claim[1]
  BY <1>5
<1> PICK reply : reply = Reply("sendCommand", what, k)
  OBVIOUS
<1>9. reply.name = "sendCommand" /\ reply.what = what /\ reply.tile = k
  BY ReplyIs
<1>10. PaysByMeld(held, thrown, reply)
  BY <1>6, <1>7, <1>8, <1>9 DEF PaysByMeld
<1> QED BY <1>10

(* The listener that is asked for a claim.                                 *)
LEMMA CommandPays ==
  ASSUME Inv, AnswersPay, OnCommand
  PROVE  AnswersPay'
<1>1. /\ events # <<>> /\ events' = Tail(events) /\ Head(events).name = "command"
      /\ ~crashed /\ UNCHANGED tableVars
  BY DEF OnCommand, Arrives
<1>2. PICK borrowed \in SUBSET {"EAT", "PON"} :
        LET cmd == Answer(Head(events).what, borrowed) IN
        \/ cmd[2] = NoTile /\ crashed' = TRUE /\ UNCHANGED replies
        \/ /\ cmd[2] # NoTile /\ UNCHANGED crashed
           /\ replies' = Append(replies, Reply("sendCommand", cmd[1], cmd[2]))
  BY Zenon DEF OnCommand, Sends
<1> PICK can, cmd : can = Head(events).what /\ cmd = Answer(can, borrowed)
  OBVIOUS
<1>3. \/ replies' = replies
      \/ /\ cmd[2] # NoTile
         /\ replies' = Append(replies, Reply("sendCommand", cmd[1], cmd[2]))
  BY <1>2
<1>4. /\ phase = "options" /\ Given(can) /\ InTheEnd = player /\ replies = <<>>
  <2>1. Handled(player, Head(events)) = player
    BY <1>1, HandledOther
  <2> QED BY <1>1, <2>1, AskedLast DEF Asking
<1>5. Agrees(player)
  <2>1. deals > 0
    BY <1>4, TurnsAreDealt
  <2> QED BY <1>1, <1>4, <2>1 DEF Inv, Support, AgreesInTheEnd
<1>6. held' = held /\ thrown' = thrown /\ missing' = missing
  BY <1>1 DEF tableVars
<1>7. ASSUME cmd[2] # NoTile,
             replies' = Append(replies, Reply("sendCommand", cmd[1], cmd[2]))
      PROVE  AnswersPay'
  <2> PICK reply : reply = Reply("sendCommand", cmd[1], cmd[2])
    OBVIOUS
  <2>1. replies' = <<reply>>
    <3>1. replies = <<>> /\ replies' = Append(replies, reply)
      BY <1>4, <1>7
    <3> QED BY <3>1
  <2>2. missing = NoTiles => PaysByMeld(held, thrown, reply)
    BY <1>4, <1>5, <1>7, OwnPays, ClaimPays
  <2>3. missing' = NoTiles => PaysByMeld(held', thrown', reply)
    BY <1>6, <2>2
  <2> QED BY <2>1, <2>3, PayAlone
<1> QED BY <1>1, <1>3, <1>7, PayKept

(* The others answer nothing, or only greet.                               *)
LEMMA ListenersPay ==
  ASSUME Inv, Inv', ThrowKept, AnswersPay, Listeners
  PROVE  AnswersPay'
<1>1. CASE OnThrow
  BY <1>1, ThrowPays
<1>2. CASE OnCommand
  BY <1>2, CommandPays
<1>3. CASE OnReadyToStart
  <2>1. events # <<>> /\ Head(events).name = "readyToStart" /\ phase' = phase
    BY <1>3 DEF OnReadyToStart, Arrives, tableVars
  <2>2. phase' = "lobby"
    BY <2>1, ArrivesWhen
  <2> QED BY <2>2, FreelyPaid
<1>4. CASE \/ OnJoinAck \/ OnReadyAck \/ OnDealTile \/ OnDraw \/ OnBroadcastThrow
           \/ OnSuccess \/ OnBroadcastCommand
  <2>1. replies' = replies /\ tableVars' = tableVars
    BY <1>4 DEF OnJoinAck, OnReadyAck, OnDealTile, OnDraw, OnBroadcastThrow, OnSuccess,
                OnBroadcastCommand
  <2> QED BY <2>1, PayKept
<1> QED BY <1>1, <1>2, <1>3, <1>4 DEF Listeners

(* Every step.                                                             *)
LEMMA NextPays ==
  Inv /\ Inv' /\ ThrowKept /\ AnswersPay /\ [Next]_vars => AnswersPay'
<1> SUFFICES ASSUME Inv, Inv', ThrowKept, AnswersPay, [Next]_vars
             PROVE  AnswersPay'
  OBVIOUS
<1>1. CASE OnConnected \/ MainWaits \/ MainBinds \/ MainJoins \/ UNCHANGED vars
  BY <1>1, MainPaid
<1>2. CASE Listeners
  BY <1>2, ListenersPay
<1>3. CASE Server
  BY <1>3, ServerPaid
<1> QED BY <1>1, <1>2, <1>3 DEF Next

(* As long as no tile is lost, whatever the bot answers pays on the hand   *)
(* that the server knows: a throw and a kong cost no step of the search, a *)
(* claim is one step less (Throw, GonOrNot, PonOrNot and EatOrNot in       *)
(* Irb00.cpp; the record of the hand in main.cpp).                         *)
THEOREM AnswersAlwaysPay == Spec => []AnswersPay
<1>1. Init => AnswersPay
  <2>1. Init => replies = <<>>
    BY DEF Init
  <2>2. replies = <<>> => DOMAIN replies = {}
    OBVIOUS
  <2> QED BY <2>1, <2>2, PayNow
<1>2. AnswersPay /\ Inv /\ Inv' /\ ThrowKept /\ [Next]_vars => AnswersPay'
  BY NextPays
<1> QED BY <1>1, <1>2, Invariance, ThrowsKept, PTL DEF Spec

(* The hand of a deal has its steps and its distance.                      *)
Counted == InDeal => StepToHu[held] \in Nat /\ Distance[held] \in Nat

(* It has, since its size is kept.                                         *)
LEMMA StepsCounted ==
  ASSUME Inv, ThrowKept
  PROVE  Counted
<1> SUFFICES ASSUME InDeal PROVE StepToHu[held] \in Nat /\ Distance[held] \in Nat
  BY DEF Counted
<1>1. /\ held \in Bags /\ Total(held) <= HandSize + 1 /\ StepToHu[held] \in Nat
      /\ Total(held) \in 1..HandSize + 1 /\ Total(held) % 3 # 0
  BY HeldSearched
<1>2. PICK n \in Nat, r \in 0..2 : Total(held) = 3 * n + r /\ n = Total(held) \div 3
  <2>1. Total(held) \in Nat
    BY <1>1, HandSizeAssumption
  <2>2. Total(held) \div 3 \in Nat /\ Total(held) % 3 \in 0..2
    BY <2>1
  <2>3. Total(held) = 3 * (Total(held) \div 3) + (Total(held) % 3)
    BY <2>1
  <2> QED BY <2>2, <2>3
<1>3. n \in 0..Most
  <2>1. 3 * n <= HandSize + 1 /\ HandSize \in Nat /\ HandSize % 3 = 1
    BY <1>1, <1>2, HandSizeAssumption
  <2>2. n <= HandSize \div 3
    BY <2>1
  <2> QED BY <2>1, <2>2 DEF Most
<1>4. Distance[held] \in Nat
  <2>1. PICK won \in Winning[Total(held) \div 3] : Distance[held] = Misses(held, won)
    BY <1>1, DistanceFrom
  <2>2. won \in Bags
    BY <1>2, <1>3, <2>1, WinningIs
  <2> QED BY <1>1, <2>1, <2>2, MissesIs
<1> QED BY <1>1, <1>4

(* The answer that the server takes pays.                                  *)
LEMMA FirstPays ==
  ASSUME AnswersPay, missing = NoTiles, replies # <<>>, replies = <<Head(replies)>>
  PROVE  PaysFrom(held, thrown, Head(replies))
<1> PICK r : r = Head(replies)
  OBVIOUS
<1>1. DOMAIN replies = {1} /\ replies[1] = r
  <2>1. replies = <<r>>
    OBVIOUS
  <2> QED BY <2>1
<1> QED BY <1>1, PayNow

(* So the steps of the hand the server knows follow what is granted.       *)
LEMMA StepsFollow ==
  ASSUME Inv, AnswersPay, missing = NoTiles
  PROVE  /\ ServerTakesThrow => StepToHu[held'] = StepToHu[held]
         /\ ServerGrants => StepToHu[held'] = StepToHu[held] - 1
         /\ ServerGrantsKong => StepToHu[held'] = StepToHu[held]
<1> PICK reply : reply = Head(replies)
  OBVIOUS
<1>1. ASSUME phase \in {"discard", "options"}, replies # <<>>
      PROVE  PaysFrom(held, thrown, reply)
  <2>1. Answered
    BY <1>1, AnsweredIs
  <2> QED BY <1>1, <2>1, FirstPays DEF Answered
<1>2. ASSUME ServerTakesThrow PROVE StepToHu[held'] = StepToHu[held]
  <2>1. /\ phase = "discard" /\ replies # <<>> /\ reply.name = "throwTile"
        /\ held' = Take(held, reply.tile)
    BY <1>2, Zenon DEF ServerTakesThrow, Takes
  <2>2. Acceptable(reply)
    BY <2>1, AnsweredIs
  <2>3. held[reply.tile] > 0
    BY <2>1, <2>2 DEF Acceptable
  <2>4. held' = Minus(held, reply.tile)
    BY <2>1, <2>3 DEF Take, Minus
  <2>5. PaysFrom(held, thrown, reply)
    BY <1>1, <2>1
  <2>6. StepToHu[Minus(held, reply.tile)] = StepToHu[held]
    BY <2>1, <2>5, Zenon DEF PaysFrom
  <2> QED BY <2>4, <2>6, Zenon
<1> DEFINE e == Granted(reply)[1]
<1>3. ASSUME phase = "options", replies # <<>>, reply.name = "sendCommand",
             held' = Without(held, FromHand(e))
      PROVE  /\ reply.what \in {"EAT", "PON"} => StepToHu[held'] = StepToHu[held] - 1
             /\ reply.what \in {"ANGON", "PONGON"} => StepToHu[held'] = StepToHu[held]
  <2>1. PaysFrom(held, thrown, reply)
    BY <1>1, <1>3
  <2> DEFINE after == StepToHu[Without(held, FromHand(e))]
  <2>2. /\ reply.what \in {"EAT", "PON"} => after = StepToHu[held] - 1
        /\ reply.what \in {"ANGON", "PONGON"} => after = StepToHu[held]
    BY <1>3, <2>1, Zenon DEF PaysFrom, Granted
  <2>3. StepToHu[held'] = after
    BY <1>3, Zenon
  <2> HIDE DEF after
  <2> QED BY <2>2, <2>3
<1>4. ASSUME ServerGrants PROVE StepToHu[held'] = StepToHu[held] - 1
  <2>1. /\ phase = "options" /\ replies # <<>> /\ reply.name = "sendCommand"
        /\ held' = Without(held, FromHand(e)) /\ reply.what \in {"EAT", "PON"}
    BY <1>4, Zenon DEF ServerGrants, Takes
  <2> QED BY <1>3, <2>1
<1>5. ASSUME ServerGrantsKong PROVE StepToHu[held'] = StepToHu[held]
  <2>1. /\ phase = "options" /\ replies # <<>> /\ reply.name = "sendCommand"
        /\ held' = Without(held, FromHand(e)) /\ reply.what \in {"ANGON", "PONGON"}
    BY <1>5, Zenon DEF ServerGrantsKong, Takes
  <2> QED BY <1>3, <2>1
<1> QED BY <1>2, <1>4, <1>5

(* And its distance follows its steps, as far as these are right.          *)
LEMMA DecisionPays ==
  ASSUME Inv, Counted, Counted', NeverTooFar, NeverTooNear', AnswersPay,
         missing = NoTiles
  PROVE  /\ ServerTakesThrow => Distance[held'] <= Distance[held] + Hides(held')
         /\ ServerGrants => Distance[held'] <= Distance[held] - 1 + Hides(held')
         /\ ServerGrantsKong => Distance[held'] <= Distance[held] + Hides(held')
<1> SUFFICES ASSUME ServerTakesThrow \/ ServerGrants \/ ServerGrantsKong
             PROVE  /\ ServerTakesThrow => Distance[held'] <= Distance[held] + Hides(held')
                    /\ ServerGrants => Distance[held'] <= Distance[held] - 1 + Hides(held')
                    /\ ServerGrantsKong => Distance[held'] <= Distance[held] + Hides(held')
  OBVIOUS
<1>1. InDeal /\ InDeal'
  BY DEF InDeal, ServerTakesThrow, ServerGrants, ServerGrantsKong
<1>2. /\ StepToHu[held] \in Nat /\ Distance[held] \in Nat
      /\ StepToHu[held'] \in Nat /\ Distance[held'] \in Nat
      /\ StepToHu[held] <= Distance[held]
      /\ Distance[held'] - Hides(held') <= StepToHu[held']
  BY <1>1 DEF Counted, NeverTooFar, NeverTooNear
<1>3. Hides(held') \in {0, 1}
  BY Zenon DEF Hides
<1>4. /\ ServerTakesThrow => StepToHu[held'] = StepToHu[held]
      /\ ServerGrants => StepToHu[held'] = StepToHu[held] - 1
      /\ ServerGrantsKong => StepToHu[held'] = StepToHu[held]
  BY StepsFollow
<1> QED BY <1>2, <1>3, <1>4

(* All that a decision can cost on the way to a winning hand is what the   *)
(* search's count misses: where a hand of the deal is never further from a *)
(* winning one than the count and the step that four of a kind hide, no    *)
(* throw and no kong takes it further and every claim brings it closer, but*)
(* for that step.                                                          *)
THEOREM DecisionsPayOff == Spec => ([]NeverTooNear => DecisionsPay)
<1>1. Inv /\ ThrowKept => Counted /\ NeverTooFar
  BY StepsCounted, NotTooFar
<1>2. ASSUME Inv, Counted, Counted', NeverTooFar, NeverTooNear', AnswersPay
      PROVE  [missing = NoTiles =>
                /\ ServerTakesThrow => Distance[held'] <= Distance[held] + Hides(held')
                /\ ServerGrants => Distance[held'] <= Distance[held] - 1 + Hides(held')
                /\ ServerGrantsKong => Distance[held'] <= Distance[held] + Hides(held')]_vars
  BY <1>2, DecisionPays
<1> QED BY <1>1, <1>2, Invariance, ThrowsKept, AnswersAlwaysPay, PTL DEF DecisionsPay
=============================================================================
