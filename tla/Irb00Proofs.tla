---------------------------- MODULE Irb00Proofs -----------------------------
(***************************************************************************)
(* Proofs about the search and the decisions of Irb00, for any kinds and   *)
(* any size of the hand.                                                   *)
(***************************************************************************)
EXTENDS WinningHands, DataLemmas, FiniteSetTheorems

-----------------------------------------------------------------------------
(* Tiles, and the choice of one.                                           *)

(* Kinds are pairs of a color and a value, and NoTile is none of them.     *)
LEMMA KindIs ==
  ASSUME NEW k \in Kinds
  PROVE  /\ k = <<k[1], k[2]>> /\ k[1] \in 0..5 /\ k[2] \in 0..8
         /\ k # NoTile
<1>1. PICK color \in 0..5 : k \in {color} \X Values(color)
  BY KindsAssumption
<1>2. Values(color) \subseteq 0..8
  BY <1>1 DEF Values, Highest
<1>3. k = <<k[1], k[2]>> /\ k[1] \in 0..5 /\ k[2] \in 0..8
  BY <1>1, <1>2
<1> QED BY <1>3 DEF NoTile

(* Of finitely many, or infinitely many, ranks one is the least.           *)
LEMMA LeastRank ==
  ASSUME NEW S, S # {}, NEW f \in [S -> Nat]
  PROVE  \E x \in S : \A y \in S : f[x] <= f[y]
<1> DEFINE R == OpToRel(<, Nat)
           T == {f[x] : x \in S}
<1>1. IsWellFoundedOn(R, Nat)
  BY NatLessThanWellFounded
<1>2. R = {ss \in Nat \X Nat : ss[1] < ss[2]}
  BY DEF OpToRel
<1> HIDE DEF R
<1>3. T \subseteq Nat /\ T # {}
  OBVIOUS
<1>4. PICK n \in T : \A m \in T : ~(<<m, n>> \in R)
  BY <1>1, <1>3, WFMin
<1>5. PICK x \in S : f[x] = n
  OBVIOUS
<1>6. ASSUME NEW y \in S PROVE f[x] <= f[y]
  <2>1. f[x] \in Nat /\ f[y] \in Nat /\ ~(<<f[y], f[x]>> \in R)
    BY <1>4, <1>5
  <2>2. ~(f[y] < f[x])
    BY <2>1, <1>2
  <2> QED BY <2>1, <2>2
<1> QED BY <1>6

(* Of bounded ranks one is the greatest.                                   *)
LEMMA GreatestRank ==
  ASSUME NEW S, S # {}, NEW n \in Nat, NEW f \in [S -> 0..n]
  PROVE  \E x \in S : \A y \in S : f[y] <= f[x]
<1> DEFINE g == [x \in S |-> n - f[x]]
<1>1. g \in [S -> Nat]
  OBVIOUS
<1>2. PICK x \in S : \A y \in S : g[x] <= g[y]
  <2> HIDE DEF g
  <2> QED BY <1>1, LeastRank
<1>3. \A y \in S : f[y] <= f[x]
  <2> TAKE y \in S
  <2>1. g[x] <= g[y] /\ f[x] \in 0..n /\ f[y] \in 0..n
    BY <1>2
  <2>2. g[x] = n - f[x] /\ g[y] = n - f[y]
    OBVIOUS
  <2> HIDE DEF g
  <2> QED BY <2>1, <2>2
<1> QED BY <1>3

(* First picks one of the kinds.                                           *)
LEMMA FirstIs ==
  ASSUME NEW ks, ks # {}, ks \subseteq Kinds
  PROVE  First(ks) \in ks
<1> DEFINE f == [k \in ks |-> TileOrder(k)]
<1>1. ASSUME NEW k \in ks PROVE TileOrder(k) \in Nat \/ k[1] = 5
  BY KindIs DEF TileOrder
<1>2. ASSUME NEW k \in ks PROVE k[1] # 5
  <2>1. ~Flower(k)
    BY NoFlowersAssumption
  <2> QED BY <2>1 DEF Flower
<1>3. f \in [ks -> Nat]
  BY <1>1, <1>2
<1>4. PICK k \in ks : \A j \in ks : f[k] <= f[j]
  <2> HIDE DEF f
  <2> QED BY <1>3, LeastRank
<1>5. \A j \in ks : TileOrder(k) <= TileOrder(j)
  BY <1>4
<1> QED BY <1>5 DEF First

(* The least of a set of numbers is in it and at most the others.          *)
LEMMA MinIs ==
  ASSUME NEW S, S # {}, S \subseteq Nat
  PROVE  Min(S) \in S /\ \A m \in S : Min(S) <= m
<1> DEFINE f == [n \in S |-> n]
<1>1. f \in [S -> Nat]
  OBVIOUS
<1>2. PICK n \in S : \A m \in S : f[n] <= f[m]
  <2> HIDE DEF f
  <2> QED BY <1>1, LeastRank
<1>3. \A m \in S : n <= m
  BY <1>2
<1> QED BY <1>3 DEF Min

-----------------------------------------------------------------------------
(* Bags, and how many tiles they have.                                     *)

Bags == [Kinds -> 0..4]
AllTiles == Kinds \X (1..4)

LEMMA TilesAreFinite ==
  IsFiniteSet(AllTiles)
<1>1. IsFiniteSet(0..5) /\ IsFiniteSet(0..8) /\ IsFiniteSet(1..4)
  <2>1. 0 \in Int /\ 1 \in Int /\ 4 \in Int /\ 5 \in Int /\ 8 \in Int
    OBVIOUS
  <2> QED BY <2>1, FS_Interval, Zenon
<1>2. IsFiniteSet((0..5) \X (0..8))
  BY <1>1, FS_Product
<1>3. ASSUME NEW k \in Kinds PROVE k \in (0..5) \X (0..8)
  BY KindIs
<1>4. IsFiniteSet(Kinds)
  BY <1>2, <1>3, FS_Subset
<1> QED BY <1>1, <1>4, FS_Product DEF AllTiles

(* Counts that may be negative, as those of the tiles a hand misses.       *)
Counts == {bag \in [Kinds -> Int] : \A k \in Kinds : bag[k] <= 4}

LEMMA BagsAreCounts ==
  Bags \subseteq Counts
BY DEF Bags, Counts

LEMMA OneByOneIs ==
  ASSUME NEW bag \in Counts
  PROVE  /\ OneByOne(bag) = {t \in AllTiles : t[2] <= bag[t[1]]}
         /\ IsFiniteSet(OneByOne(bag)) /\ Total(bag) \in Nat
         /\ Total(bag) = Cardinality(OneByOne(bag))
<1>1. bag \in [Kinds -> Int] /\ \A k \in Kinds : bag[k] <= 4
  BY DEF Counts
<1>2. OneByOne(bag) = {t \in AllTiles : t[2] <= bag[t[1]]}
  <2>1. ASSUME NEW t \in OneByOne(bag) PROVE t \in AllTiles /\ t[2] <= bag[t[1]]
    <3>1. PICK k \in Kinds : t \in {k} \X (1..bag[k])
      BY DEF OneByOne
    <3>2. t[1] = k /\ t[2] \in 1..bag[k] /\ t = <<k, t[2]>> /\ bag[k] <= 4
      BY <1>1, <3>1
    <3> QED BY <1>1, <3>2 DEF AllTiles
  <2>2. ASSUME NEW t \in AllTiles, t[2] <= bag[t[1]] PROVE t \in OneByOne(bag)
    <3>1. t[1] \in Kinds /\ t[2] \in 1..4 /\ t = <<t[1], t[2]>>
      BY DEF AllTiles
    <3>2. t \in {t[1]} \X (1..bag[t[1]])
      BY <1>1, <2>2, <3>1
    <3> QED BY <3>1, <3>2 DEF OneByOne
  <2> QED BY <2>1, <2>2
<1>3. IsFiniteSet(OneByOne(bag))
  BY <1>2, TilesAreFinite, FS_Subset
<1> QED BY <1>2, <1>3, FS_CardinalityType DEF Total

(* One tile more, and one less.                                            *)
LEMMA PlusIs ==
  ASSUME NEW bag \in [Kinds -> Int], NEW k \in Kinds
  PROVE  /\ Plus(bag, k) \in [Kinds -> Int] /\ Minus(bag, k) \in [Kinds -> Int]
         /\ \A j \in Kinds : Plus(bag, k)[j] = IF j = k THEN bag[j] + 1 ELSE bag[j]
         /\ \A j \in Kinds : Minus(bag, k)[j] = IF j = k THEN bag[j] - 1 ELSE bag[j]
BY DEF Plus, Minus

LEMMA TotalPlus ==
  ASSUME NEW bag \in Counts, NEW k \in Kinds, bag[k] \in 0..3
  PROVE  Plus(bag, k) \in Counts /\ Total(Plus(bag, k)) = Total(bag) + 1
<1>1. bag \in [Kinds -> Int] /\ \A j \in Kinds : bag[j] <= 4
  BY DEF Counts
<1> DEFINE more == Plus(bag, k)
           new == <<k, bag[k] + 1>>
<1>2. /\ more \in [Kinds -> Int]
      /\ \A j \in Kinds : more[j] = IF j = k THEN bag[j] + 1 ELSE bag[j]
  BY <1>1, PlusIs
<1> HIDE DEF more
<1>3. more \in Counts
  BY <1>1, <1>2 DEF Counts
<1>4. /\ OneByOne(bag) = {t \in AllTiles : t[2] <= bag[t[1]]}
      /\ OneByOne(more) = {t \in AllTiles : t[2] <= more[t[1]]}
      /\ IsFiniteSet(OneByOne(bag)) /\ Total(bag) = Cardinality(OneByOne(bag))
      /\ Total(more) = Cardinality(OneByOne(more))
  BY <1>3, OneByOneIs
<1>5. new \in AllTiles /\ new \notin OneByOne(bag) /\ new \in OneByOne(more)
  BY <1>1, <1>2, <1>4 DEF AllTiles
<1>6. ASSUME NEW t \in AllTiles, t # new
      PROVE  t[2] <= more[t[1]] <=> t[2] <= bag[t[1]]
  <2>1. t[1] \in Kinds /\ t[2] \in 1..4 /\ t = <<t[1], t[2]>>
    BY DEF AllTiles
  <2>2. t[1] # k \/ t[2] # bag[k] + 1
    BY <1>6, <2>1
  <2> QED BY <1>1, <1>2, <2>1, <2>2
<1> HIDE DEF new
<1>7. OneByOne(more) = OneByOne(bag) \cup {new}
  BY <1>4, <1>5, <1>6
<1>8. Cardinality(OneByOne(more)) = Cardinality(OneByOne(bag)) + 1
  BY <1>4, <1>5, <1>7, FS_AddElement
<1> QED BY <1>3, <1>4, <1>8 DEF more

LEMMA TotalMinus ==
  ASSUME NEW bag \in Counts, NEW k \in Kinds, bag[k] \in 1..4
  PROVE  /\ Minus(bag, k) \in Counts /\ Plus(Minus(bag, k), k) = bag
         /\ Total(Minus(bag, k)) = Total(bag) - 1
<1>1. bag \in [Kinds -> Int] /\ \A j \in Kinds : bag[j] <= 4
  BY DEF Counts
<1> DEFINE less == Minus(bag, k)
<1>2. /\ less \in [Kinds -> Int]
      /\ \A j \in Kinds : less[j] = IF j = k THEN bag[j] - 1 ELSE bag[j]
  BY <1>1, PlusIs
<1> HIDE DEF less
<1>3. less \in Counts /\ less[k] \in 0..3
  BY <1>1, <1>2 DEF Counts
<1>4. /\ Plus(less, k) \in [Kinds -> Int]
      /\ \A j \in Kinds : Plus(less, k)[j] = IF j = k THEN less[j] + 1 ELSE less[j]
  BY <1>2, PlusIs
<1>5. \A j \in Kinds : Plus(less, k)[j] = bag[j]
  BY <1>1, <1>2, <1>4
<1>6. Plus(less, k) = bag
  BY <1>1, <1>4, <1>5
<1>7. Total(bag) = Total(less) + 1 /\ Total(less) \in Nat
  BY <1>3, <1>6, TotalPlus, OneByOneIs
<1> QED BY <1>3, <1>6, <1>7 DEF less

(* A bag without tiles.                                                    *)
LEMMA TotalZero ==
  ASSUME NEW bag \in Bags
  PROVE  /\ Total(bag) \in Nat
         /\ Total(bag) = 0 <=> \A k \in Kinds : bag[k] = 0
<1>1. /\ OneByOne(bag) = {t \in AllTiles : t[2] <= bag[t[1]]}
      /\ IsFiniteSet(OneByOne(bag)) /\ Total(bag) \in Nat
      /\ Total(bag) = Cardinality(OneByOne(bag))
  BY BagsAreCounts, OneByOneIs
<1>2. Total(bag) = 0 <=> OneByOne(bag) = {}
  BY <1>1, FS_EmptySet
<1>3. ASSUME NEW k \in Kinds, bag[k] # 0 PROVE <<k, 1>> \in OneByOne(bag)
  <2>1. bag[k] \in 1..4
    BY <1>3 DEF Bags
  <2> QED BY <1>1, <2>1 DEF AllTiles
<1>4. ASSUME NEW t \in OneByOne(bag) PROVE t[1] \in Kinds /\ bag[t[1]] # 0
  BY <1>1 DEF AllTiles, Bags
<1> QED BY <1>1, <1>2, <1>3, <1>4

(* Induction over the number of tiles.                                     *)
LEMMA BagSet ==
  ASSUME NEW S \in SUBSET Bags,
         \A bag \in Bags :
           (\A less \in Bags : Total(less) < Total(bag) => less \in S) => bag \in S
  PROVE  S = Bags
<1> DEFINE N == {n \in Nat : \A bag \in Bags : Total(bag) < n => bag \in S}
<1>1. \A bag \in Bags : Total(bag) \in Nat
  BY TotalZero
<1>2. 0 \in N
  BY <1>1
<1>3. ASSUME NEW n \in N PROVE n + 1 \in N
  <2>1. ASSUME NEW bag \in Bags, Total(bag) < n + 1 PROVE bag \in S
    <3>1. ASSUME NEW less \in Bags, Total(less) < Total(bag) PROVE less \in S
      <4>1. Total(less) < n
        BY <1>1, <2>1, <3>1
      <4> QED BY <4>1
    <3> QED BY <3>1
  <2> QED BY <2>1
<1>4. N \in SUBSET Nat
  OBVIOUS
<1> HIDE DEF N
<1>5. N = Nat
  BY <1>2, <1>3, <1>4, NatSet
<1>6. ASSUME NEW bag \in Bags PROVE bag \in S
  <2>1. Total(bag) + 1 \in N /\ Total(bag) < Total(bag) + 1
    BY <1>1, <1>5
  <2> QED BY <2>1 DEF N
<1> QED BY <1>6

-----------------------------------------------------------------------------
(* The groups: each is a pair, a meld or two tiles of a sequence, and each *)
(* of these is a group.                                                    *)

(* Whether a tile is the one to be counted.                                *)
Is(a, x) == IF a = x THEN 1 ELSE 0
LEMMA CountTwo ==
  ASSUME NEW a, NEW b, NEW x, NEW S, S = {j \in 1..2 : <<a, b>>[j] = x}
  PROVE  Cardinality(S) = Is(a, x) + Is(b, x)
<1>1. /\ a = x /\ b = x => S = 1..2
      /\ a = x /\ b # x => S = {1}
      /\ a # x /\ b = x => S = {2}
      /\ a # x /\ b # x => S = {}
  <2>1. <<a, b>>[1] = a /\ <<a, b>>[2] = b /\ 1..2 = {1, 2}
    OBVIOUS
  <2> QED BY <2>1
<1>2. /\ Cardinality(1..2) = 2 /\ Cardinality({1}) = 1 /\ Cardinality({2}) = 1
      /\ Cardinality({}) = 0
  <2>1. 1 \in Int /\ 2 \in Int
    OBVIOUS
  <2>2. Cardinality(1..2) = IF 1 > 2 THEN 0 ELSE 2 - 1 + 1
    BY <2>1, FS_Interval, Zenon
  <2>3. Cardinality(1..2) = 2
    BY <2>2
  <2>4. Cardinality({1}) = 1 /\ Cardinality({2}) = 1
    BY FS_Singleton, Zenon
  <2> QED BY <2>3, <2>4, FS_EmptySet, Zenon
<1> QED BY <1>1, <1>2 DEF Is

LEMMA CountThree ==
  ASSUME NEW a, NEW b, NEW c, NEW x, NEW T, T = {j \in 1..3 : <<a, b, c>>[j] = x}
  PROVE  Cardinality(T) = Is(a, x) + Is(b, x) + Is(c, x)
<1> DEFINE S == {j \in 1..2 : <<a, b>>[j] = x}
<1>1. Cardinality(S) = Is(a, x) + Is(b, x)
  BY CountTwo, Zenon
<1>2. T = IF c = x THEN S \cup {3} ELSE S
  <2>1. /\ <<a, b>>[1] = a /\ <<a, b>>[2] = b
        /\ <<a, b, c>>[1] = a /\ <<a, b, c>>[2] = b /\ <<a, b, c>>[3] = c
    OBVIOUS
  <2>2. 1..3 = 1..2 \cup {3} /\ 1..2 = {1, 2}
    OBVIOUS
  <2> QED BY <2>1, <2>2
<1>3. 3 \notin S /\ IsFiniteSet(S)
  <2>1. 1 \in Int /\ 2 \in Int
    OBVIOUS
  <2>2. S \subseteq 1..2 /\ IsFiniteSet(1..2)
    BY <2>1, FS_Interval
  <2> QED BY <2>2, FS_Subset
<1> HIDE DEF S
<1>4. Cardinality(T) = Cardinality(S) + Is(c, x)
  <2>1. Cardinality(S) \in Nat
    BY <1>3, FS_CardinalityType
  <2> QED BY <1>2, <1>3, <2>1, FS_AddElement DEF Is
<1> QED BY <1>1, <1>4

LEMMA MaskTwo ==
  ASSUME NEW i \in 0..137, NEW a, NEW b, GroupTiles(i) = <<a, b>>
  PROVE  /\ i \in Groups <=> {a, b} \subseteq Kinds
         /\ i \in Groups =>
              Mask[i] = IF a = b THEN Several(a, 2) ELSE Each({a, b})
<1>1. DOMAIN GroupTiles(i) = 1..2 /\ GroupTiles(i)[1] = a /\ GroupTiles(i)[2] = b
  OBVIOUS
<1>2. i \in Groups <=> {a, b} \subseteq Kinds
  BY <1>1 DEF Groups
<1>3. ASSUME i \in Groups
      PROVE  Mask[i] = [k \in Kinds |-> Is(a, k) + Is(b, k)]
  <2>1. Mask[i] = [k \in Kinds |-> Cardinality({j \in 1..2 : <<a, b>>[j] = k})]
    BY <1>1, <1>3 DEF Mask
  <2>2. \A k \in Kinds : Cardinality({j \in 1..2 : <<a, b>>[j] = k})
                             = Is(a, k) + Is(b, k)
    BY CountTwo, ZenonT(60)
  <2> QED BY <2>1, <2>2, Zenon
<1>4. CASE a = b
  BY <1>2, <1>3, <1>4 DEF Several, Is
<1>5. CASE a # b
  BY <1>2, <1>3, <1>5 DEF Each, Is
<1> QED BY <1>4, <1>5

LEMMA MaskThree ==
  ASSUME NEW i \in 0..137, NEW a, NEW b, NEW c, GroupTiles(i) = <<a, b, c>>,
         (a = b /\ b = c) \/ (a # b /\ b # c /\ a # c)
  PROVE  /\ i \in Groups <=> {a, b, c} \subseteq Kinds
         /\ i \in Groups =>
              Mask[i] = IF a = b THEN Several(a, 3) ELSE Each({a, b, c})
<1>1. /\ DOMAIN GroupTiles(i) = 1..3 /\ GroupTiles(i)[1] = a
      /\ GroupTiles(i)[2] = b /\ GroupTiles(i)[3] = c
  OBVIOUS
<1>2. i \in Groups <=> {a, b, c} \subseteq Kinds
  BY <1>1 DEF Groups
<1>3. ASSUME i \in Groups
      PROVE  Mask[i] = [k \in Kinds |-> Is(a, k) + Is(b, k) + Is(c, k)]
  <2>1. Mask[i] = [k \in Kinds |-> Cardinality({j \in 1..3 : <<a, b, c>>[j] = k})]
    BY <1>1, <1>3 DEF Mask
  <2>2. \A k \in Kinds : Cardinality({j \in 1..3 : <<a, b, c>>[j] = k})
                             = Is(a, k) + Is(b, k) + Is(c, k)
    <3> TAKE k \in Kinds
    <3> DEFINE T == {j \in 1..3 : <<a, b, c>>[j] = k}
    <3>1. T = {j \in 1..3 : <<a, b, c>>[j] = k}
      OBVIOUS
    <3> HIDE DEF T
    <3>2. Cardinality(T) = Is(a, k) + Is(b, k) + Is(c, k)
      BY <3>1, CountThree
    <3> QED BY <3>2 DEF T
  <2> QED BY <2>1, <2>2, Zenon
<1>4. CASE a = b
  BY <1>2, <1>3, <1>4 DEF Several, Is
<1>5. CASE a # b
  BY <1>2, <1>3, <1>5 DEF Each, Is
<1> QED BY <1>4, <1>5

(* A group's number, from its color and its mask.                          *)
LEMMA NumberIs ==
  ASSUME NEW c \in 0..3, NEW m \in 0..39, c = 3 => m <= 17
  PROVE  /\ 40 * c + m \in 0..137
         /\ (40 * c + m) \div 40 = c /\ (40 * c + m) % 40 = m
OBVIOUS

LEMMA NumbersAre ==
  ASSUME NEW i \in 0..137
  PROVE  /\ i \div 40 \in 0..3 /\ i % 40 \in 0..39 /\ i = 40 * (i \div 40) + (i % 40)
         /\ i \div 40 = 3 => i % 40 <= 17
OBVIOUS

LEMMA TilesOfGroup ==
  ASSUME NEW i \in 0..137, NEW c \in 0..3, NEW m \in 0..39,
         i \div 40 = c, i % 40 = m
  PROVE  /\ m \in 0..8 =>
              /\ Kind(i) = "pair"
              /\ GroupTiles(i) = <<TileToCard(c, m), TileToCard(c, m)>>
         /\ m \in 9..17 =>
              /\ Kind(i) = "group"
              /\ GroupTiles(i) = <<TileToCard(c, m - 9), TileToCard(c, m - 9),
                                   TileToCard(c, m - 9)>>
         /\ m \in 18..24 =>
              /\ Kind(i) = "group"
              /\ GroupTiles(i) = <<TileToCard(c, m - 18), TileToCard(c, m - 17),
                                   TileToCard(c, m - 16)>>
         /\ m \in 25..32 =>
              /\ Kind(i) = "pre_group"
              /\ GroupTiles(i) = <<TileToCard(c, m - 25), TileToCard(c, m - 24)>>
         /\ m \in 33..39 =>
              /\ Kind(i) = "pre_group"
              /\ GroupTiles(i) = <<TileToCard(c, m - 33), TileToCard(c, m - 31)>>
<1>1. /\ m \in 0..8 => MaskValues(m) = <<m, m>>
      /\ m \in 9..17 => MaskValues(m) = <<m - 9, m - 9, m - 9>>
      /\ m \in 18..24 => MaskValues(m) = <<m - 18, m - 17, m - 16>>
      /\ m \in 25..32 => MaskValues(m) = <<m - 25, m - 24>>
      /\ m \in 33..39 => MaskValues(m) = <<m - 33, m - 31>>
  BY DEF MaskValues
<1>2. GroupTiles(i) = [j \in DOMAIN MaskValues(m) |-> TileToCard(c, MaskValues(m)[j])]
  BY DEF GroupTiles
<1>3. ASSUME NEW a, NEW b, MaskValues(m) = <<a, b>>
      PROVE  GroupTiles(i) = <<TileToCard(c, a), TileToCard(c, b)>>
  BY <1>2, <1>3
<1>4. ASSUME NEW a, NEW b, NEW d, MaskValues(m) = <<a, b, d>>
      PROVE  GroupTiles(i) = <<TileToCard(c, a), TileToCard(c, b), TileToCard(c, d)>>
  BY <1>2, <1>4
<1>5. /\ m \in 0..8 => Kind(i) = "pair"
      /\ m \in 9..24 => Kind(i) = "group"
      /\ m \in 25..39 => Kind(i) = "pre_group"
  BY DEF Kind
<1>6. CASE m \in 0..8
  BY <1>1, <1>3, <1>5, <1>6
<1>7. CASE m \in 9..17
  BY <1>1, <1>4, <1>5, <1>7
<1>8. CASE m \in 18..24
  BY <1>1, <1>4, <1>5, <1>8
<1>9. CASE m \in 25..32
  BY <1>1, <1>3, <1>5, <1>9
<1>10. CASE m \in 33..39
  BY <1>1, <1>3, <1>5, <1>10
<1> QED BY <1>6, <1>7, <1>8, <1>9, <1>10

LEMMA ChowIs ==
  ASSUME NEW c \in Int, NEW v \in Int
  PROVE  Chow(<<c, v>>) = {<<c, v>>, <<c, v + 1>>, <<c, v + 2>>}
<1>1. Chow(<<c, v>>) = {<<c, v + 0>>, <<c, v + 1>>, <<c, v + 2>>}
  BY DEF Chow
<1> QED BY <1>1

LEMMA GroupIs ==
  ASSUME NEW i \in Groups
  PROVE  \/ Kind(i) = "pair" /\ \E k \in Kinds : Mask[i] = Several(k, 2)
         \/ Kind(i) = "group" /\ Mask[i] \in MeldBags
         \/ /\ Kind(i) = "pre_group"
            /\ \E j, k \in Kinds : j # k /\ Mask[i] = Each({j, k})
<1>1. i \in 0..137
  BY DEF Groups
<1> DEFINE c == i \div 40
           m == i % 40
<1>2. c \in 0..3 /\ m \in 0..39 /\ (c = 3 => m <= 17)
  BY <1>1, NumbersAre
<1>3. i \div 40 = c /\ i % 40 = m
  OBVIOUS
<1> HIDE DEF c, m
<1>4. CASE m \in 0..8
  <2> DEFINE t == TileToCard(c, m)
  <2>1. Kind(i) = "pair" /\ GroupTiles(i) = <<t, t>>
    BY <1>1, <1>2, <1>3, <1>4, TilesOfGroup
  <2> HIDE DEF t
  <2>2. t \in Kinds /\ Mask[i] = Several(t, 2)
    BY <1>1, <2>1, MaskTwo
  <2> QED BY <2>1, <2>2
<1>5. CASE m \in 9..17
  <2> DEFINE t == TileToCard(c, m - 9)
  <2>1. Kind(i) = "group" /\ GroupTiles(i) = <<t, t, t>>
    BY <1>1, <1>2, <1>3, <1>5, TilesOfGroup
  <2> HIDE DEF t
  <2>2. t \in Kinds /\ Mask[i] = Several(t, 3)
    BY <1>1, <2>1, MaskThree
  <2> QED BY <2>1, <2>2 DEF MeldBags
<1>6. CASE m \in 18..24
  <2> DEFINE a == <<c, m - 18>>
             b == <<c, m - 17>>
             d == <<c, m - 16>>
  <2>1. c \in 0..2
    BY <1>2, <1>6
  <2>2. TileToCard(c, m - 18) = a /\ TileToCard(c, m - 17) = b /\ TileToCard(c, m - 16) = d
    BY <2>1 DEF TileToCard
  <2>3. Kind(i) = "group" /\ GroupTiles(i) = <<a, b, d>>
    BY <1>1, <1>2, <1>3, <1>6, <2>2, TilesOfGroup
  <2>4. a # b /\ b # d /\ a # d
    BY <1>2
  <2>5. Chow(a) = {a, b, d}
    <3>1. Chow(a) = {<<c, m - 18>>, <<c, (m - 18) + 1>>, <<c, (m - 18) + 2>>}
      BY <1>2, ChowIs
    <3>2. (m - 18) + 1 = m - 17 /\ (m - 18) + 2 = m - 16
      BY <1>2
    <3> QED BY <3>1, <3>2
  <2>6. Suited(a)
    BY <2>1 DEF Suited
  <2> HIDE DEF a, b, d
  <2>7. {a, b, d} \subseteq Kinds /\ Mask[i] = Each({a, b, d})
    BY <1>1, <2>3, <2>4, MaskThree
  <2> QED BY <2>3, <2>5, <2>6, <2>7 DEF MeldBags
<1>7. CASE m \in 25..39
  <2> DEFINE a == IF m <= 32 THEN <<c, m - 25>> ELSE <<c, m - 33>>
             b == IF m <= 32 THEN <<c, m - 24>> ELSE <<c, m - 31>>
  <2>1. c \in 0..2
    BY <1>2, <1>7
  <2>2. Kind(i) = "pre_group" /\ GroupTiles(i) = <<a, b>>
    <3>1. CASE m \in 25..32
      <4>1. TileToCard(c, m - 25) = a /\ TileToCard(c, m - 24) = b
        BY <2>1, <3>1 DEF TileToCard
      <4> QED BY <1>1, <1>2, <1>3, <3>1, <4>1, TilesOfGroup
    <3>2. CASE m \in 33..39
      <4>1. TileToCard(c, m - 33) = a /\ TileToCard(c, m - 31) = b
        BY <2>1, <3>2 DEF TileToCard
      <4> QED BY <1>1, <1>2, <1>3, <3>2, <4>1, TilesOfGroup
    <3> QED BY <1>7, <3>1, <3>2
  <2>3. a # b
    BY <1>2
  <2> HIDE DEF a, b
  <2>4. {a, b} \subseteq Kinds /\ Mask[i] = Each({a, b})
    BY <1>1, <2>2, <2>3, MaskTwo
  <2> QED BY <2>2, <2>3, <2>4
<1>8. m \in 0..8 \/ m \in 9..17 \/ m \in 18..24 \/ m \in 25..39
  BY <1>2
<1> QED BY <1>4, <1>5, <1>6, <1>7, <1>8, Zenon

(* Where a kind stands in the packed words of the search.                  *)
LEMMA DigitFor ==
  ASSUME NEW k \in Kinds
  PROVE  \E c \in 0..3, d \in 0..8 : TileToCard(c, d) = k
<1>1. PICK color \in 0..5 : k \in {color} \X Values(color)
  BY KindsAssumption
<1>2. k = <<color, k[2]>> /\ k[1] = color /\ k[2] \in Values(color)
  BY <1>1
<1>3. color # 5
  BY <1>2, NoFlowersAssumption DEF Flower
<1>4. CASE color \in 0..2
  <2>1. k[2] \in 0..8
    BY <1>2, <1>4 DEF Values, Highest
  <2>2. TileToCard(color, k[2]) = k
    BY <1>2, <1>4 DEF TileToCard
  <2> QED BY <1>4, <2>1, <2>2
<1>5. CASE color = 3
  <2>1. k[2] \in 0..2
    BY <1>2, <1>5 DEF Values, Highest
  <2>2. TileToCard(3, k[2] + 4) = k
    BY <1>2, <1>5, <2>1 DEF TileToCard, HonorKind
  <2>3. k[2] + 4 \in 0..8
    BY <2>1
  <2> QED BY <2>2, <2>3
<1>6. CASE color = 4
  <2>1. k[2] \in 0..3
    BY <1>2, <1>6 DEF Values, Highest
  <2>2. TileToCard(3, k[2]) = k
    BY <1>2, <1>6, <2>1 DEF TileToCard, HonorKind
  <2>3. k[2] \in 0..8
    BY <2>1
  <2> QED BY <2>2, <2>3
<1> QED BY <1>3, <1>4, <1>5, <1>6

LEMMA PairFor ==
  ASSUME NEW k \in Kinds
  PROVE  \E i \in Groups : Kind(i) = "pair" /\ Mask[i] = Several(k, 2)
<1>1. PICK c \in 0..3, d \in 0..8 : TileToCard(c, d) = k
  BY DigitFor
<1>2. PICK i \in 0..137 : i \div 40 = c /\ i % 40 = d
  BY NumberIs
<1>3. d \in 0..39
  OBVIOUS
<1>4. Kind(i) = "pair" /\ GroupTiles(i) = <<k, k>>
  BY <1>1, <1>2, <1>3, TilesOfGroup
<1>5. i \in Groups /\ Mask[i] = Several(k, 2)
  <2>1. /\ i \in Groups <=> {k, k} \subseteq Kinds
        /\ i \in Groups => Mask[i] = IF k = k THEN Several(k, 2) ELSE Each({k, k})
    BY <1>4, MaskTwo, Zenon
  <2> QED BY <2>1
<1> QED BY <1>4, <1>5

LEMMA MeldFor ==
  ASSUME NEW meld \in MeldBags
  PROVE  \E i \in Groups : Kind(i) = "group" /\ Mask[i] = meld
<1>1. ASSUME NEW k \in Kinds, meld = Several(k, 3)
      PROVE  \E i \in Groups : Kind(i) = "group" /\ Mask[i] = meld
  <2>1. PICK c \in 0..3, d \in 0..8 : TileToCard(c, d) = k
    BY DigitFor
  <2> DEFINE m == d + 9
  <2>2. m \in 0..39 /\ m \in 9..17 /\ m <= 17 /\ m - 9 = d
    OBVIOUS
  <2> HIDE DEF m
  <2>3. PICK i \in 0..137 : i \div 40 = c /\ i % 40 = m
    BY <2>2, NumberIs
  <2>4. Kind(i) = "group" /\ GroupTiles(i) = <<k, k, k>>
    BY <2>1, <2>2, <2>3, TilesOfGroup
  <2>5. i \in Groups /\ Mask[i] = Several(k, 3)
    <3>1. /\ i \in Groups <=> {k, k, k} \subseteq Kinds
          /\ i \in Groups => Mask[i] = IF k = k THEN Several(k, 3) ELSE Each({k, k, k})
      BY <2>4, MaskThree, Zenon
    <3> QED BY <3>1
  <2> QED BY <1>1, <2>4, <2>5
<1>2. ASSUME NEW k \in Kinds, Suited(k), Chow(k) \subseteq Kinds, meld = Each(Chow(k))
      PROVE  \E i \in Groups : Kind(i) = "group" /\ Mask[i] = meld
  <2> DEFINE c == k[1]
             v == k[2]
             a == <<c, v + 1>>
             b == <<c, v + 2>>
  <2>1. c \in 0..2 /\ v \in 0..8 /\ k = <<c, v>>
    BY <1>2, KindIs DEF Suited
  <2>2. Chow(k) = {k, a, b}
    BY <2>1, ChowIs
  <2>3. v + 2 \in 0..8
    <3>1. b \in Kinds
      BY <1>2, <2>2
    <3>2. b[2] \in 0..8
      BY <3>1, KindIs
    <3> QED BY <3>2
  <2>4. k # a /\ a # b /\ k # b
    BY <2>1
  <2> HIDE DEF c, v
  <2> DEFINE m == v + 18
  <2>5. m \in 0..39 /\ m \in 18..24 /\ m - 18 = v /\ m - 17 = v + 1 /\ m - 16 = v + 2
    BY <2>1, <2>3
  <2> HIDE DEF m
  <2>6. PICK i \in 0..137 : i \div 40 = c /\ i % 40 = m
    BY <2>1, <2>5, NumberIs
  <2>7. TileToCard(c, v) = k /\ TileToCard(c, v + 1) = a /\ TileToCard(c, v + 2) = b
    BY <2>1 DEF TileToCard
  <2>8. Kind(i) = "group" /\ GroupTiles(i) = <<k, a, b>>
    BY <2>1, <2>5, <2>6, <2>7, TilesOfGroup
  <2> HIDE DEF a, b
  <2>9. i \in Groups /\ Mask[i] = Each({k, a, b})
    BY <1>2, <2>2, <2>4, <2>6, <2>8, MaskThree
  <2> QED BY <1>2, <2>2, <2>8, <2>9
<1> QED BY <1>1, <1>2 DEF MeldBags

(* Two tiles of a sequence.                                                *)
LEMMA PreGroupFor ==
  ASSUME NEW first \in Kinds, Suited(first), Chow(first) \subseteq Kinds,
         NEW j \in Chow(first), NEW k \in Chow(first), j # k
  PROVE  \E i \in Groups : Kind(i) = "pre_group" /\ Mask[i] = Each({j, k})
<1> DEFINE c == first[1]
           v == first[2]
<1>1. c \in 0..2 /\ v \in 0..8 /\ first = <<c, v>>
  BY KindIs DEF Suited
<1> HIDE DEF c, v
<1>2. Chow(first) = {<<c, v>>, <<c, v + 1>>, <<c, v + 2>>}
  BY <1>1, ChowIs
<1>3. v + 2 \in 0..8
  <2>1. <<c, v + 2>> \in Kinds
    BY <1>2
  <2>2. <<c, v + 2>>[2] \in 0..8
    BY <2>1, KindIs
  <2> QED BY <2>2
<1>4. ASSUME NEW a \in Kinds, NEW b \in Kinds, a # b, {a, b} = {j, k},
             NEW m \in 25..39, NEW x \in Int, NEW y \in Int,
             a = <<c, x>>, b = <<c, y>>,
             \/ m <= 32 /\ m - 25 = x /\ m - 24 = y
             \/ m >= 33 /\ m - 33 = x /\ m - 31 = y
      PROVE  \E i \in Groups : Kind(i) = "pre_group" /\ Mask[i] = Each({j, k})
  <2>1. m \in 0..39 /\ c \in 0..3 /\ c # 3
    BY <1>1
  <2>2. PICK i \in 0..137 : i \div 40 = c /\ i % 40 = m
    BY <2>1, NumberIs
  <2>3. TileToCard(c, x) = a /\ TileToCard(c, y) = b
    BY <1>4, <2>1 DEF TileToCard
  <2>4. Kind(i) = "pre_group" /\ GroupTiles(i) = <<a, b>>
    <3>1. CASE m <= 32 /\ m - 25 = x /\ m - 24 = y
      BY <2>1, <2>2, <2>3, <3>1, TilesOfGroup, SMTT(60)
    <3>2. CASE m >= 33 /\ m - 33 = x /\ m - 31 = y
      BY <2>1, <2>2, <2>3, <3>2, TilesOfGroup, SMTT(60)
    <3> QED BY <1>4, <3>1, <3>2
  <2>5. i \in Groups /\ Mask[i] = Each({a, b})
    <3>1. /\ i \in Groups <=> {a, b} \subseteq Kinds
          /\ i \in Groups => Mask[i] = IF a = b THEN Several(a, 2) ELSE Each({a, b})
      BY <2>4, MaskTwo, Zenon
    <3> QED BY <1>4, <3>1
  <2> QED BY <1>4, <2>4, <2>5
<1>5. /\ v + 25 \in 25..39 /\ v + 25 <= 32 /\ (v + 25) - 25 = v /\ (v + 25) - 24 = v + 1
      /\ v + 26 \in 25..39 /\ v + 26 <= 32 /\ (v + 26) - 25 = v + 1 /\ (v + 26) - 24 = v + 2
      /\ v + 33 \in 25..39 /\ v + 33 >= 33 /\ (v + 33) - 33 = v /\ (v + 33) - 31 = v + 2
      /\ v \in Int /\ v + 1 \in Int /\ v + 2 \in Int
  BY <1>1, <1>3
<1>6. \/ {j, k} = {<<c, v>>, <<c, v + 1>>}
      \/ {j, k} = {<<c, v + 1>>, <<c, v + 2>>}
      \/ {j, k} = {<<c, v>>, <<c, v + 2>>}
  BY <1>2
<1>7. /\ <<c, v>> \in Kinds /\ <<c, v + 1>> \in Kinds /\ <<c, v + 2>> \in Kinds
      /\ <<c, v>> # <<c, v + 1>> /\ <<c, v + 1>> # <<c, v + 2>> /\ <<c, v>> # <<c, v + 2>>
  BY <1>1, <1>2
<1>8. CASE {j, k} = {<<c, v>>, <<c, v + 1>>}
  <2> DEFINE x == v
             y == v + 1
             m == v + 25
             a == <<c, x>>
             b == <<c, y>>
  <2>1. /\ a \in Kinds /\ b \in Kinds /\ a # b /\ {a, b} = {j, k}
        /\ m \in 25..39 /\ x \in Int /\ y \in Int /\ a = <<c, x>> /\ b = <<c, y>>
        /\ \/ m <= 32 /\ m - 25 = x /\ m - 24 = y
           \/ m >= 33 /\ m - 33 = x /\ m - 31 = y
    BY <1>5, <1>7, <1>8
  <2> HIDE DEF x, y, m, a, b
  <2> QED BY <1>4, <2>1, Zenon
<1>9. CASE {j, k} = {<<c, v + 1>>, <<c, v + 2>>}
  <2> DEFINE x == v + 1
             y == v + 2
             m == v + 26
             a == <<c, x>>
             b == <<c, y>>
  <2>1. /\ a \in Kinds /\ b \in Kinds /\ a # b /\ {a, b} = {j, k}
        /\ m \in 25..39 /\ x \in Int /\ y \in Int /\ a = <<c, x>> /\ b = <<c, y>>
        /\ \/ m <= 32 /\ m - 25 = x /\ m - 24 = y
           \/ m >= 33 /\ m - 33 = x /\ m - 31 = y
    BY <1>5, <1>7, <1>9
  <2> HIDE DEF x, y, m, a, b
  <2> QED BY <1>4, <2>1, Zenon
<1>10. CASE {j, k} = {<<c, v>>, <<c, v + 2>>}
  <2> DEFINE x == v
             y == v + 2
             m == v + 33
             a == <<c, x>>
             b == <<c, y>>
  <2>1. /\ a \in Kinds /\ b \in Kinds /\ a # b /\ {a, b} = {j, k}
        /\ m \in 25..39 /\ x \in Int /\ y \in Int /\ a = <<c, x>> /\ b = <<c, y>>
        /\ \/ m <= 32 /\ m - 25 = x /\ m - 24 = y
           \/ m >= 33 /\ m - 33 = x /\ m - 31 = y
    BY <1>5, <1>7, <1>10
  <2> HIDE DEF x, y, m, a, b
  <2> QED BY <1>4, <2>1, Zenon
<1> QED BY <1>6, <1>8, <1>9, <1>10

-----------------------------------------------------------------------------
(* Bags together: how many tiles they have.                                *)

LEMMA WithIs ==
  ASSUME NEW a \in [Kinds -> Int], NEW b \in [Kinds -> Int]
  PROVE  /\ With(a, b) \in [Kinds -> Int] /\ Without(a, b) \in [Kinds -> Int]
         /\ \A k \in Kinds : With(a, b)[k] = a[k] + b[k]
         /\ \A k \in Kinds : Without(a, b)[k] = a[k] - b[k]
BY DEF With, Without

LEMMA SameBag ==
  ASSUME NEW a \in [Kinds -> Int], NEW b \in [Kinds -> Int],
         \A k \in Kinds : a[k] = b[k]
  PROVE  a = b
OBVIOUS

LEMMA BagIs ==
  ASSUME NEW bag \in Bags
  PROVE  /\ bag \in Counts /\ bag \in [Kinds -> Int]
         /\ \A k \in Kinds : bag[k] \in 0..4
BY BagsAreCounts DEF Bags, Counts

LEMMA CountIs ==
  ASSUME NEW bag \in [Kinds -> Int]
  PROVE  /\ bag \in Counts <=> \A k \in Kinds : bag[k] <= 4
         /\ bag \in Bags <=> \A k \in Kinds : bag[k] \in 0..4
BY DEF Bags, Counts

LEMMA TotalWith ==
  ASSUME NEW a \in Counts, NEW b \in Bags, With(a, b) \in Counts,
         \A k \in Kinds : b[k] > 0 => a[k] >= 0
  PROVE  Total(With(a, b)) = Total(a) + Total(b)
<1> DEFINE S == {c \in Bags :
                   With(a, c) \in Counts /\ (\A k \in Kinds : c[k] > 0 => a[k] >= 0)
                     => Total(With(a, c)) = Total(a) + Total(c)}
<1>1. a \in [Kinds -> Int] /\ Total(a) \in Nat
  BY OneByOneIs DEF Counts
<1>2. ASSUME NEW c \in Bags,
             \A less \in Bags : Total(less) < Total(c) => less \in S,
             With(a, c) \in Counts, \A k \in Kinds : c[k] > 0 => a[k] >= 0
      PROVE  Total(With(a, c)) = Total(a) + Total(c)
  <2>1. c \in Counts /\ c \in [Kinds -> Int] /\ \A k \in Kinds : c[k] \in 0..4
    BY BagIs
  <2>2. CASE \A k \in Kinds : c[k] = 0
    <3>1. Total(c) = 0
      BY <2>2, TotalZero
    <3>2. With(a, c) = a
      <4>1. \A k \in Kinds : With(a, c)[k] = a[k]
        BY <1>1, <2>1, <2>2, WithIs
      <4>2. With(a, c) \in [Kinds -> Int]
        BY <1>1, <2>1, WithIs
      <4> QED BY <1>1, <4>1, <4>2, SameBag
    <3> QED BY <1>1, <3>1, <3>2
  <2>3. ASSUME NEW k \in Kinds, c[k] # 0 PROVE Total(With(a, c)) = Total(a) + Total(c)
    <3> DEFINE less == Minus(c, k)
    <3>1. c[k] \in 1..4
      BY <2>1, <2>3
    <3>2. less \in Counts /\ Total(less) = Total(c) - 1
      BY <2>1, <3>1, TotalMinus
    <3>3. less \in [Kinds -> Int] /\ \A j \in Kinds : less[j] = IF j = k THEN c[j] - 1 ELSE c[j]
      BY <2>1, PlusIs
    <3> HIDE DEF less
    <3>4. less \in Bags
      BY <2>1, <3>1, <3>3, CountIs
    <3>5. Total(c) \in Nat /\ Total(less) \in Nat
      BY <3>4, TotalZero
    <3>6. /\ With(a, less) \in [Kinds -> Int] /\ With(a, c) \in [Kinds -> Int]
          /\ \A j \in Kinds : With(a, less)[j] = a[j] + less[j]
          /\ \A j \in Kinds : With(a, c)[j] = a[j] + c[j]
      BY <1>1, <2>1, <3>3, WithIs
    <3>7. \A j \in Kinds : With(a, c)[j] <= 4
      BY <1>2 DEF Counts
    <3>8. With(a, less) \in Counts
      <4>1. ASSUME NEW j \in Kinds PROVE With(a, less)[j] <= 4
        <5>1. /\ With(a, less)[j] = a[j] + less[j] /\ a[j] + c[j] <= 4
              /\ less[j] \in Int /\ less[j] <= c[j]
              /\ a[j] \in Int /\ c[j] \in Int
          <6>1. less[j] = IF j = k THEN c[j] - 1 ELSE c[j]
            BY <3>3
          <6> QED BY <1>1, <2>1, <3>6, <3>7, <6>1
        <5> QED BY <5>1
      <4> QED BY <3>6, <4>1, CountIs
    <3>9. \A j \in Kinds : less[j] > 0 => a[j] >= 0
      BY <1>2, <2>1, <3>1, <3>3
    <3>10. Total(With(a, less)) = Total(a) + Total(less)
      BY <1>2, <3>2, <3>4, <3>5, <3>8, <3>9
    <3>11. With(a, less)[k] \in 0..3
      BY <1>1, <1>2, <2>1, <3>1, <3>3, <3>6, <3>7
    <3>12. Total(Plus(With(a, less), k)) = Total(With(a, less)) + 1
      BY <3>8, <3>11, TotalPlus
    <3>13. Plus(With(a, less), k) = With(a, c)
      <4>1. /\ Plus(With(a, less), k) \in [Kinds -> Int]
            /\ \A j \in Kinds : Plus(With(a, less), k)[j]
                 = IF j = k THEN With(a, less)[j] + 1 ELSE With(a, less)[j]
        BY <3>6, PlusIs
      <4>2. \A j \in Kinds : Plus(With(a, less), k)[j] = With(a, c)[j]
        BY <1>1, <2>1, <3>3, <3>6, <4>1
      <4> QED BY <3>6, <4>1, <4>2, SameBag
    <3> QED BY <1>1, <3>2, <3>5, <3>10, <3>12, <3>13
  <2> QED BY <2>2, <2>3
<1>3. S \in SUBSET Bags /\ \A c \in Bags :
        (\A less \in Bags : Total(less) < Total(c) => less \in S) => c \in S
  <2>1. S \in SUBSET Bags
    OBVIOUS
  <2>2. ASSUME NEW c \in Bags, \A less \in Bags : Total(less) < Total(c) => less \in S
        PROVE  c \in S
    BY <1>2, <2>2
  <2> HIDE DEF S
  <2> QED BY <2>1, <2>2
<1> HIDE DEF S
<1>4. S = Bags
  BY <1>3, BagSet
<1>5. b \in S
  BY <1>4
<1> QED BY <1>5 DEF S

(* Of a bag that is taken from another.                                    *)
LEMMA TotalWithout ==
  ASSUME NEW bag \in Bags, NEW less \in Bags, \A k \in Kinds : bag[k] >= less[k]
  PROVE  /\ Without(bag, less) \in Bags /\ With(Without(bag, less), less) = bag
         /\ Total(Without(bag, less)) = Total(bag) - Total(less)
<1>1. /\ bag \in [Kinds -> Int] /\ \A k \in Kinds : bag[k] \in 0..4
      /\ less \in [Kinds -> Int] /\ \A k \in Kinds : less[k] \in 0..4
      /\ bag \in Counts
  BY BagIs
<1> DEFINE rest == Without(bag, less)
<1>2. rest \in [Kinds -> Int] /\ \A k \in Kinds : rest[k] = bag[k] - less[k]
  BY <1>1, WithIs
<1> HIDE DEF rest
<1>3. rest \in Bags
  <2>1. \A k \in Kinds : rest[k] \in 0..4
    BY <1>1, <1>2
  <2> QED BY <1>2, <2>1, CountIs
<1>4. With(rest, less) = bag
  <2>1. /\ With(rest, less) \in [Kinds -> Int]
        /\ \A k \in Kinds : With(rest, less)[k] = rest[k] + less[k]
    BY <1>1, <1>2, WithIs
  <2>2. \A k \in Kinds : With(rest, less)[k] = bag[k]
    BY <1>1, <1>2, <2>1
  <2> QED BY <1>1, <2>1, <2>2, SameBag
<1>5. rest \in Counts /\ \A k \in Kinds : rest[k] >= 0
  BY <1>3, BagIs
<1>6. Total(bag) = Total(rest) + Total(less)
  BY <1>1, <1>4, <1>5, TotalWith
<1>7. Total(rest) \in Nat /\ Total(less) \in Nat
  BY <1>3, TotalZero
<1> QED BY <1>3, <1>4, <1>6, <1>7 DEF rest

(* Of a few tiles.                                                         *)
LEMMA TotalFew ==
  ASSUME NEW k \in Kinds
  PROVE  /\ \A n \in 0..4 : Several(k, n) \in Bags /\ Total(Several(k, n)) = n
         /\ \A j \in Kinds : j # k => Each({j, k}) \in Bags /\ Total(Each({j, k})) = 2
         /\ \A i, j \in Kinds : i # j /\ i # k /\ j # k =>
              Each({i, j, k}) \in Bags /\ Total(Each({i, j, k})) = 3
<1>1. \A n \in 0..4 : Several(k, n) \in Bags /\ Several(k, n) \in Counts
  <2>1. \A n \in 0..4 : Several(k, n) \in Bags
    BY DEF Several, Bags
  <2> QED BY <2>1, BagIs
<1>2. Total(Several(k, 0)) = 0
  <2>1. \A j \in Kinds : Several(k, 0)[j] = 0
    BY DEF Several
  <2>2. Several(k, 0) \in Bags
    BY <1>1
  <2> QED BY <2>1, <2>2, TotalZero
<1>3. ASSUME NEW n \in 0..3 PROVE Total(Several(k, n + 1)) = Total(Several(k, n)) + 1
  <2>1. Plus(Several(k, n), k) = Several(k, n + 1) /\ Several(k, n)[k] = n
    BY DEF Plus, Several
  <2>2. Several(k, n) \in Counts
    BY <1>1
  <2> QED BY <2>1, <2>2, TotalPlus
<1>4. \A n \in 0..4 : Total(Several(k, n)) = n
  <2>1. Total(Several(k, 0 + 1)) = 1 /\ Total(Several(k, 1)) = 1
    BY <1>2, <1>3
  <2>2. Total(Several(k, 1 + 1)) = 2 /\ Total(Several(k, 2)) = 2
    BY <1>3, <2>1
  <2>3. Total(Several(k, 2 + 1)) = 3 /\ Total(Several(k, 3)) = 3
    BY <1>3, <2>2
  <2>4. Total(Several(k, 3 + 1)) = 4 /\ Total(Several(k, 4)) = 4
    BY <1>3, <2>3
  <2> QED BY <1>2, <2>1, <2>2, <2>3, <2>4
<1>5. ASSUME NEW j \in Kinds, j # k
      PROVE  Each({j, k}) \in Bags /\ Each({j, k}) \in Counts /\ Total(Each({j, k})) = 2
  <2>1. Each({j, k}) \in Bags /\ Plus(Several(k, 1), j) = Each({j, k}) /\ Several(k, 1)[j] = 0
    <3>1. Each({j, k}) \in Bags /\ Several(k, 1)[j] = 0
      BY <1>5 DEF Each, Several, Bags
    <3>2. /\ Several(k, 1) \in [Kinds -> Int]
          /\ \A i \in Kinds : Several(k, 1)[i] = IF i = k THEN 1 ELSE 0
          /\ \A i \in Kinds : Each({j, k})[i] = IF i = j \/ i = k THEN 1 ELSE 0
      BY DEF Several, Each
    <3> DEFINE a == Several(k, 1)
               b == Each({j, k})
    <3>3. b \in [Kinds -> Int]
      BY <3>1, BagIs
    <3> HIDE DEF a, b
    <3>4. /\ Plus(a, j) \in [Kinds -> Int]
          /\ \A i \in Kinds : Plus(a, j)[i] = IF i = j THEN a[i] + 1 ELSE a[i]
      BY <3>2, PlusIs DEF a
    <3>5. \A i \in Kinds : Plus(a, j)[i] = b[i]
      BY <1>5, <3>2, <3>4 DEF a, b
    <3>6. Plus(a, j) = b
      BY <3>3, <3>4, <3>5, SameBag
    <3> QED BY <3>1, <3>6 DEF a, b
  <2>2. Total(Plus(Several(k, 1), j)) = Total(Several(k, 1)) + 1
    BY <1>1, <2>1, TotalPlus
  <2> QED BY <1>4, <2>1, <2>2, BagIs
<1>6. ASSUME NEW i \in Kinds, NEW j \in Kinds, i # j, i # k, j # k
      PROVE  Each({i, j, k}) \in Bags /\ Total(Each({i, j, k})) = 3
  <2>1. /\ Each({i, j, k}) \in Bags /\ Plus(Each({j, k}), i) = Each({i, j, k})
        /\ Each({j, k})[i] = 0
    <3>1. Each({i, j, k}) \in Bags /\ Each({j, k})[i] = 0
      BY <1>6 DEF Each, Bags
    <3>2. /\ Each({j, k}) \in [Kinds -> Int]
          /\ \A h \in Kinds : Each({j, k})[h] = IF h = j \/ h = k THEN 1 ELSE 0
          /\ \A h \in Kinds :
               Each({i, j, k})[h] = IF h = i \/ h = j \/ h = k THEN 1 ELSE 0
      BY DEF Each
    <3> DEFINE a == Each({j, k})
               b == Each({i, j, k})
    <3>3. b \in [Kinds -> Int]
      BY <3>1, BagIs
    <3> HIDE DEF a, b
    <3>4. /\ Plus(a, i) \in [Kinds -> Int]
          /\ \A h \in Kinds : Plus(a, i)[h] = IF h = i THEN a[h] + 1 ELSE a[h]
      BY <3>2, PlusIs DEF a
    <3>5. ASSUME NEW h \in Kinds PROVE Plus(a, i)[h] = b[h]
      <4>1. /\ a[h] = IF h = j \/ h = k THEN 1 ELSE 0
            /\ b[h] = IF h = i \/ h = j \/ h = k THEN 1 ELSE 0
        BY <3>2 DEF a, b
      <4>2. Plus(a, i)[h] = IF h = i THEN a[h] + 1 ELSE a[h]
        BY <3>4
      <4> QED BY <1>6, <4>1, <4>2
    <3>6. Plus(a, i) = b
      BY <3>3, <3>4, <3>5, SameBag
    <3> QED BY <3>1, <3>6 DEF a, b
  <2>2. Each({j, k}) \in Counts /\ Total(Each({j, k})) = 2
    BY <1>5, <1>6
  <2>3. Total(Plus(Each({j, k}), i)) = Total(Each({j, k})) + 1
    BY <2>1, <2>2, TotalPlus
  <2> QED BY <2>1, <2>2, <2>3
<1> QED BY <1>1, <1>4, <1>5, <1>6

LEMMA MeldTotal ==
  ASSUME NEW meld \in MeldBags
  PROVE  meld \in Bags /\ Total(meld) = 3
<1>1. CASE \E k \in Kinds : meld = Several(k, 3)
  BY <1>1, TotalFew
<1>2. ASSUME NEW k \in Kinds, Suited(k), Chow(k) \subseteq Kinds, meld = Each(Chow(k))
      PROVE  meld \in Bags /\ Total(meld) = 3
  <2>1. k = <<k[1], k[2]>> /\ k[1] \in Int /\ k[2] \in Int
    BY KindIs
  <2> DEFINE a == <<k[1], k[2] + 1>>
             b == <<k[1], k[2] + 2>>
  <2>2. Chow(k) = {k, a, b}
    BY <2>1, ChowIs
  <2>3. k # a /\ k # b /\ a # b
    BY <2>1
  <2> HIDE DEF a, b
  <2>4. a \in Kinds /\ b \in Kinds
    BY <1>2, <2>2
  <2> QED BY <1>2, <2>2, <2>3, <2>4, TotalFew
<1> QED BY <1>1, <1>2 DEF MeldBags

(* A group, and what is left of a bag that has it.                         *)
Size(i) == IF Kind(i) = "group" THEN 3 ELSE 2

LEMMA MaskTotal ==
  ASSUME NEW i \in Groups
  PROVE  Mask[i] \in Bags /\ Total(Mask[i]) = Size(i) /\ Size(i) \in {2, 3}
<1>1. CASE Kind(i) = "pair" /\ \E k \in Kinds : Mask[i] = Several(k, 2)
  BY <1>1, TotalFew DEF Size
<1>2. CASE Kind(i) = "group" /\ Mask[i] \in MeldBags
  BY <1>2, MeldTotal DEF Size
<1>3. CASE /\ Kind(i) = "pre_group"
           /\ \E j, k \in Kinds : j # k /\ Mask[i] = Each({j, k})
  BY <1>3, TotalFew DEF Size
<1> QED BY <1>1, <1>2, <1>3, GroupIs

LEMMA GroupTaken ==
  ASSUME NEW bag \in Bags, NEW i \in Groups, Have(bag, i)
  PROVE  /\ Without(bag, Mask[i]) \in Bags
         /\ With(Without(bag, Mask[i]), Mask[i]) = bag
         /\ Total(Without(bag, Mask[i])) = Total(bag) - Size(i)
         /\ Total(Without(bag, Mask[i])) < Total(bag)
<1>1. Mask[i] \in Bags /\ Total(Mask[i]) = Size(i) /\ Size(i) \in {2, 3}
  BY MaskTotal
<1>2. \A k \in Kinds : bag[k] >= Mask[i][k]
  BY DEF Have
<1>3. /\ Without(bag, Mask[i]) \in Bags
      /\ With(Without(bag, Mask[i]), Mask[i]) = bag
      /\ Total(Without(bag, Mask[i])) = Total(bag) - Total(Mask[i])
  BY <1>1, <1>2, TotalWithout
<1>4. Total(bag) \in Nat
  BY TotalZero
<1> QED BY <1>1, <1>3, <1>4

-----------------------------------------------------------------------------
(* FindGroups is a recursive function over hands that may be of any size   *)
(* and even negative; its equation holds since the least relation that is  *)
(* closed under it is a solution.                                          *)

Splits ==
  [pair : Nat, group : Nat, pre_group : Nat, single : {Total(bag) : bag \in [Kinds -> Int]}]
Fitting(bag, start) == {i \in Groups : i >= start /\ Have(bag, i)}
Rest(bag) == [pair |-> 0, group |-> 0, pre_group |-> 0, single |-> Total(bag)]
Add(split, i) == [split EXCEPT ![Kind(i)] = @ + 1]
Found(f, bag, start) ==
  IF Fitting(bag, start) = {}
  THEN {Rest(bag)}
  ELSE UNION {{Add(split, i) : split \in f[Without(bag, Mask[i])][i]} :
                i \in Fitting(bag, start)}

(* What Add does to a split.                                               *)
LEMMA KindsAre ==
  ASSUME NEW i \in Groups
  PROVE  Kind(i) \in {"pair", "group", "pre_group"}
BY GroupIs

LEMMA AddIs ==
  ASSUME NEW split \in Splits, NEW i \in Groups
  PROVE  /\ Add(split, i) \in Splits
         /\ Add(split, i).single = split.single
         /\ Add(split, i).pair = split.pair + (IF Kind(i) = "pair" THEN 1 ELSE 0)
         /\ Add(split, i).group = split.group + (IF Kind(i) = "group" THEN 1 ELSE 0)
         /\ Add(split, i).pre_group
              = split.pre_group + (IF Kind(i) = "pre_group" THEN 1 ELSE 0)
<1>1. CASE Kind(i) = "pair"
  BY <1>1 DEF Add, Splits
<1>2. CASE Kind(i) = "group"
  BY <1>2 DEF Add, Splits
<1>3. CASE Kind(i) = "pre_group"
  BY <1>3 DEF Add, Splits
<1> QED BY <1>1, <1>2, <1>3, KindsAre

LEMMA RestIs ==
  ASSUME NEW bag \in [Kinds -> Int]
  PROVE  /\ Rest(bag) \in Splits
         /\ Rest(bag).pair = 0 /\ Rest(bag).group = 0 /\ Rest(bag).pre_group = 0
         /\ Rest(bag).single = Total(bag)
BY DEF Rest, Splits

(* What is left when a group is taken, of any bag.                         *)
LEMMA LeftIs ==
  ASSUME NEW bag \in [Kinds -> Int], NEW i \in Groups
  PROVE  /\ Without(bag, Mask[i]) \in [Kinds -> Int] /\ i \in 0..137
         /\ Mask[i] \in [Kinds -> Int]
<1>1. Mask[i] \in [Kinds -> Int]
  BY MaskTotal, BagIs
<1> QED BY <1>1, WithIs DEF Groups

(* The least relation: closed sets of <<bag, start, split>>.               *)
Triples == [bag : [Kinds -> Int], start : 0..137, split : Splits]
Triple(bag, start, split) == [bag |-> bag, start |-> start, split |-> split]
Closed(X) ==
  /\ \A bag \in [Kinds -> Int], start \in 0..137 :
       Fitting(bag, start) = {} => Triple(bag, start, Rest(bag)) \in X
  /\ \A bag \in [Kinds -> Int], start \in 0..137, i \in Groups, split \in Splits :
       i \in Fitting(bag, start) /\ Triple(Without(bag, Mask[i]), i, split) \in X
         => Triple(bag, start, Add(split, i)) \in X
LeastClosed == {u \in Triples : \A X \in SUBSET Triples : Closed(X) => u \in X}
FromLeast ==
  [bag \in [Kinds -> Int] |->
     [start \in 0..137 |-> {split \in Splits : Triple(bag, start, split) \in LeastClosed}]]

LEMMA TripleIs ==
  ASSUME NEW bag \in [Kinds -> Int], NEW start \in 0..137, NEW split \in Splits
  PROVE  /\ Triple(bag, start, split) \in Triples
         /\ Triple(bag, start, split).bag = bag
         /\ Triple(bag, start, split).start = start
         /\ Triple(bag, start, split).split = split
BY DEF Triple, Triples

LEMMA LeastIsClosed ==
  Closed(LeastClosed)
<1>1. ASSUME NEW bag \in [Kinds -> Int], NEW start \in 0..137, Fitting(bag, start) = {}
      PROVE  Triple(bag, start, Rest(bag)) \in LeastClosed
  <2>1. Triple(bag, start, Rest(bag)) \in Triples
    BY RestIs, TripleIs
  <2>2. \A X \in SUBSET Triples : Closed(X) => Triple(bag, start, Rest(bag)) \in X
    BY <1>1 DEF Closed
  <2> QED BY <2>1, <2>2 DEF LeastClosed
<1>2. ASSUME NEW bag \in [Kinds -> Int], NEW start \in 0..137, NEW i \in Groups,
             NEW split \in Splits, i \in Fitting(bag, start),
             Triple(Without(bag, Mask[i]), i, split) \in LeastClosed
      PROVE  Triple(bag, start, Add(split, i)) \in LeastClosed
  <2>1. Triple(bag, start, Add(split, i)) \in Triples
    BY AddIs, TripleIs
  <2>2. ASSUME NEW X \in SUBSET Triples, Closed(X)
        PROVE  Triple(bag, start, Add(split, i)) \in X
    <3>1. Triple(Without(bag, Mask[i]), i, split) \in X
      BY <1>2, <2>2 DEF LeastClosed
    <3> QED BY <1>2, <2>2, <3>1 DEF Closed
  <2> QED BY <2>1, <2>2 DEF LeastClosed
<1> QED BY <1>1, <1>2 DEF Closed

LEMMA FromLeastIs ==
  ASSUME NEW bag \in [Kinds -> Int], NEW start \in 0..137
  PROVE  FromLeast[bag][start] = {split \in Splits : Triple(bag, start, split) \in LeastClosed}
BY DEF FromLeast

LEMMA InFromLeast ==
  ASSUME NEW bag \in [Kinds -> Int], NEW start \in 0..137
  PROVE  \A split : split \in FromLeast[bag][start] <=>
           split \in Splits /\ Triple(bag, start, split) \in LeastClosed
BY FromLeastIs, Zenon

Solved(u) == u.split \in Found(FromLeast, u.bag, u.start)
LEMMA SolvedIs ==
  ASSUME NEW bag \in [Kinds -> Int], NEW start \in 0..137, NEW split \in Splits
  PROVE  Solved(Triple(bag, start, split)) <=> split \in Found(FromLeast, bag, start)
<1>1. /\ Triple(bag, start, split).bag = bag
      /\ Triple(bag, start, split).start = start
      /\ Triple(bag, start, split).split = split
  BY TripleIs, SMTT(30)
<1> QED BY <1>1 DEF Solved

(* What Found says of one group.                                           *)
LEMMA FoundIs ==
  ASSUME NEW f, NEW bag, NEW start
  PROVE  /\ Fitting(bag, start) = {} => Found(f, bag, start) = {Rest(bag)}
         /\ Fitting(bag, start) # {} =>
              \A split : split \in Found(f, bag, start) <=>
                \E i \in Fitting(bag, start) :
                  \E less \in f[Without(bag, Mask[i])][i] : split = Add(less, i)
BY DEF Found

LEMMA LeastIsFound ==
  ASSUME NEW bag \in [Kinds -> Int], NEW start \in 0..137
  PROVE  FromLeast[bag][start] = Found(FromLeast, bag, start)
<1>1. ASSUME NEW split \in Found(FromLeast, bag, start)
      PROVE  split \in FromLeast[bag][start]
  <2>1. CASE Fitting(bag, start) = {}
    <3>1. split = Rest(bag) /\ Rest(bag) \in Splits
      BY <1>1, <2>1, FoundIs, RestIs
    <3>2. Triple(bag, start, Rest(bag)) \in LeastClosed
      BY <2>1, LeastIsClosed DEF Closed
    <3> QED BY <3>1, <3>2, FromLeastIs
  <2>2. CASE Fitting(bag, start) # {}
    <3> PICK i \in Fitting(bag, start) :
          \E less \in FromLeast[Without(bag, Mask[i])][i] : split = Add(less, i)
      BY <1>1, <2>2, FoundIs
    <3>1. PICK less \in FromLeast[Without(bag, Mask[i])][i] : split = Add(less, i)
      OBVIOUS
    <3>2. i \in Groups
      BY DEF Fitting
    <3>3. Without(bag, Mask[i]) \in [Kinds -> Int] /\ i \in 0..137
      BY <3>2, LeftIs
    <3>4. less \in Splits /\ Triple(Without(bag, Mask[i]), i, less) \in LeastClosed
      BY <3>1, <3>3, FromLeastIs
    <3>5. Triple(bag, start, Add(less, i)) \in LeastClosed
      BY <3>2, <3>4, LeastIsClosed DEF Closed
    <3>6. Add(less, i) \in Splits
      BY <3>2, <3>4, AddIs
    <3> QED BY <3>1, <3>5, <3>6, FromLeastIs
  <2> QED BY <2>1, <2>2
<1>2. ASSUME NEW split \in FromLeast[bag][start]
      PROVE  split \in Found(FromLeast, bag, start)
  <2> DEFINE X == {u \in LeastClosed : Solved(u)}
  <2>1. ASSUME NEW b \in [Kinds -> Int], NEW s \in 0..137, Fitting(b, s) = {}
        PROVE  Triple(b, s, Rest(b)) \in X
    <3>1. Triple(b, s, Rest(b)) \in LeastClosed
      BY <2>1, LeastIsClosed DEF Closed
    <3>2. Rest(b) \in Found(FromLeast, b, s)
      BY <2>1, FoundIs
    <3>3. Solved(Triple(b, s, Rest(b)))
      BY <3>2, RestIs, SolvedIs
    <3> QED BY <3>1, <3>3
  <2>2. ASSUME NEW b \in [Kinds -> Int], NEW s \in 0..137, NEW i \in Groups,
               NEW sp \in Splits, i \in Fitting(b, s),
               Triple(Without(b, Mask[i]), i, sp) \in X
        PROVE  Triple(b, s, Add(sp, i)) \in X
    <3>1. Triple(Without(b, Mask[i]), i, sp) \in LeastClosed
      BY <2>2
    <3>2. Triple(b, s, Add(sp, i)) \in LeastClosed
      BY <2>2, <3>1, LeastIsClosed DEF Closed
    <3>3. sp \in FromLeast[Without(b, Mask[i])][i]
      <4>1. Without(b, Mask[i]) \in [Kinds -> Int] /\ i \in 0..137
        BY LeftIs
      <4> QED BY <3>1, <4>1, InFromLeast
    <3>4. Add(sp, i) \in Found(FromLeast, b, s)
      BY <2>2, <3>3, FoundIs
    <3>5. Solved(Triple(b, s, Add(sp, i)))
      <4>1. Add(sp, i) \in Splits
        BY AddIs
      <4> QED BY <3>4, <4>1, SolvedIs
    <3> QED BY <3>2, <3>5
  <2>3. Closed(X) /\ X \in SUBSET Triples
    <3>1. X \in SUBSET Triples
      BY DEF LeastClosed
    <3> HIDE DEF X
    <3> QED BY <2>1, <2>2, <3>1 DEF Closed
  <2>4. split \in Splits /\ Triple(bag, start, split) \in LeastClosed
    BY <1>2, FromLeastIs
  <2>5. Triple(bag, start, split) \in X
    <3> HIDE DEF X
    <3> QED BY <2>3, <2>4 DEF LeastClosed
  <2> QED BY <2>4, <2>5, SolvedIs
<1> QED BY <1>1, <1>2

(* The equation.                                                           *)
LEMMA FindGroupsIs ==
  ASSUME NEW bag \in [Kinds -> Int], NEW start \in 0..137
  PROVE  FindGroups[bag][start] = Found(FindGroups, bag, start)
<1> DEFINE Solves(f) ==
             f = [b \in [Kinds -> Int] |-> [s \in 0..137 |-> Found(f, b, s)]]
<1>1. FindGroups = CHOOSE f : Solves(f)
  BY DEF FindGroups, Found, Fitting, Rest, Add
<1>2. Solves(FromLeast)
  <2>1. FromLeast = [b \in [Kinds -> Int] |-> [s \in 0..137 |-> FromLeast[b][s]]]
    BY DEF FromLeast
  <2>2. \A b \in [Kinds -> Int], s \in 0..137 : FromLeast[b][s] = Found(FromLeast, b, s)
    BY LeastIsFound
  <2>3. [b \in [Kinds -> Int] |-> [s \in 0..137 |-> FromLeast[b][s]]]
          = [b \in [Kinds -> Int] |-> [s \in 0..137 |-> Found(FromLeast, b, s)]]
    BY <2>2
  <2> QED BY <2>1, <2>3
<1>3. Solves(CHOOSE f : Solves(f))
  <2> HIDE DEF Solves
  <2> QED BY <1>2, Zenon
<1>4. Solves(FindGroups)
  <2> HIDE DEF Solves
  <2> QED BY <1>1, <1>3
<1>5. ASSUME NEW f, Solves(f) PROVE f[bag][start] = Found(f, bag, start)
  <2> DEFINE g == [b \in [Kinds -> Int] |-> [s \in 0..137 |-> Found(f, b, s)]]
  <2>1. f = g
    BY <1>5
  <2>2. g[bag][start] = Found(f, bag, start)
    OBVIOUS
  <2> HIDE DEF g
  <2>3. f[bag][start] = g[bag][start]
    BY <2>1
  <2> QED BY <2>2, <2>3
<1> HIDE DEF Solves
<1> QED BY <1>4, <1>5

-----------------------------------------------------------------------------
(* The splits that the search finds, of the bags of a game.                *)

LEMMA SplitOf ==
  ASSUME NEW bag \in Bags, NEW start \in 0..137
  PROVE  /\ Fitting(bag, start) = {} => FindGroups[bag][start] = {Rest(bag)}
         /\ Fitting(bag, start) # {} =>
              \A split : split \in FindGroups[bag][start] <=>
                \E i \in Fitting(bag, start) :
                  \E less \in FindGroups[Without(bag, Mask[i])][i] : split = Add(less, i)
<1>1. FindGroups[bag][start] = Found(FindGroups, bag, start)
  BY BagIs, FindGroupsIs
<1>2. /\ Fitting(bag, start) = {} => Found(FindGroups, bag, start) = {Rest(bag)}
      /\ Fitting(bag, start) # {} =>
           \A split : split \in Found(FindGroups, bag, start) <=>
             \E i \in Fitting(bag, start) :
               \E less \in FindGroups[Without(bag, Mask[i])][i] : split = Add(less, i)
  BY FoundIs, Zenon
<1> QED BY <1>1, <1>2, Zenon

(* A split is the rest of the bag, or comes of one with a group less.      *)
Comes(bag, start, split) ==
  \E i \in Fitting(bag, start) :
    \E less \in FindGroups[Without(bag, Mask[i])][i] : split = Add(less, i)

LEMMA SplitFrom ==
  ASSUME NEW bag \in Bags, NEW start \in 0..137, NEW split \in FindGroups[bag][start]
  PROVE  /\ Fitting(bag, start) = {} => split = Rest(bag)
         /\ Fitting(bag, start) # {} => Comes(bag, start, split)
<1>1. /\ Fitting(bag, start) = {} => FindGroups[bag][start] = {Rest(bag)}
      /\ Fitting(bag, start) # {} =>
           \A sp : sp \in FindGroups[bag][start] <=>
             \E i \in Fitting(bag, start) :
               \E less \in FindGroups[Without(bag, Mask[i])][i] : sp = Add(less, i)
  BY SplitOf
<1>2. ASSUME Fitting(bag, start) = {} PROVE split = Rest(bag)
  <2>1. FindGroups[bag][start] = {Rest(bag)}
    BY <1>1, <1>2, Zenon
  <2> QED BY <2>1, Zenon
<1>3. ASSUME Fitting(bag, start) # {} PROVE Comes(bag, start, split)
  <2>1. \A sp : sp \in FindGroups[bag][start] <=>
          \E i \in Fitting(bag, start) :
            \E less \in FindGroups[Without(bag, Mask[i])][i] : sp = Add(less, i)
    BY <1>1, <1>3, Zenon
  <2> QED BY <2>1, Zenon DEF Comes
<1> QED BY <1>2, <1>3, Zenon

LEMMA SplitInto ==
  ASSUME NEW bag \in Bags, NEW start \in 0..137, NEW i \in Fitting(bag, start),
         NEW less, less \in FindGroups[Without(bag, Mask[i])][i]
  PROVE  Add(less, i) \in FindGroups[bag][start]
<1>1. \A sp : sp \in FindGroups[bag][start] <=>
        \E j \in Fitting(bag, start) :
          \E l \in FindGroups[Without(bag, Mask[j])][j] : sp = Add(l, j)
  <2>1. Fitting(bag, start) # {}
    OBVIOUS
  <2> QED BY <2>1, SplitOf
<1> QED BY <1>1, Zenon

(* A group that fits, and what is left.                                    *)
LEMMA FittingIs ==
  ASSUME NEW bag \in Bags, NEW start \in 0..137, NEW i \in Fitting(bag, start)
  PROVE  /\ i \in Groups /\ i \in 0..137 /\ i >= start /\ Have(bag, i)
         /\ Without(bag, Mask[i]) \in Bags
         /\ With(Without(bag, Mask[i]), Mask[i]) = bag
         /\ Total(Without(bag, Mask[i])) = Total(bag) - Size(i)
         /\ Total(Without(bag, Mask[i])) < Total(bag)
         /\ Size(i) \in {2, 3} /\ Mask[i] \in Bags
<1>1. i \in Groups /\ i >= start /\ Have(bag, i)
  BY DEF Fitting
<1>2. i \in 0..137
  BY <1>1 DEF Groups
<1> QED BY <1>1, <1>2, GroupTaken, MaskTotal

(* A split has the tiles of its bag, and every bag has one.                *)
TilesOf(split) ==
  split.group * 3 + split.pre_group * 2 + split.pair * 2 + split.single
IsSplit(split, bag) ==
  /\ split \in [pair : Nat, group : Nat, pre_group : Nat, single : Nat]
  /\ split \in Splits
  /\ TilesOf(split) = Total(bag)
Splitting(bag) ==
  \A start \in 0..137 :
    /\ FindGroups[bag][start] # {}
    /\ \A split \in FindGroups[bag][start] : IsSplit(split, bag)

LEMMA SplittingStep ==
  ASSUME NEW bag \in Bags,
         \A less \in Bags : Total(less) < Total(bag) => Splitting(less)
  PROVE  Splitting(bag)
<1> SUFFICES ASSUME NEW start \in 0..137
             PROVE  /\ FindGroups[bag][start] # {}
                    /\ \A split \in FindGroups[bag][start] : IsSplit(split, bag)
  BY DEF Splitting
<1>1. CASE Fitting(bag, start) = {}
  <2>1. FindGroups[bag][start] = {Rest(bag)}
    BY <1>1, SplitOf
  <2>2. Total(bag) \in Nat
    BY TotalZero
  <2>3. /\ Rest(bag) \in Splits /\ Rest(bag).pair = 0 /\ Rest(bag).group = 0
        /\ Rest(bag).pre_group = 0 /\ Rest(bag).single = Total(bag)
    BY BagIs, RestIs
  <2>4. Rest(bag) \in [pair : Nat, group : Nat, pre_group : Nat, single : Nat]
    BY <2>2 DEF Rest
  <2>5. IsSplit(Rest(bag), bag)
    BY <2>2, <2>3, <2>4 DEF IsSplit, TilesOf
  <2> QED BY <2>1, <2>5
<1>2. CASE Fitting(bag, start) # {}
  <2>1. ASSUME NEW i \in Fitting(bag, start)
        PROVE  /\ FindGroups[Without(bag, Mask[i])][i] # {}
               /\ \A less \in FindGroups[Without(bag, Mask[i])][i] :
                    IsSplit(Add(less, i), bag)
    <3>1. /\ i \in Groups /\ i \in 0..137 /\ Without(bag, Mask[i]) \in Bags
          /\ Total(Without(bag, Mask[i])) = Total(bag) - Size(i)
          /\ Total(Without(bag, Mask[i])) < Total(bag)
      BY FittingIs
    <3> DEFINE rest == Without(bag, Mask[i])
    <3>2. Splitting(rest)
      BY <3>1
    <3>3. Total(rest) \in Nat /\ Total(bag) \in Nat
      BY <3>1, TotalZero
    <3>4. ASSUME NEW less \in FindGroups[rest][i] PROVE IsSplit(Add(less, i), bag)
      <4>1. IsSplit(less, rest)
        BY <3>1, <3>2 DEF Splitting
      <4> HIDE DEF rest
      <4>2. /\ less \in Splits /\ TilesOf(less) = Total(bag) - Size(i)
            /\ less \in [pair : Nat, group : Nat, pre_group : Nat, single : Nat]
        BY <3>1, <4>1 DEF IsSplit, rest
      <4>3. Add(less, i) \in [pair : Nat, group : Nat, pre_group : Nat, single : Nat]
        <5>1. CASE Kind(i) = "pair"
          BY <4>2, <5>1 DEF Add
        <5>2. CASE Kind(i) = "group"
          BY <4>2, <5>2 DEF Add
        <5>3. CASE Kind(i) = "pre_group"
          BY <4>2, <5>3 DEF Add
        <5> QED BY <3>1, <5>1, <5>2, <5>3, KindsAre
      <4>4. TilesOf(Add(less, i)) = TilesOf(less) + Size(i)
        <5> DEFINE new == Add(less, i)
        <5>1. /\ new.single = less.single
              /\ new.pair = less.pair + (IF Kind(i) = "pair" THEN 1 ELSE 0)
              /\ new.group = less.group + (IF Kind(i) = "group" THEN 1 ELSE 0)
              /\ new.pre_group = less.pre_group + (IF Kind(i) = "pre_group" THEN 1 ELSE 0)
          BY <3>1, <4>2, AddIs
        <5>2. /\ less.single \in Nat /\ less.pair \in Nat
              /\ less.group \in Nat /\ less.pre_group \in Nat
          BY <4>2
        <5> HIDE DEF new
        <5>3. TilesOf(new) = TilesOf(less) + Size(i)
          <6>1. CASE Kind(i) = "pair"
            BY <5>1, <5>2, <6>1 DEF TilesOf, Size
          <6>2. CASE Kind(i) = "group"
            BY <5>1, <5>2, <6>2 DEF TilesOf, Size
          <6>3. CASE Kind(i) = "pre_group"
            <7>1. /\ new.single = less.single /\ new.pair = less.pair
                  /\ new.group = less.group /\ new.pre_group = less.pre_group + 1
                  /\ Size(i) = 2
              BY <5>1, <5>2, <6>3 DEF Size
            <7> QED BY <5>2, <7>1 DEF TilesOf
          <6> QED BY <3>1, <6>1, <6>2, <6>3, KindsAre
        <5> QED BY <5>3 DEF new
      <4>5. Add(less, i) \in Splits
        BY <3>1, <4>2, AddIs
      <4>6. Size(i) \in {2, 3}
        BY <3>1, MaskTotal
      <4> QED BY <3>3, <4>2, <4>3, <4>4, <4>5, <4>6 DEF IsSplit
    <3> QED BY <3>1, <3>2, <3>4 DEF Splitting
  <2>2. \A split : split \in FindGroups[bag][start] <=>
          \E i \in Fitting(bag, start) :
            \E less \in FindGroups[Without(bag, Mask[i])][i] : split = Add(less, i)
    BY <1>2, SplitOf
  <2>3. FindGroups[bag][start] # {}
    <3> PICK i \in Fitting(bag, start) : TRUE
      BY <1>2
    <3> PICK less \in FindGroups[Without(bag, Mask[i])][i] : TRUE
      BY <2>1
    <3> QED BY <2>2
  <2> QED BY <2>1, <2>2, <2>3
<1> QED BY <1>1, <1>2

LEMMA SplitsAre ==
  ASSUME NEW bag \in Bags, NEW start \in 0..137
  PROVE  /\ FindGroups[bag][start] # {}
         /\ \A split \in FindGroups[bag][start] : IsSplit(split, bag)
<1> DEFINE S == {b \in Bags : Splitting(b)}
<1>1. \A b \in Bags :
        (\A less \in Bags : Total(less) < Total(b) => less \in S) => b \in S
  BY SplittingStep
<1>2. S \in SUBSET Bags
  OBVIOUS
<1> HIDE DEF S
<1>3. S = Bags
  BY <1>1, <1>2, BagSet
<1> QED BY <1>3 DEF S, Splitting

-----------------------------------------------------------------------------
(* What a split counts for.                                                *)

(* CountSteps by its numbers: groups, pre-groups, pairs, and how many      *)
(* groups a winning hand needs.                                            *)
Steps(g, h, p, n) ==
  n * 2 + 1 - (g * 2 + h + p)
    + (IF g + h + p > n + 1 THEN g + h + p - (n + 1) ELSE 0)
    + (IF h # 0 /\ p = 0 /\ h >= n + 1 - g THEN 1 ELSE 0)

LEMMA StepsAre ==
  ASSUME NEW split \in [pair : Nat, group : Nat, pre_group : Nat, single : Nat],
         NEW n \in Nat, NEW r \in 0..2, TilesOf(split) = 3 * n + r
  PROVE  /\ CountSteps(split) = Steps(split.group, split.pre_group, split.pair, n)
         /\ split.group * 3 + split.pre_group * 2 + split.pair * 2 + split.single = 3 * n + r
         /\ split.group \in Nat /\ split.pre_group \in Nat
         /\ split.pair \in Nat /\ split.single \in Nat
<1> DEFINE g == split.group
           h == split.pre_group
           p == split.pair
           s == split.single
<1>1. g \in Nat /\ h \in Nat /\ p \in Nat /\ s \in Nat
  OBVIOUS
<1>2. g * 3 + h * 2 + p * 2 + s = 3 * n + r
  BY DEF TilesOf
<1> DEFINE needed == (g * 3 + h * 2 + p * 2 + s) \div 3
<1>3. CountSteps(split) = Steps(g, h, p, needed)
  BY DEF CountSteps, Pairless, Steps
<1>4. (3 * n + r) \div 3 = n
  OBVIOUS
<1> HIDE DEF g, h, p, s
<1>5. needed = n
  BY <1>2, <1>4
<1> HIDE DEF needed
<1>6. CountSteps(split) = Steps(g, h, p, n)
  BY <1>3, <1>5
<1> QED BY <1>1, <1>2, <1>6 DEF g, h, p, s

(* Steps are a number; more groups cost no more; and of a hand that splits *)
(* without rest a pre-group, or else a pair, can be broken.                *)
LEMMA StepsNat ==
  ASSUME NEW g \in Nat, NEW h \in Nat, NEW p \in Nat, NEW n \in Nat,
         g * 3 + h * 2 + p * 2 <= 3 * n + 2
  PROVE  Steps(g, h, p, n) \in Nat
BY DEF Steps

LEMMA MoreCostsLess ==
  ASSUME NEW g \in Nat, NEW h \in Nat, NEW p \in Nat, NEW n \in Nat,
         NEW gg \in Nat, NEW hh \in Nat, NEW pp \in Nat,
         gg * 3 + hh * 2 + pp * 2 <= 3 * n + 2,
         gg >= g, hh >= h, pp >= p
  PROVE  Steps(gg, hh, pp, n) <= Steps(g, h, p, n)
BY DEF Steps

LEMMA BreakOne ==
  ASSUME NEW g \in Nat, NEW h \in Nat, NEW p \in Nat, NEW n \in Nat,
         g * 3 + h * 2 + p * 2 = 3 * n + 2, Steps(g, h, p, n) # 0
  PROVE  /\ h > 0 => Steps(g, h - 1, p, n) <= Steps(g, h, p, n)
         /\ h = 0 => p > 0 /\ Steps(g, h, p - 1, n) <= Steps(g, h, p, n)
BY DEF Steps

LEMMA NoStep ==
  ASSUME NEW g \in Nat, NEW h \in Nat, NEW p \in Nat, NEW n \in Nat, NEW s \in Nat,
         g * 3 + h * 2 + p * 2 + s = 3 * n + 2, Steps(g, h, p, n) = 0
  PROVE  g = n /\ h = 0 /\ p = 1 /\ s = 0
BY DEF Steps

(* A function that is only tabulated is what it was.                       *)
LEMMA TabulatedIs ==
  ASSUME NEW f
  PROVE  Tabulated(f) = f
BY DEF Tabulated

(* StepToHu counts from the best split.                                    *)
LEMMA HandIs ==
  ASSUME NEW sizes, NEW bag
  PROVE  bag \in Hands(sizes) <=> bag \in Bags /\ Total(bag) \in sizes
BY DEF Hands, Bags

LEMMA BestSplit ==
  ASSUME NEW bag \in Bags, Total(bag) <= HandSize + 1
  PROVE  /\ StepToHu[bag] \in Nat
         /\ \E split \in FindGroups[bag][0] : StepToHu[bag] = CountSteps(split)
         /\ \A split \in FindGroups[bag][0] :
              CountSteps(split) \in Nat /\ StepToHu[bag] <= CountSteps(split)
<1>1. Total(bag) \in 0..HandSize + 1
  BY HandSizeAssumption, TotalZero
<1>2. bag \in Hands(0..HandSize + 1)
  BY <1>1, HandIs
<1>3. StepToHu[bag] = Min({CountSteps(split) : split \in FindGroups[bag][0]})
  <2> DEFINE best == [b \in Hands(0..HandSize + 1) |->
                        Min({CountSteps(split) : split \in FindGroups[b][0]})]
  <2>1. StepToHu = best
    BY TabulatedIs, Zenon DEF StepToHu
  <2>2. best[bag] = Min({CountSteps(split) : split \in FindGroups[bag][0]})
    BY <1>2
  <2> HIDE DEF best
  <2> QED BY <2>1, <2>2
<1>4. 0 \in 0..137
  OBVIOUS
<1>5. ASSUME NEW split \in FindGroups[bag][0] PROVE CountSteps(split) \in Nat
  <2>1. IsSplit(split, bag)
    BY <1>4, SplitsAre
  <2>2. PICK n \in Nat, r \in 0..2 : Total(bag) = 3 * n + r
    <3>1. Total(bag) = 3 * (Total(bag) \div 3) + (Total(bag) % 3)
      BY <1>1
    <3>2. Total(bag) \div 3 \in Nat /\ Total(bag) % 3 \in 0..2
      BY <1>1, HandSizeAssumption
    <3> QED BY <3>1, <3>2
  <2>3. /\ CountSteps(split) = Steps(split.group, split.pre_group, split.pair, n)
        /\ split.group * 3 + split.pre_group * 2 + split.pair * 2 + split.single
             = 3 * n + r
        /\ split.group \in Nat /\ split.pre_group \in Nat
        /\ split.pair \in Nat /\ split.single \in Nat
    BY <2>1, <2>2, StepsAre DEF IsSplit
  <2>4. split.group * 3 + split.pre_group * 2 + split.pair * 2 <= 3 * n + 2
    BY <2>3
  <2>5. Steps(split.group, split.pre_group, split.pair, n) \in Nat
    <3> DEFINE g == split.group
               h == split.pre_group
               p == split.pair
    <3>1. g \in Nat /\ h \in Nat /\ p \in Nat /\ g * 3 + h * 2 + p * 2 <= 3 * n + 2
      BY <2>3, <2>4
    <3> HIDE DEF g, h, p
    <3>2. Steps(g, h, p, n) \in Nat
      BY <3>1, StepsNat
    <3> QED BY <3>2 DEF g, h, p
  <2> QED BY <2>3, <2>5
<1>6. FindGroups[bag][0] # {}
  BY <1>4, SplitsAre
<1> DEFINE counts == {CountSteps(split) : split \in FindGroups[bag][0]}
<1>7. counts # {} /\ counts \subseteq Nat
  BY <1>5, <1>6
<1>8. Min(counts) \in counts /\ \A m \in counts : Min(counts) <= m
  <2> HIDE DEF counts
  <2> QED BY <1>7, MinIs
<1>9. \A split \in FindGroups[bag][0] : CountSteps(split) \in counts
  OBVIOUS
<1>10. \A m \in counts : \E split \in FindGroups[bag][0] : m = CountSteps(split)
  OBVIOUS
<1>11. StepToHu[bag] = Min(counts)
  BY <1>3
<1> HIDE DEF counts
<1> QED BY <1>5, <1>7, <1>8, <1>9, <1>10, <1>11

-----------------------------------------------------------------------------
(* A tile more, and a tile less.                                           *)

(* A split with at least as many groups of each sort.                      *)
AtLeast(more, split) ==
  /\ more.group >= split.group /\ more.pre_group >= split.pre_group
  /\ more.pair >= split.pair

LEMMA AtLeastBoth ==
  ASSUME NEW split \in Splits, NEW more \in Splits, AtLeast(more, split),
         NEW i \in Groups
  PROVE  AtLeast(Add(more, i), Add(split, i))
<1> DEFINE a == Add(split, i)
           b == Add(more, i)
<1>1. /\ a.pair = split.pair + (IF Kind(i) = "pair" THEN 1 ELSE 0)
      /\ a.group = split.group + (IF Kind(i) = "group" THEN 1 ELSE 0)
      /\ a.pre_group = split.pre_group + (IF Kind(i) = "pre_group" THEN 1 ELSE 0)
      /\ b.pair = more.pair + (IF Kind(i) = "pair" THEN 1 ELSE 0)
      /\ b.group = more.group + (IF Kind(i) = "group" THEN 1 ELSE 0)
      /\ b.pre_group = more.pre_group + (IF Kind(i) = "pre_group" THEN 1 ELSE 0)
  BY AddIs
<1>2. /\ split.pair \in Nat /\ split.group \in Nat /\ split.pre_group \in Nat
      /\ more.pair \in Nat /\ more.group \in Nat /\ more.pre_group \in Nat
  BY DEF Splits
<1> HIDE DEF a, b
<1>3. AtLeast(b, a)
  BY <1>1, <1>2 DEF AtLeast
<1> QED BY <1>3 DEF a, b

LEMMA AtLeastAll ==
  ASSUME NEW a \in Splits, NEW b \in Splits, NEW c \in Splits,
         AtLeast(a, b), AtLeast(b, c)
  PROVE  AtLeast(a, c)
<1>1. /\ a.pair \in Nat /\ a.group \in Nat /\ a.pre_group \in Nat
      /\ b.pair \in Nat /\ b.group \in Nat /\ b.pre_group \in Nat
      /\ c.pair \in Nat /\ c.group \in Nat /\ c.pre_group \in Nat
  BY DEF Splits
<1> QED BY <1>1 DEF AtLeast

LEMMA AtLeastRest ==
  ASSUME NEW more \in Splits, NEW bag \in [Kinds -> Int]
  PROVE  AtLeast(more, Rest(bag)) /\ AtLeast(more, more)
<1>1. /\ more.pair \in Nat /\ more.group \in Nat /\ more.pre_group \in Nat
      /\ Rest(bag).pair = 0 /\ Rest(bag).group = 0 /\ Rest(bag).pre_group = 0
  BY RestIs DEF Splits
<1> QED BY <1>1 DEF AtLeast

(* What the search finds from a later group on, it finds from an earlier.  *)
LEMMA FromEarlier ==
  ASSUME NEW bag \in Bags, NEW start \in 0..137, NEW i \in 0..137, start <= i,
         NEW split \in FindGroups[bag][i]
  PROVE  \E more \in FindGroups[bag][start] : more \in Splits /\ AtLeast(more, split)
<1>1. /\ FindGroups[bag][start] # {}
      /\ \A more \in FindGroups[bag][start] : more \in Splits
      /\ split \in Splits
  BY SplitsAre DEF IsSplit
<1>2. CASE Fitting(bag, i) = {}
  <2>1. split = Rest(bag)
    BY <1>2, SplitFrom
  <2> PICK more \in FindGroups[bag][start] : TRUE
    BY <1>1
  <2> QED BY <1>1, <2>1, BagIs, AtLeastRest
<1>3. CASE Fitting(bag, i) # {}
  <2>0. Comes(bag, i, split)
    BY <1>3, SplitFrom
  <2> PICK j \in Fitting(bag, i) :
        \E less \in FindGroups[Without(bag, Mask[j])][j] : split = Add(less, j)
    BY <2>0, Zenon DEF Comes
  <2>1. j \in Fitting(bag, start)
    <3>1. j \in Groups /\ j >= i /\ Have(bag, j) /\ j \in Int
      BY DEF Fitting, Groups
    <3>2. j >= start
      BY <3>1
    <3> QED BY <3>1, <3>2 DEF Fitting
  <2>2. split \in FindGroups[bag][start]
    BY <2>1, SplitInto
  <2> QED BY <1>1, <2>2, BagIs, AtLeastRest
<1> QED BY <1>2, <1>3

(* A group taken before or after one tile comes or goes.                   *)
LEMMA PlusThenTake ==
  ASSUME NEW bag \in [Kinds -> Int], NEW mask \in [Kinds -> Int], NEW k \in Kinds
  PROVE  /\ Without(Plus(bag, k), mask) = Plus(Without(bag, mask), k)
         /\ Without(Minus(bag, k), mask) = Minus(Without(bag, mask), k)
<1> DEFINE rest == Without(bag, mask)
           more == Plus(bag, k)
           less == Minus(bag, k)
<1>1. rest \in [Kinds -> Int] /\ \A j \in Kinds : rest[j] = bag[j] - mask[j]
  BY WithIs
<1>2. /\ more \in [Kinds -> Int] /\ less \in [Kinds -> Int]
      /\ \A j \in Kinds : more[j] = IF j = k THEN bag[j] + 1 ELSE bag[j]
      /\ \A j \in Kinds : less[j] = IF j = k THEN bag[j] - 1 ELSE bag[j]
  BY PlusIs
<1> HIDE DEF rest, more, less
<1>3. /\ Plus(rest, k) \in [Kinds -> Int] /\ Minus(rest, k) \in [Kinds -> Int]
      /\ \A j \in Kinds : Plus(rest, k)[j] = IF j = k THEN rest[j] + 1 ELSE rest[j]
      /\ \A j \in Kinds : Minus(rest, k)[j] = IF j = k THEN rest[j] - 1 ELSE rest[j]
  BY <1>1, PlusIs
<1>4. /\ Without(more, mask) \in [Kinds -> Int] /\ Without(less, mask) \in [Kinds -> Int]
      /\ \A j \in Kinds : Without(more, mask)[j] = more[j] - mask[j]
      /\ \A j \in Kinds : Without(less, mask)[j] = less[j] - mask[j]
  BY <1>2, WithIs
<1>5. ASSUME NEW j \in Kinds
      PROVE  /\ Without(more, mask)[j] = Plus(rest, k)[j]
             /\ Without(less, mask)[j] = Minus(rest, k)[j]
  <2>1. bag[j] \in Int /\ mask[j] \in Int
    OBVIOUS
  <2>2. /\ rest[j] = bag[j] - mask[j]
        /\ more[j] = IF j = k THEN bag[j] + 1 ELSE bag[j]
        /\ less[j] = IF j = k THEN bag[j] - 1 ELSE bag[j]
        /\ Plus(rest, k)[j] = IF j = k THEN rest[j] + 1 ELSE rest[j]
        /\ Minus(rest, k)[j] = IF j = k THEN rest[j] - 1 ELSE rest[j]
        /\ Without(more, mask)[j] = more[j] - mask[j]
        /\ Without(less, mask)[j] = less[j] - mask[j]
    BY <1>1, <1>2, <1>3, <1>4
  <2> QED BY <2>1, <2>2
<1>6. Without(more, mask) = Plus(rest, k) /\ Without(less, mask) = Minus(rest, k)
  BY <1>3, <1>4, <1>5, SameBag
<1> QED BY <1>6 DEF rest, more, less

LEMMA PlusInBags ==
  ASSUME NEW bag \in Bags, NEW k \in Kinds
  PROVE  /\ bag[k] < 4 <=> Plus(bag, k) \in Bags
         /\ bag[k] > 0 <=> Minus(bag, k) \in Bags
<1>1. bag \in [Kinds -> Int] /\ \A j \in Kinds : bag[j] \in 0..4
  BY BagIs
<1>2. /\ Plus(bag, k) \in [Kinds -> Int] /\ Minus(bag, k) \in [Kinds -> Int]
      /\ \A j \in Kinds : Plus(bag, k)[j] = IF j = k THEN bag[j] + 1 ELSE bag[j]
      /\ \A j \in Kinds : Minus(bag, k)[j] = IF j = k THEN bag[j] - 1 ELSE bag[j]
  BY <1>1, PlusIs
<1>3. bag[k] < 4 <=> \A j \in Kinds : Plus(bag, k)[j] \in 0..4
  BY <1>1, <1>2
<1>4. bag[k] > 0 <=> \A j \in Kinds : Minus(bag, k)[j] \in 0..4
  BY <1>1, <1>2
<1> QED BY <1>2, <1>3, <1>4, CountIs

(* A group that fits still fits with one tile more.                        *)
LEMMA FitsMore ==
  ASSUME NEW bag \in Bags, NEW start \in 0..137, NEW i \in Fitting(bag, start),
         NEW k \in Kinds
  PROVE  i \in Fitting(Plus(bag, k), start)
<1>1. i \in Groups /\ i >= start /\ Have(bag, i)
  BY DEF Fitting
<1>2. /\ bag \in [Kinds -> Int] /\ Mask[i] \in [Kinds -> Int]
      /\ \A j \in Kinds : bag[j] >= Mask[i][j]
  BY <1>1, BagIs, LeftIs DEF Have
<1>3. \A j \in Kinds : Plus(bag, k)[j] = IF j = k THEN bag[j] + 1 ELSE bag[j]
  BY <1>2, PlusIs
<1>4. ASSUME NEW j \in Kinds PROVE Plus(bag, k)[j] >= Mask[i][j]
  <2>1. bag[j] \in Int /\ Mask[i][j] \in Int /\ bag[j] >= Mask[i][j]
    BY <1>2
  <2> QED BY <1>3, <2>1
<1> QED BY <1>1, <1>4 DEF Fitting, Have

(* It fits with one tile less if that tile is left.                        *)
LEMMA FitsLess ==
  ASSUME NEW bag \in Bags, NEW start \in 0..137, NEW i \in Fitting(bag, start),
         NEW k \in Kinds, Without(bag, Mask[i])[k] > 0
  PROVE  i \in Fitting(Minus(bag, k), start) /\ bag[k] > 0
<1>1. i \in Groups /\ i >= start /\ Have(bag, i) /\ Mask[i] \in Bags
  BY FittingIs
<1>2. /\ bag \in [Kinds -> Int] /\ Mask[i] \in [Kinds -> Int]
      /\ \A j \in Kinds : bag[j] >= Mask[i][j] /\ Mask[i][j] \in 0..4
  BY <1>1, BagIs DEF Have
<1>3. \A j \in Kinds : Minus(bag, k)[j] = IF j = k THEN bag[j] - 1 ELSE bag[j]
  BY <1>2, PlusIs
<1>4. Without(bag, Mask[i])[k] = bag[k] - Mask[i][k]
  BY <1>2, WithIs
<1>5. ASSUME NEW j \in Kinds PROVE Minus(bag, k)[j] >= Mask[i][j]
  <2>1. bag[j] \in Int /\ Mask[i][j] \in 0..4 /\ bag[j] >= Mask[i][j]
    BY <1>2
  <2> QED BY <1>3, <1>4, <2>1
<1>6. bag[k] > 0
  <2>1. bag[k] \in Int /\ Mask[i][k] \in 0..4
    BY <1>2
  <2> QED BY <1>4, <2>1
<1> QED BY <1>1, <1>5, <1>6 DEF Fitting, Have

(* With one tile more the search finds at least as many groups.            *)
Growing(bag) ==
  \A k \in Kinds, start \in 0..137 : Plus(bag, k) \in Bags =>
    \A split \in FindGroups[bag][start] :
      \E more \in FindGroups[Plus(bag, k)][start] : AtLeast(more, split)

LEMMA GrowingStep ==
  ASSUME NEW bag \in Bags,
         \A less \in Bags : Total(less) < Total(bag) => Growing(less)
  PROVE  Growing(bag)
<1> SUFFICES ASSUME NEW k \in Kinds, NEW start \in 0..137, Plus(bag, k) \in Bags,
                    NEW split \in FindGroups[bag][start]
             PROVE  \E more \in FindGroups[Plus(bag, k)][start] : AtLeast(more, split)
  BY DEF Growing
<1>1. CASE Fitting(bag, start) = {}
  <2>1. split = Rest(bag)
    BY <1>1, SplitFrom
  <2>2. PICK more \in FindGroups[Plus(bag, k)][start] : more \in Splits
    BY SplitsAre DEF IsSplit
  <2>3. bag \in [Kinds -> Int]
    BY BagIs
  <2> QED BY <2>1, <2>2, <2>3, AtLeastRest
<1>2. CASE Fitting(bag, start) # {}
  <2>0. Comes(bag, start, split)
    BY <1>2, SplitFrom
  <2> PICK i \in Fitting(bag, start) :
        \E less \in FindGroups[Without(bag, Mask[i])][i] : split = Add(less, i)
    BY <2>0, Zenon DEF Comes
  <2> DEFINE rest == Without(bag, Mask[i])
  <2>1. PICK less \in FindGroups[rest][i] : split = Add(less, i)
    OBVIOUS
  <2>2. /\ i \in Groups /\ i \in 0..137 /\ rest \in Bags /\ Total(rest) < Total(bag)
        /\ Mask[i] \in Bags
    BY FittingIs
  <2>3. Without(Plus(bag, k), Mask[i]) = Plus(rest, k)
    BY <2>2, BagIs, PlusThenTake
  <2>4. i \in Fitting(Plus(bag, k), start)
    BY FitsMore
  <2>5. Plus(rest, k) \in Bags
    BY <2>3, <2>4, FittingIs, SMTT(60)
  <2>6. Growing(rest)
    BY <2>2
  <2>7. PICK more \in FindGroups[Plus(rest, k)][i] : AtLeast(more, less)
    <3> HIDE DEF rest
    <3> QED BY <2>2, <2>5, <2>6 DEF Growing
  <2>8. Add(more, i) \in FindGroups[Plus(bag, k)][start]
    <3>1. more \in FindGroups[Without(Plus(bag, k), Mask[i])][i]
      BY <2>3, <2>7
    <3> QED BY <2>4, <3>1, SplitInto
  <2>9. less \in Splits /\ more \in Splits
    <3> HIDE DEF rest
    <3> QED BY <2>1, <2>2, <2>5, <2>7, SplitsAre DEF IsSplit
  <2>10. AtLeast(Add(more, i), Add(less, i))
    BY <2>2, <2>7, <2>9, AtLeastBoth
  <2> QED BY <2>1, <2>8, <2>10
<1> QED BY <1>1, <1>2

LEMMA MoreTilesMoreGroups ==
  ASSUME NEW bag \in Bags, NEW k \in Kinds, NEW start \in 0..137, Plus(bag, k) \in Bags,
         NEW split \in FindGroups[bag][start]
  PROVE  \E more \in FindGroups[Plus(bag, k)][start] : more \in Splits /\ AtLeast(more, split)
<1> DEFINE S == {b \in Bags : Growing(b)}
<1>1. \A b \in Bags :
        (\A less \in Bags : Total(less) < Total(b) => less \in S) => b \in S
  BY GrowingStep
<1>2. S \in SUBSET Bags
  OBVIOUS
<1> HIDE DEF S
<1>3. S = Bags
  BY <1>1, <1>2, BagSet
<1>4. Growing(bag)
  BY <1>3 DEF S
<1>5. PICK more \in FindGroups[Plus(bag, k)][start] : AtLeast(more, split)
  BY <1>4 DEF Growing
<1>6. more \in Splits
  BY SplitsAre DEF IsSplit
<1> QED BY <1>5, <1>6

(* The two tiles of a pair or a pre-group.                                 *)
LEMMA TwoTiles ==
  ASSUME NEW i \in Groups, Kind(i) # "group"
  PROVE  \E j, k \in Kinds : \A x \in Kinds : Mask[i][x] = Is(j, x) + Is(k, x)
<1>1. CASE \E k \in Kinds : Mask[i] = Several(k, 2)
  <2> PICK k \in Kinds : Mask[i] = Several(k, 2)
    BY <1>1
  <2>1. \A x \in Kinds : Mask[i][x] = Is(k, x) + Is(k, x)
    BY DEF Several, Is
  <2> QED BY <2>1, Zenon
<1>2. CASE \E j, k \in Kinds : j # k /\ Mask[i] = Each({j, k})
  <2> PICK j \in Kinds, k \in Kinds : j # k /\ Mask[i] = Each({j, k})
    BY <1>2
  <2>1. \A x \in Kinds : Mask[i][x] = Is(j, x) + Is(k, x)
    BY DEF Each, Is
  <2> QED BY <2>1, Zenon
<1> QED BY <1>1, <1>2, GroupIs

(* Without one of them a bag is what is left, and the other.               *)
LEMMA HalfIsLeft ==
  ASSUME NEW bag \in Bags, NEW i \in Groups, Have(bag, i), NEW j \in Kinds, NEW k \in Kinds,
         \A x \in Kinds : Mask[i][x] = Is(j, x) + Is(k, x)
  PROVE  bag[k] > 0 /\ Plus(Without(bag, Mask[i]), j) = Minus(bag, k)
<1>1. /\ bag \in [Kinds -> Int] /\ Mask[i] \in [Kinds -> Int]
      /\ \A x \in Kinds : bag[x] >= Mask[i][x] /\ bag[x] \in Int
  BY BagIs, LeftIs DEF Have
<1> DEFINE rest == Without(bag, Mask[i])
           less == Minus(bag, k)
<1>2. rest \in [Kinds -> Int] /\ \A x \in Kinds : rest[x] = bag[x] - Mask[i][x]
  BY <1>1, WithIs
<1>3. less \in [Kinds -> Int] /\ \A x \in Kinds : less[x] = IF x = k THEN bag[x] - 1 ELSE bag[x]
  BY <1>1, PlusIs
<1> HIDE DEF rest, less
<1>4. /\ Plus(rest, j) \in [Kinds -> Int]
      /\ \A x \in Kinds : Plus(rest, j)[x] = IF x = j THEN rest[x] + 1 ELSE rest[x]
  BY <1>2, PlusIs
<1>5. ASSUME NEW x \in Kinds PROVE Plus(rest, j)[x] = less[x]
  <2>1. Mask[i][x] = (IF x = j THEN 1 ELSE 0) + (IF x = k THEN 1 ELSE 0)
    BY DEF Is
  <2>2. /\ Plus(rest, j)[x] = IF x = j THEN rest[x] + 1 ELSE rest[x]
        /\ less[x] = IF x = k THEN bag[x] - 1 ELSE bag[x]
        /\ rest[x] = bag[x] - Mask[i][x] /\ bag[x] \in Int
    BY <1>1, <1>2, <1>3, <1>4
  <2> QED BY <2>1, <2>2
<1>6. Plus(rest, j) = less
  BY <1>3, <1>4, <1>5, SameBag
<1>7. bag[k] > 0
  <2>1. Mask[i][k] = (IF k = j THEN 1 ELSE 0) + 1
    BY DEF Is
  <2>2. bag[k] >= Mask[i][k] /\ bag[k] \in Int
    BY <1>1
  <2> QED BY <2>1, <2>2
<1> QED BY <1>6, <1>7 DEF rest, less

(* A split that has one of a sort, and one that has at least the others.   *)
HasOne(split, sort) ==
  \/ sort = "single" /\ split.single > 0
  \/ sort = "pair" /\ split.pair > 0
  \/ sort = "pre_group" /\ split.pre_group > 0
AllButOne(more, split, sort) ==
  /\ more.group >= split.group
  /\ more.pre_group >= split.pre_group - (IF sort = "pre_group" THEN 1 ELSE 0)
  /\ more.pair >= split.pair - (IF sort = "pair" THEN 1 ELSE 0)

LEMMA OneOfThese ==
  ASSUME NEW less \in Splits, NEW more \in Splits, NEW i \in Groups, NEW sort,
         Kind(i) # sort
  PROVE  /\ HasOne(Add(less, i), sort) => HasOne(less, sort)
         /\ AllButOne(more, less, sort) => AllButOne(Add(more, i), Add(less, i), sort)
<1> DEFINE a == Add(less, i)
           b == Add(more, i)
<1>1. /\ a.pair = less.pair + (IF Kind(i) = "pair" THEN 1 ELSE 0)
      /\ a.group = less.group + (IF Kind(i) = "group" THEN 1 ELSE 0)
      /\ a.pre_group = less.pre_group + (IF Kind(i) = "pre_group" THEN 1 ELSE 0)
      /\ a.single = less.single
      /\ b.pair = more.pair + (IF Kind(i) = "pair" THEN 1 ELSE 0)
      /\ b.group = more.group + (IF Kind(i) = "group" THEN 1 ELSE 0)
      /\ b.pre_group = more.pre_group + (IF Kind(i) = "pre_group" THEN 1 ELSE 0)
  BY AddIs
<1>2. /\ less.pair \in Nat /\ less.group \in Nat /\ less.pre_group \in Nat
      /\ more.pair \in Nat /\ more.group \in Nat /\ more.pre_group \in Nat
  BY DEF Splits
<1> HIDE DEF a, b
<1>3. HasOne(a, sort) => HasOne(less, sort)
  BY <1>1, <1>2 DEF HasOne
<1>4. AllButOne(more, less, sort) => AllButOne(b, a, sort)
  BY <1>1, <1>2 DEF AllButOne
<1> QED BY <1>3, <1>4 DEF a, b

LEMMA ThisOne ==
  ASSUME NEW less \in Splits, NEW more \in Splits, NEW i \in Groups,
         Kind(i) # "group", AtLeast(more, less)
  PROVE  AllButOne(more, Add(less, i), Kind(i))
<1> DEFINE a == Add(less, i)
<1>1. /\ a.pair = less.pair + (IF Kind(i) = "pair" THEN 1 ELSE 0)
      /\ a.group = less.group + (IF Kind(i) = "group" THEN 1 ELSE 0)
      /\ a.pre_group = less.pre_group + (IF Kind(i) = "pre_group" THEN 1 ELSE 0)
  BY AddIs
<1>2. /\ less.pair \in Nat /\ less.group \in Nat /\ less.pre_group \in Nat
      /\ more.pair \in Nat /\ more.group \in Nat /\ more.pre_group \in Nat
  BY DEF Splits
<1> HIDE DEF a
<1>3. AllButOne(more, a, Kind(i))
  BY <1>1, <1>2 DEF AllButOne, AtLeast
<1> QED BY <1>3 DEF a

(* A single tile, or half of a pair or pre-group, can be given away.       *)
Shrinking(bag) ==
  \A start \in 0..137, sort \in {"single", "pair", "pre_group"} :
    \A split \in FindGroups[bag][start] : HasOne(split, sort) =>
      \E k \in Kinds : /\ bag[k] > 0
                       /\ \E more \in FindGroups[Minus(bag, k)][start] :
                            AllButOne(more, split, sort)

LEMMA ShrinkingStep ==
  ASSUME NEW bag \in Bags,
         \A less \in Bags : Total(less) < Total(bag) => Shrinking(less)
  PROVE  Shrinking(bag)
<1> SUFFICES ASSUME NEW start \in 0..137, NEW sort \in {"single", "pair", "pre_group"},
                    NEW split \in FindGroups[bag][start], HasOne(split, sort)
             PROVE  \E k \in Kinds : /\ bag[k] > 0
                                     /\ \E more \in FindGroups[Minus(bag, k)][start] :
                                          AllButOne(more, split, sort)
  BY DEF Shrinking
<1>1. CASE Fitting(bag, start) = {}
  <2>0. split = Rest(bag)
    BY <1>1, SplitFrom
  <2>1. /\ split = Rest(bag) /\ split.pair = 0 /\ split.group = 0
        /\ split.pre_group = 0 /\ split.single = Total(bag)
    BY <2>0, BagIs, RestIs
  <2>2. Total(bag) # 0
    BY <2>1 DEF HasOne
  <2>3. PICK k \in Kinds : bag[k] # 0
    BY <2>2, TotalZero
  <2>4. bag[k] > 0
    BY <2>3, BagIs
  <2>5. Minus(bag, k) \in Bags
    BY <2>4, PlusInBags
  <2>6. PICK more \in FindGroups[Minus(bag, k)][start] : more \in Splits
    BY <2>5, SplitsAre DEF IsSplit
  <2>7. more.pair \in Nat /\ more.group \in Nat /\ more.pre_group \in Nat
    BY <2>6 DEF Splits
  <2>8. AllButOne(more, split, sort)
    BY <2>1, <2>7 DEF AllButOne
  <2> QED BY <2>4, <2>8
<1>2. CASE Fitting(bag, start) # {}
  <2>0. Comes(bag, start, split)
    BY <1>2, SplitFrom
  <2> PICK i \in Fitting(bag, start) :
        \E less \in FindGroups[Without(bag, Mask[i])][i] : split = Add(less, i)
    BY <2>0, Zenon DEF Comes
  <2> DEFINE rest == Without(bag, Mask[i])
  <2>1. PICK less \in FindGroups[rest][i] : split = Add(less, i)
    OBVIOUS
  <2>2. /\ i \in Groups /\ i \in 0..137 /\ rest \in Bags /\ Total(rest) < Total(bag)
        /\ Mask[i] \in Bags /\ Have(bag, i) /\ start <= i
    BY FittingIs
  <2>3. less \in Splits
    <3> HIDE DEF rest
    <3> QED BY <2>1, <2>2, SplitsAre DEF IsSplit
  <2>4. CASE Kind(i) = sort
    <3>1. Kind(i) # "group"
      BY <2>4
    <3>2. PICK j \in Kinds, k \in Kinds : \A x \in Kinds : Mask[i][x] = Is(j, x) + Is(k, x)
      BY <2>2, <3>1, TwoTiles
    <3>3. bag[k] > 0 /\ Plus(rest, j) = Minus(bag, k)
      BY <2>2, <3>2, HalfIsLeft
    <3>4. Minus(bag, k) \in Bags
      BY <3>3, PlusInBags
    <3> HIDE DEF rest
    <3>5. PICK some \in FindGroups[Minus(bag, k)][i] : some \in Splits /\ AtLeast(some, less)
      BY <2>1, <2>2, <3>3, <3>4, MoreTilesMoreGroups
    <3>6. PICK more \in FindGroups[Minus(bag, k)][start] : more \in Splits /\ AtLeast(more, some)
      BY <2>2, <3>4, <3>5, FromEarlier
    <3>7. AtLeast(more, less)
      BY <2>3, <3>5, <3>6, AtLeastAll
    <3>8. AllButOne(more, split, sort)
      BY <2>1, <2>2, <2>3, <2>4, <3>1, <3>6, <3>7, ThisOne
    <3> QED BY <3>3, <3>8
  <2>5. CASE Kind(i) # sort
    <3>1. HasOne(less, sort)
      BY <2>1, <2>2, <2>3, <2>5, OneOfThese
    <3>2. Shrinking(rest)
      BY <2>2
    <3>3. PICK k \in Kinds : /\ rest[k] > 0
                             /\ \E more \in FindGroups[Minus(rest, k)][i] :
                                  AllButOne(more, less, sort)
      <4> HIDE DEF rest
      <4> QED BY <2>1, <2>2, <3>1, <3>2 DEF Shrinking
    <3>4. PICK more \in FindGroups[Minus(rest, k)][i] : AllButOne(more, less, sort)
      BY <3>3
    <3>5. i \in Fitting(Minus(bag, k), start) /\ bag[k] > 0
      BY <3>3, FitsLess
    <3>6. Without(Minus(bag, k), Mask[i]) = Minus(rest, k)
      BY <2>2, BagIs, PlusThenTake
    <3>7. Minus(bag, k) \in Bags
      BY <3>5, PlusInBags
    <3>8. more \in FindGroups[Without(Minus(bag, k), Mask[i])][i]
      BY <3>4, <3>6
    <3>9. Add(more, i) \in FindGroups[Minus(bag, k)][start]
      BY <3>5, <3>7, <3>8, SplitInto
    <3>10. more \in Splits
      <4>1. Without(Minus(bag, k), Mask[i]) \in Bags
        BY <3>5, <3>7, FittingIs
      <4> QED BY <2>2, <3>8, <4>1, SplitsAre DEF IsSplit
    <3>11. AllButOne(Add(more, i), Add(less, i), sort)
      BY <2>2, <2>3, <2>5, <3>4, <3>10, OneOfThese
    <3> QED BY <2>1, <3>5, <3>9, <3>11
  <2> QED BY <2>4, <2>5
<1> QED BY <1>1, <1>2

LEMMA LessTilesFewerGroups ==
  ASSUME NEW bag \in Bags, NEW sort \in {"single", "pair", "pre_group"},
         NEW split \in FindGroups[bag][0], HasOne(split, sort)
  PROVE  \E k \in Kinds : /\ bag[k] > 0
                          /\ \E more \in FindGroups[Minus(bag, k)][0] :
                               AllButOne(more, split, sort)
<1> DEFINE S == {b \in Bags : Shrinking(b)}
<1>1. \A b \in Bags :
        (\A less \in Bags : Total(less) < Total(b) => less \in S) => b \in S
  BY ShrinkingStep
<1>2. S \in SUBSET Bags
  OBVIOUS
<1> HIDE DEF S
<1>3. S = Bags
  BY <1>1, <1>2, BagSet
<1>4. Shrinking(bag) /\ 0 \in 0..137
  BY <1>3 DEF S
<1> QED BY <1>4 DEF Shrinking

-----------------------------------------------------------------------------
(* A hand that is not won can spare a tile.                                *)

LEMMA SplitSteps ==
  ASSUME NEW bag \in Bags, NEW n \in Nat, NEW r \in 0..2, Total(bag) = 3 * n + r,
         NEW split \in FindGroups[bag][0]
  PROVE  /\ CountSteps(split) = Steps(split.group, split.pre_group, split.pair, n)
         /\ split.group * 3 + split.pre_group * 2 + split.pair * 2 + split.single = 3 * n + r
         /\ split.group \in Nat /\ split.pre_group \in Nat
         /\ split.pair \in Nat /\ split.single \in Nat
<1>1. 0 \in 0..137
  OBVIOUS
<1>2. IsSplit(split, bag)
  BY <1>1, SplitsAre
<1> QED BY <1>2, StepsAre DEF IsSplit

(* Of hands that need the same number of groups, the one with at least as  *)
(* many groups of each sort is no further.                                 *)
LEMMA NoFurther ==
  ASSUME NEW a \in Bags, NEW b \in Bags, NEW n \in Nat, NEW ra \in 0..2, NEW rb \in 0..2,
         Total(a) = 3 * n + ra, Total(b) = 3 * n + rb,
         NEW sa \in FindGroups[a][0], NEW sb \in FindGroups[b][0],
         NEW g \in Nat, NEW h \in Nat, NEW p \in Nat,
         sb.group >= g, sb.pre_group >= h, sb.pair >= p,
         Steps(g, h, p, n) <= CountSteps(sa), Steps(g, h, p, n) \in Int
  PROVE  CountSteps(sb) <= CountSteps(sa)
<1> DEFINE gg == sb.group
           hh == sb.pre_group
           pp == sb.pair
           s == sb.single
<1>1. /\ CountSteps(sb) = Steps(gg, hh, pp, n)
      /\ gg * 3 + hh * 2 + pp * 2 + s = 3 * n + rb
      /\ gg \in Nat /\ hh \in Nat /\ pp \in Nat /\ s \in Nat
  BY SplitSteps, ZenonT(60)
<1>2. gg >= g /\ hh >= h /\ pp >= p
  OBVIOUS
<1> HIDE DEF gg, hh, pp, s
<1>3. gg * 3 + hh * 2 + pp * 2 <= 3 * n + 2
  BY <1>1
<1>4. Steps(gg, hh, pp, n) <= Steps(g, h, p, n) /\ Steps(gg, hh, pp, n) \in Nat
  BY <1>1, <1>2, <1>3, MoreCostsLess, StepsNat
<1>5. CountSteps(sa) \in Int
  <2>1. /\ CountSteps(sa) = Steps(sa.group, sa.pre_group, sa.pair, n)
        /\ sa.group \in Nat /\ sa.pre_group \in Nat /\ sa.pair \in Nat
    BY SplitSteps
  <2> QED BY <2>1 DEF Steps
<1> QED BY <1>1, <1>4, <1>5

(* Giving a tile away never brings a hand closer.                          *)
LEMMA ThrowIsNoGain ==
  ASSUME NEW bag \in Bags, Total(bag) % 3 = 2, Total(bag) <= HandSize + 1,
         NEW k \in Kinds, bag[k] > 0
  PROVE  /\ StepToHu[bag] <= StepToHu[Minus(bag, k)]
         /\ Minus(bag, k) \in Bags /\ Total(Minus(bag, k)) = Total(bag) - 1
<1> DEFINE less == Minus(bag, k)
<1>1. bag[k] \in 1..4 /\ bag \in Counts /\ Total(bag) \in Nat
  BY BagIs, TotalZero
<1>2. less \in Bags /\ Total(less) = Total(bag) - 1 /\ Plus(less, k) = bag
  BY <1>1, PlusInBags, TotalMinus
<1> HIDE DEF less
<1>3. PICK n \in Nat : Total(bag) = 3 * n + 2
  <2>1. Total(bag) \div 3 \in Nat /\ Total(bag) = 3 * (Total(bag) \div 3) + 2
    BY <1>1
  <2> QED BY <2>1
<1>4. Total(less) = 3 * n + 1 /\ Total(less) <= HandSize + 1
  BY <1>1, <1>2, <1>3, HandSizeAssumption
<1>5. PICK split \in FindGroups[less][0] :
        StepToHu[less] = CountSteps(split) /\ CountSteps(split) \in Nat
  BY <1>2, <1>4, BestSplit
<1>6. PICK more \in FindGroups[bag][0] : AtLeast(more, split)
  <2>1. 0 \in 0..137
    OBVIOUS
  <2> QED BY <1>2, <2>1, MoreTilesMoreGroups
<1>7. /\ CountSteps(split) = Steps(split.group, split.pre_group, split.pair, n)
      /\ split.group \in Nat /\ split.pre_group \in Nat /\ split.pair \in Nat
  <2>1. 1 \in 0..2
    OBVIOUS
  <2> QED BY <1>2, <1>4, <2>1, SplitSteps
<1>8. CountSteps(more) <= CountSteps(split)
  <2>1. 1 \in 0..2 /\ 2 \in 0..2
    OBVIOUS
  <2> DEFINE g == split.group
             h == split.pre_group
             p == split.pair
  <2>2. more.group >= g /\ more.pre_group >= h /\ more.pair >= p
    BY <1>6 DEF AtLeast
  <2>3. /\ g \in Nat /\ h \in Nat /\ p \in Nat
        /\ Steps(g, h, p, n) <= CountSteps(split) /\ Steps(g, h, p, n) \in Int
    BY <1>5, <1>7
  <2> HIDE DEF g, h, p
  <2> QED BY <1>2, <1>3, <1>4, <2>1, <2>2, <2>3, NoFurther
<1>9. StepToHu[bag] <= CountSteps(more) /\ StepToHu[bag] \in Nat /\ CountSteps(more) \in Nat
  BY BestSplit
<1>10. StepToHu[bag] <= StepToHu[less]
  BY <1>5, <1>8, <1>9
<1> QED BY <1>2, <1>10 DEF less

(* The tile: a single one, or half of a pre-group, or half of a pair.      *)
LEMMA SortToBreak ==
  ASSUME NEW bag \in Bags, NEW n \in Nat, Total(bag) = 3 * n + 2,
         NEW split \in FindGroups[bag][0], CountSteps(split) # 0
  PROVE  \E sort \in {"single", "pair", "pre_group"} :
           /\ HasOne(split, sort)
           /\ \E g, h, p \in Nat :
                /\ g = split.group
                /\ h = split.pre_group - (IF sort = "pre_group" THEN 1 ELSE 0)
                /\ p = split.pair - (IF sort = "pair" THEN 1 ELSE 0)
                /\ Steps(g, h, p, n) <= CountSteps(split) /\ Steps(g, h, p, n) \in Int
<1> DEFINE g == split.group
           h == split.pre_group
           p == split.pair
           s == split.single
<1>1. /\ CountSteps(split) = Steps(g, h, p, n)
      /\ g * 3 + h * 2 + p * 2 + s = 3 * n + 2
      /\ g \in Nat /\ h \in Nat /\ p \in Nat /\ s \in Nat
  <2> DEFINE r == 2
  <2>1. r \in 0..2 /\ Total(bag) = 3 * n + r
    OBVIOUS
  <2> HIDE DEF r, g, h, p, s
  <2>2. /\ CountSteps(split) = Steps(split.group, split.pre_group, split.pair, n)
        /\ split.group * 3 + split.pre_group * 2 + split.pair * 2 + split.single
             = 3 * n + r
        /\ split.group \in Nat /\ split.pre_group \in Nat
        /\ split.pair \in Nat /\ split.single \in Nat
    BY <2>1, SplitSteps
  <2> QED BY <2>2 DEF g, h, p, s, r
<1>2. /\ HasOne(split, "single") <=> s > 0
      /\ HasOne(split, "pair") <=> p > 0
      /\ HasOne(split, "pre_group") <=> h > 0
  BY DEF HasOne
<1>3. Steps(g, h, p, n) \in Int
  BY <1>1 DEF Steps
<1>4. CASE s > 0
  <2> HIDE DEF g, h, p, s
  <2>1. /\ g \in Nat /\ h \in Nat /\ p \in Nat
        /\ g = split.group /\ h = split.pre_group - 0 /\ p = split.pair - 0
        /\ Steps(g, h, p, n) <= CountSteps(split) /\ Steps(g, h, p, n) \in Int
    BY <1>1, <1>3 DEF g, h, p
  <2>2. HasOne(split, "single")
    BY <1>2, <1>4
  <2> QED BY <2>1, <2>2
<1>5. CASE s = 0 /\ h > 0
  <2> HIDE DEF g, h, p, s
  <2>1. g * 3 + h * 2 + p * 2 = 3 * n + 2 /\ Steps(g, h, p, n) # 0
    BY <1>1, <1>5
  <2>2. Steps(g, h - 1, p, n) <= Steps(g, h, p, n)
    BY <1>1, <1>5, <2>1, BreakOne
  <2>3. h - 1 \in Nat /\ Steps(g, h - 1, p, n) \in Int
    BY <1>1, <1>5 DEF Steps
  <2>4. HasOne(split, "pre_group")
    BY <1>2, <1>5
  <2> DEFINE hh == h - 1
  <2>5. /\ g \in Nat /\ hh \in Nat /\ p \in Nat
        /\ g = split.group /\ hh = split.pre_group - 1 /\ p = split.pair - 0
        /\ Steps(g, hh, p, n) <= CountSteps(split) /\ Steps(g, hh, p, n) \in Int
    BY <1>1, <2>2, <2>3 DEF g, h, p
  <2> HIDE DEF hh
  <2> QED BY <2>4, <2>5
<1>6. CASE s = 0 /\ h = 0
  <2> HIDE DEF g, h, p, s
  <2>1. g * 3 + h * 2 + p * 2 = 3 * n + 2 /\ Steps(g, h, p, n) # 0
    BY <1>1, <1>6
  <2>2. p > 0 /\ Steps(g, h, p - 1, n) <= Steps(g, h, p, n)
    BY <1>1, <1>6, <2>1, BreakOne
  <2>3. p - 1 \in Nat /\ Steps(g, h, p - 1, n) \in Int
    BY <1>1, <2>2 DEF Steps
  <2>4. HasOne(split, "pair")
    BY <1>2, <2>2
  <2> DEFINE pp == p - 1
  <2>5. /\ g \in Nat /\ h \in Nat /\ pp \in Nat
        /\ g = split.group /\ h = split.pre_group - 0 /\ pp = split.pair - 1
        /\ Steps(g, h, pp, n) <= CountSteps(split) /\ Steps(g, h, pp, n) \in Int
    BY <1>1, <2>2, <2>3 DEF g, h, p
  <2> HIDE DEF pp
  <2> QED BY <2>4, <2>5
<1>7. s > 0 \/ (s = 0 /\ h > 0) \/ (s = 0 /\ h = 0)
  BY <1>1
<1> QED BY <1>4, <1>5, <1>6, <1>7

(* Throw has a candidate whenever the hand, with the drawn tile, is not    *)
(* won by the steps that it counts (Irb00.cpp: T1 is never empty then).    *)
THEOREM SpareTile ==
  ASSUME NEW bag \in Bags, Total(bag) % 3 = 2, Total(bag) <= HandSize + 1,
         StepToHu[bag] # 0
  PROVE  Candidates(bag) # {}
<1>1. PICK split \in FindGroups[bag][0] :
        StepToHu[bag] = CountSteps(split) /\ CountSteps(split) \in Nat
  BY BestSplit
<1>2. Total(bag) \in Nat
  BY TotalZero
<1>3. PICK n \in Nat : Total(bag) = 3 * n + 2
  <2>1. Total(bag) \div 3 \in Nat /\ Total(bag) = 3 * (Total(bag) \div 3) + 2
    BY <1>2
  <2> QED BY <2>1
<1>4. PICK sort \in {"single", "pair", "pre_group"} :
        /\ HasOne(split, sort)
        /\ \E g, h, p \in Nat :
             /\ g = split.group
             /\ h = split.pre_group - (IF sort = "pre_group" THEN 1 ELSE 0)
             /\ p = split.pair - (IF sort = "pair" THEN 1 ELSE 0)
             /\ Steps(g, h, p, n) <= CountSteps(split) /\ Steps(g, h, p, n) \in Int
  BY <1>1, <1>3, SortToBreak
<1>5. PICK g \in Nat, h \in Nat, p \in Nat :
        /\ g = split.group
        /\ h = split.pre_group - (IF sort = "pre_group" THEN 1 ELSE 0)
        /\ p = split.pair - (IF sort = "pair" THEN 1 ELSE 0)
        /\ Steps(g, h, p, n) <= CountSteps(split) /\ Steps(g, h, p, n) \in Int
  BY <1>4
<1>6. PICK k \in Kinds : /\ bag[k] > 0
                         /\ \E more \in FindGroups[Minus(bag, k)][0] :
                              AllButOne(more, split, sort)
  BY <1>4, LessTilesFewerGroups
<1>7. PICK more \in FindGroups[Minus(bag, k)][0] : AllButOne(more, split, sort)
  BY <1>6
<1>8. /\ StepToHu[bag] <= StepToHu[Minus(bag, k)]
      /\ Minus(bag, k) \in Bags /\ Total(Minus(bag, k)) = Total(bag) - 1
  BY <1>6, ThrowIsNoGain
<1>9. more.group >= g /\ more.pre_group >= h /\ more.pair >= p
  BY <1>5, <1>7 DEF AllButOne
<1>10. CountSteps(more) <= CountSteps(split)
  <2>1. 1 \in 0..2 /\ 2 \in 0..2 /\ Total(Minus(bag, k)) = 3 * n + 1
    BY <1>3, <1>8
  <2> QED BY <1>3, <1>5, <1>8, <1>9, <2>1, NoFurther
<1>11. /\ StepToHu[Minus(bag, k)] \in Nat /\ StepToHu[bag] \in Nat
       /\ StepToHu[Minus(bag, k)] <= CountSteps(more) /\ CountSteps(more) \in Nat
  <2>1. Total(Minus(bag, k)) <= HandSize + 1
    BY <1>2, <1>8, HandSizeAssumption
  <2> QED BY <1>8, <2>1, BestSplit
<1>12. StepToHu[Minus(bag, k)] = StepToHu[bag]
  BY <1>1, <1>8, <1>10, <1>11
<1>13. k \in Candidates(bag)
  BY <1>6, <1>12 DEF Candidates, Held
<1> QED BY <1>13

-----------------------------------------------------------------------------
(* No step left: the hand is won.                                          *)

(* Winning, by its recursion.                                              *)
Most == HandSize \div 3
PairBags == {Several(k, 2) : k \in Kinds}
Larger(hands) ==
  {bag \in {With(won, meld) : won \in hands, meld \in MeldBags} :
     \A k \in Kinds : bag[k] <= 4}

LEMMA WinningStep ==
  /\ Most \in Nat
  /\ Winning[0] = PairBags
  /\ \A n \in 1..Most : Winning[n] = Larger(Winning[n - 1])
<1> DEFINE Step(f, n) == IF n = 0 THEN PairBags ELSE Larger(f[n - 1])
           Solves(f, n) == f = [i \in 0..n |-> Step(f, i)]
           T == {n \in Nat : \E f : Solves(f, n)}
<1>1. 0 \in T
  <2>1. Solves([i \in 0..0 |-> PairBags], 0)
    OBVIOUS
  <2> QED BY <2>1
<1>2. ASSUME NEW n \in T PROVE n + 1 \in T
  <2>1. PICK f : Solves(f, n)
    OBVIOUS
  <2> DEFINE g == [i \in 0..n + 1 |-> IF i <= n THEN f[i] ELSE Larger(f[n])]
  <2>2. ASSUME NEW i \in 0..n + 1 PROVE g[i] = Step(g, i)
    <3>1. CASE i = n + 1
      BY <3>1
    <3>2. CASE i <= n
      BY <2>1, <3>2
    <3> QED BY <3>1, <3>2
  <2>3. Solves(g, n + 1)
    BY <2>2
  <2> HIDE DEF g, Solves
  <2> QED BY <2>3
<1>3. Most \in Nat
  BY HandSizeAssumption DEF Most
<1>4. Most \in T
  BY <1>1, <1>2, <1>3, NatSet
<1>5. \E f : Solves(f, Most)
  BY <1>4
<1>6. Winning = CHOOSE f : Solves(f, Most)
  BY DEF Winning, Most, Larger, PairBags
<1>7. Solves(Winning, Most)
  <2> HIDE DEF Solves
  <2> QED BY <1>5, <1>6, Zenon
<1> QED BY <1>3, <1>7

(* The larger hands.                                                       *)
LEMMA WinningMeld ==
  ASSUME NEW n \in 1..Most, NEW won \in Winning[n - 1], NEW meld \in MeldBags,
         With(won, meld) \in Bags
  PROVE  With(won, meld) \in Winning[n]
<1>1. Winning[n] = Larger(Winning[n - 1])
  BY WinningStep
<1>2. \A k \in Kinds : With(won, meld)[k] <= 4
  BY BagIs
<1> QED BY <1>1, <1>2 DEF Larger

LEMMA WinningPair ==
  ASSUME NEW k \in Kinds
  PROVE  Several(k, 2) \in Winning[0]
BY WinningStep DEF PairBags

(* Winning hands are bags, of a pair and the melds.                        *)
LEMMA WinningIs ==
  ASSUME NEW n \in 0..Most
  PROVE  \A won \in Winning[n] : won \in Bags /\ Total(won) = 3 * n + 2
<1> DEFINE Good(m) == \A won \in Winning[m] : won \in Bags /\ Total(won) = 3 * m + 2
           T == {m \in Nat : m <= Most => Good(m)}
<1>1. 0 \in T
  <2>1. ASSUME NEW won \in Winning[0] PROVE won \in Bags /\ Total(won) = 3 * 0 + 2
    <3>1. PICK k \in Kinds : won = Several(k, 2)
      BY WinningStep DEF PairBags
    <3> QED BY <3>1, TotalFew
  <2> QED BY <2>1
<1>2. ASSUME NEW m \in T PROVE m + 1 \in T
  <2> SUFFICES ASSUME m + 1 <= Most PROVE Good(m + 1)
    OBVIOUS
  <2>1. m + 1 \in 1..Most /\ (m + 1) - 1 = m /\ m <= Most
    BY WinningStep
  <2>2. Winning[m + 1] = Larger(Winning[m])
    BY <2>1, WinningStep
  <2>3. Good(m)
    BY <2>1
  <2>4. ASSUME NEW bag \in Winning[m + 1]
        PROVE  bag \in Bags /\ Total(bag) = 3 * (m + 1) + 2
    <3>1. PICK won \in Winning[m], meld \in MeldBags :
            bag = With(won, meld) /\ \A k \in Kinds : bag[k] <= 4
      BY <2>2 DEF Larger
    <3>2. won \in Bags /\ Total(won) = 3 * m + 2
      BY <2>3
    <3>3. meld \in Bags /\ Total(meld) = 3
      BY MeldTotal
    <3>4. /\ won \in [Kinds -> Int] /\ \A k \in Kinds : won[k] \in 0..4
          /\ meld \in [Kinds -> Int] /\ \A k \in Kinds : meld[k] \in 0..4
          /\ won \in Counts
      BY <3>2, <3>3, BagIs
    <3>5. /\ With(won, meld) \in [Kinds -> Int]
          /\ \A k \in Kinds : With(won, meld)[k] = won[k] + meld[k]
      BY <3>4, WithIs
    <3>6. bag \in Bags
      <4>1. \A k \in Kinds : bag[k] \in 0..4
        BY <3>1, <3>4, <3>5
      <4> QED BY <3>1, <3>5, <4>1, CountIs
    <3>7. Total(With(won, meld)) = Total(won) + Total(meld)
      <4>1. With(won, meld) \in Counts
        BY <3>1, <3>6, BagIs
      <4> QED BY <3>3, <3>4, <4>1, TotalWith
    <3> QED BY <3>1, <3>2, <3>3, <3>6, <3>7
  <2> QED BY <2>4
<1>3. T \in SUBSET Nat
  OBVIOUS
<1> HIDE DEF T
<1>4. T = Nat
  BY <1>1, <1>2, <1>3, NatSet
<1>5. n \in T /\ n <= Most
  BY <1>4, WinningStep
<1> QED BY <1>5 DEF T

(* A bag that splits into melds, and a pair or none, wins or makes a       *)
(* winning hand larger.                                                    *)
Made(split) == split.pre_group = 0 /\ split.single = 0
Winner(bag) ==
  \A start \in 0..137 : \A split \in FindGroups[bag][start] : Made(split) =>
    /\ split.pair = 1 /\ split.group <= Most => bag \in Winning[split.group]
    /\ split.pair = 0 =>
         \A m \in Nat : m + split.group <= Most =>
           \A won \in Winning[m] : With(won, bag) \in Bags =>
             With(won, bag) \in Winning[m + split.group]

(* With and Without in any order.                                          *)
LEMMA WithLast ==
  ASSUME NEW bag \in [Kinds -> Int], NEW mask \in [Kinds -> Int], NEW won \in [Kinds -> Int]
  PROVE  /\ With(won, bag) = With(With(won, Without(bag, mask)), mask)
         /\ With(mask, Without(bag, mask)) = bag
<1> DEFINE rest == Without(bag, mask)
           part == With(won, rest)
<1>1. rest \in [Kinds -> Int] /\ \A k \in Kinds : rest[k] = bag[k] - mask[k]
  BY WithIs
<1> HIDE DEF rest
<1>2. part \in [Kinds -> Int] /\ \A k \in Kinds : part[k] = won[k] + rest[k]
  BY <1>1, WithIs
<1> HIDE DEF part
<1>3. /\ With(part, mask) \in [Kinds -> Int]
      /\ \A k \in Kinds : With(part, mask)[k] = part[k] + mask[k]
      /\ With(won, bag) \in [Kinds -> Int]
      /\ \A k \in Kinds : With(won, bag)[k] = won[k] + bag[k]
      /\ With(mask, rest) \in [Kinds -> Int]
      /\ \A k \in Kinds : With(mask, rest)[k] = mask[k] + rest[k]
  BY <1>1, <1>2, WithIs
<1>4. ASSUME NEW k \in Kinds
      PROVE  With(part, mask)[k] = With(won, bag)[k] /\ With(mask, rest)[k] = bag[k]
  <2>1. bag[k] \in Int /\ mask[k] \in Int /\ won[k] \in Int
    OBVIOUS
  <2>2. /\ rest[k] = bag[k] - mask[k] /\ part[k] = won[k] + rest[k]
        /\ With(part, mask)[k] = part[k] + mask[k]
        /\ With(won, bag)[k] = won[k] + bag[k]
        /\ With(mask, rest)[k] = mask[k] + rest[k]
    BY <1>1, <1>2, <1>3
  <2> QED BY <2>1, <2>2
<1>5. With(part, mask) = With(won, bag) /\ With(mask, rest) = bag
  BY <1>3, <1>4, SameBag
<1> QED BY <1>5 DEF part, rest

LEMMA PartInBags ==
  ASSUME NEW won \in Bags, NEW bag \in Bags, NEW less \in Bags, With(won, bag) \in Bags,
         \A k \in Kinds : bag[k] >= less[k]
  PROVE  With(won, Without(bag, less)) \in Bags
<1>1. /\ won \in [Kinds -> Int] /\ bag \in [Kinds -> Int] /\ less \in [Kinds -> Int]
      /\ \A k \in Kinds : won[k] \in 0..4 /\ bag[k] \in 0..4 /\ less[k] \in 0..4
      /\ \A k \in Kinds : With(won, bag)[k] \in 0..4
  BY BagIs
<1> DEFINE rest == Without(bag, less)
<1>2. rest \in [Kinds -> Int] /\ \A k \in Kinds : rest[k] = bag[k] - less[k]
  BY <1>1, WithIs
<1> HIDE DEF rest
<1>3. /\ With(won, rest) \in [Kinds -> Int]
      /\ \A k \in Kinds : With(won, rest)[k] = won[k] + rest[k]
      /\ \A k \in Kinds : With(won, bag)[k] = won[k] + bag[k]
  BY <1>1, <1>2, WithIs
<1>4. ASSUME NEW k \in Kinds PROVE With(won, rest)[k] \in 0..4
  <2>1. /\ won[k] \in 0..4 /\ bag[k] \in 0..4 /\ less[k] \in 0..4
        /\ won[k] + bag[k] \in 0..4 /\ bag[k] >= less[k]
    BY <1>1, <1>3
  <2> QED BY <1>2, <1>3, <2>1
<1>5. With(won, rest) \in Bags
  BY <1>3, <1>4, CountIs
<1> QED BY <1>5 DEF rest

LEMMA WinnerStep ==
  ASSUME NEW bag \in Bags,
         \A less \in Bags : Total(less) < Total(bag) => Winner(less)
  PROVE  Winner(bag)
<1> SUFFICES ASSUME NEW start \in 0..137, NEW split \in FindGroups[bag][start], Made(split)
             PROVE  /\ split.pair = 1 /\ split.group <= Most => bag \in Winning[split.group]
                    /\ split.pair = 0 =>
                         \A m \in Nat : m + split.group <= Most =>
                           \A won \in Winning[m] : With(won, bag) \in Bags =>
                             With(won, bag) \in Winning[m + split.group]
  BY DEF Winner
<1>1. CASE Fitting(bag, start) = {}
  <2>0. split = Rest(bag)
    BY <1>1, SplitFrom
  <2>1. /\ split = Rest(bag) /\ split.pair = 0 /\ split.group = 0
        /\ split.single = Total(bag)
    BY <2>0, BagIs, RestIs
  <2>2. \A k \in Kinds : bag[k] = 0
    BY <2>1, TotalZero DEF Made
  <2>3. ASSUME NEW m \in Nat, m + split.group <= Most, NEW won \in Winning[m]
        PROVE  With(won, bag) \in Winning[m + split.group]
    <3>1. m + split.group = m /\ m \in 0..Most
      BY <2>1, <2>3, WinningStep
    <3>2. won \in [Kinds -> Int] /\ bag \in [Kinds -> Int]
      BY <2>3, <3>1, WinningIs, BagIs
    <3>3. With(won, bag) \in [Kinds -> Int] /\ \A k \in Kinds : With(won, bag)[k] = won[k]
      BY <2>2, <3>2, WithIs
    <3>4. With(won, bag) = won
      BY <3>2, <3>3, SameBag
    <3> QED BY <2>3, <3>1, <3>4
  <2> QED BY <2>1, <2>3
<1>2. CASE Fitting(bag, start) # {}
  <2>0. Comes(bag, start, split)
    BY <1>2, SplitFrom
  <2> PICK i \in Fitting(bag, start) :
        \E less \in FindGroups[Without(bag, Mask[i])][i] : split = Add(less, i)
    BY <2>0, Zenon DEF Comes
  <2> DEFINE rest == Without(bag, Mask[i])
  <2>1. PICK less \in FindGroups[rest][i] : split = Add(less, i)
    OBVIOUS
  <2>2. /\ i \in Groups /\ i \in 0..137 /\ rest \in Bags /\ Total(rest) < Total(bag)
        /\ Mask[i] \in Bags /\ Have(bag, i)
        /\ With(rest, Mask[i]) = bag
    BY FittingIs
  <2>3. /\ less \in Splits /\ less.pair \in Nat /\ less.group \in Nat
        /\ less.pre_group \in Nat
    <3>1. less \in Splits
      <4> HIDE DEF rest
      <4> QED BY <2>1, <2>2, SplitsAre DEF IsSplit
    <3> QED BY <3>1 DEF Splits
  <2>4. /\ split.single = less.single
        /\ split.pair = less.pair + (IF Kind(i) = "pair" THEN 1 ELSE 0)
        /\ split.group = less.group + (IF Kind(i) = "group" THEN 1 ELSE 0)
        /\ split.pre_group = less.pre_group + (IF Kind(i) = "pre_group" THEN 1 ELSE 0)
    BY <2>1, <2>2, <2>3, AddIs
  <2>5. Made(less) /\ Kind(i) # "pre_group"
    BY <2>3, <2>4 DEF Made
  <2>6. Winner(rest)
    BY <2>2
  <2>7. /\ less.pair = 1 /\ less.group <= Most => rest \in Winning[less.group]
        /\ less.pair = 0 =>
             \A m \in Nat : m + less.group <= Most =>
               \A won \in Winning[m] : With(won, rest) \in Bags =>
                 With(won, rest) \in Winning[m + less.group]
    <3> HIDE DEF rest
    <3> QED BY <2>1, <2>2, <2>5, <2>6 DEF Winner
  <2>8. /\ bag \in [Kinds -> Int] /\ Mask[i] \in [Kinds -> Int]
        /\ \A k \in Kinds : bag[k] >= Mask[i][k]
    BY <2>2, BagIs DEF Have
  <2>9. CASE Kind(i) = "group"
    <3>1. Mask[i] \in MeldBags
      BY <2>2, <2>9, GroupIs
    <3>2. split.group = less.group + 1 /\ split.pair = less.pair
      BY <2>3, <2>4, <2>9
    <3>3. ASSUME split.pair = 1, split.group <= Most PROVE bag \in Winning[split.group]
      <4>1. less.group <= Most /\ split.group \in 1..Most /\ split.group - 1 = less.group
        BY <2>3, <3>2, <3>3, WinningStep
      <4>2. rest \in Winning[split.group - 1]
        BY <2>7, <3>2, <3>3, <4>1
      <4> QED BY <2>2, <3>1, <4>1, <4>2, WinningMeld
    <3>4. ASSUME split.pair = 0, NEW m \in Nat, m + split.group <= Most,
                 NEW won \in Winning[m], With(won, bag) \in Bags
          PROVE  With(won, bag) \in Winning[m + split.group]
      <4> DEFINE n == m + split.group
      <4>1. /\ n \in 1..Most /\ n - 1 = m + less.group /\ m + less.group <= Most
            /\ m \in 0..Most
        BY <2>3, <3>2, <3>4, WinningStep
      <4>2. won \in Bags /\ won \in [Kinds -> Int]
        BY <4>1, WinningIs, BagIs
      <4>3. With(won, rest) \in Bags
        BY <2>2, <2>8, <3>4, <4>2, PartInBags
      <4>4. With(won, rest) \in Winning[n - 1]
        BY <2>7, <3>2, <3>4, <4>1, <4>3
      <4>5. With(won, bag) = With(With(won, rest), Mask[i])
        BY <2>8, <4>2, WithLast
      <4> HIDE DEF rest, n
      <4>6. With(won, bag) \in Winning[n]
        BY <3>1, <3>4, <4>1, <4>4, <4>5, WinningMeld
      <4> QED BY <4>6 DEF n
    <3> QED BY <3>3, <3>4
  <2>10. CASE Kind(i) = "pair"
    <3>1. PICK k \in Kinds : Mask[i] = Several(k, 2)
      BY <2>2, <2>10, GroupIs
    <3>2. split.group = less.group /\ split.pair = less.pair + 1
      BY <2>3, <2>4, <2>10
    <3>3. split.pair # 0
      BY <2>3, <3>2
    <3>4. ASSUME split.pair = 1, split.group <= Most PROVE bag \in Winning[split.group]
      <4>1. less.pair = 0 /\ 0 + less.group <= Most /\ 0 + less.group = split.group
        BY <2>3, <3>2, <3>4
      <4>2. Mask[i] \in Winning[0]
        BY <3>1, WinningPair
      <4>3. With(Mask[i], rest) = bag
        BY <2>8, WithLast
      <4>4. With(Mask[i], rest) \in Winning[0 + less.group]
        <5> HIDE DEF rest
        <5> QED BY <2>7, <4>1, <4>2, <4>3
      <4> QED BY <4>1, <4>3, <4>4
    <3> QED BY <3>3, <3>4
  <2> QED BY <2>2, <2>5, <2>9, <2>10, KindsAre
<1> QED BY <1>1, <1>2

LEMMA MadeWins ==
  ASSUME NEW bag \in Bags, NEW split \in FindGroups[bag][0], Made(split),
         split.pair = 1, split.group <= Most
  PROVE  bag \in Winning[split.group]
<1> DEFINE S == {b \in Bags : Winner(b)}
<1>1. \A b \in Bags :
        (\A less \in Bags : Total(less) < Total(b) => less \in S) => b \in S
  BY WinnerStep
<1>2. S \in SUBSET Bags
  OBVIOUS
<1> HIDE DEF S
<1>3. S = Bags
  BY <1>1, <1>2, BagSet
<1>4. Winner(bag) /\ 0 \in 0..137
  BY <1>3 DEF S
<1> QED BY <1>4 DEF Winner

(* A winning hand misses nothing.                                          *)
LEMMA MissesIs ==
  ASSUME NEW bag \in Bags, NEW won \in Bags
  PROVE  Misses(bag, won) \in Nat /\ (bag = won => Misses(bag, won) = 0)
<1>1. /\ bag \in [Kinds -> Int] /\ \A k \in Kinds : bag[k] \in 0..4
      /\ won \in [Kinds -> Int] /\ \A k \in Kinds : won[k] \in 0..4
  BY BagIs
<1>2. /\ Without(won, bag) \in [Kinds -> Int]
      /\ \A k \in Kinds : Without(won, bag)[k] = won[k] - bag[k]
  BY <1>1, WithIs
<1>3. Without(won, bag) \in Counts
  <2>1. \A k \in Kinds : Without(won, bag)[k] <= 4
    BY <1>1, <1>2
  <2> QED BY <1>2, <2>1, CountIs
<1>4. Total(Without(won, bag)) \in Nat
  BY <1>3, OneByOneIs
<1>5. ASSUME bag = won PROVE Total(Without(won, bag)) = 0
  <2>1. \A k \in Kinds : Without(won, bag)[k] = 0
    BY <1>1, <1>2, <1>5
  <2>2. Without(won, bag) \in Bags
    BY <1>2, <2>1, CountIs
  <2> QED BY <2>1, <2>2, TotalZero
<1> QED BY <1>4, <1>5 DEF Misses

LEMMA DistanceIs ==
  ASSUME NEW bag \in Bags, Total(bag) \in 1..HandSize + 1, Total(bag) % 3 # 0,
         NEW won \in Winning[Total(bag) \div 3]
  PROVE  Distance[bag] \in Nat /\ Distance[bag] <= Misses(bag, won)
<1> DEFINE n == Total(bag) \div 3
           misses == {Misses(bag, w) : w \in Winning[n]}
           far == [b \in Hands({m \in 1..HandSize + 1 : m % 3 # 0}) |->
                     Min({Misses(b, w) : w \in Winning[Total(b) \div 3]})]
<1>1. bag \in Hands({m \in 1..HandSize + 1 : m % 3 # 0})
  BY HandIs
<1>2. Distance = far
  BY TabulatedIs, Zenon DEF Distance
<1>3. far[bag] = Min(misses)
  BY <1>1
<1>4. n \in 0..Most
  <2>1. HandSize \in Nat /\ HandSize % 3 = 1 /\ Total(bag) \in 1..HandSize + 1
    BY HandSizeAssumption
  <2> DEFINE t == Total(bag)
  <2> HIDE DEF t
  <2>2. t \in 1..HandSize + 1 => t \div 3 \in 0..HandSize \div 3
    BY <2>1
  <2> QED BY <2>1, <2>2 DEF t, Most
<1>5. \A w \in Winning[n] : Misses(bag, w) \in Nat
  <2> HIDE DEF n
  <2> QED BY <1>4, WinningIs, MissesIs
<1>6. misses \subseteq Nat /\ Misses(bag, won) \in misses
  BY <1>5
<1> HIDE DEF misses
<1>7. Min(misses) \in misses /\ \A m \in misses : Min(misses) <= m
  BY <1>6, MinIs
<1> HIDE DEF far
<1> QED BY <1>2, <1>3, <1>6, <1>7

LEMMA WinningIsComplete ==
  ASSUME NEW n \in 0..Most, NEW bag \in Winning[n]
  PROVE  Complete(bag)
<1>1. bag \in Bags /\ Total(bag) = 3 * n + 2
  BY WinningIs
<1>2. 3 * n + 2 \in 1..HandSize + 1 /\ (3 * n + 2) % 3 = 2 /\ (3 * n + 2) \div 3 = n
  BY HandSizeAssumption DEF Most
<1>3. Distance[bag] \in Nat /\ Distance[bag] <= Misses(bag, bag)
  BY <1>1, <1>2, DistanceIs
<1>4. Misses(bag, bag) = 0
  BY <1>1, MissesIs
<1> QED BY <1>1, <1>2, <1>3, <1>4 DEF Complete

(* Steps are counted down to 0 only for winning hands (Irb00.cpp, the      *)
(* formula of CountSteps: a missing pair and superfluous groups are paid). *)
THEOREM NoStepIsWon ==
  ASSUME NEW bag \in Bags, Total(bag) % 3 = 2, Total(bag) <= HandSize + 1,
         StepToHu[bag] = 0
  PROVE  bag \in Winning[Total(bag) \div 3] /\ Complete(bag)
<1>1. PICK split \in FindGroups[bag][0] : StepToHu[bag] = CountSteps(split)
  BY BestSplit
<1>2. Total(bag) \in Nat
  BY TotalZero
<1>3. PICK n \in Nat : Total(bag) = 3 * n + 2 /\ n = Total(bag) \div 3
  <2>1. Total(bag) \div 3 \in Nat /\ Total(bag) = 3 * (Total(bag) \div 3) + 2
    BY <1>2
  <2> QED BY <2>1
<1> DEFINE g == split.group
           h == split.pre_group
           p == split.pair
           s == split.single
<1>4. /\ Steps(g, h, p, n) = 0
      /\ g * 3 + h * 2 + p * 2 + s = 3 * n + 2
      /\ g \in Nat /\ h \in Nat /\ p \in Nat /\ s \in Nat
  <2> DEFINE r == 2
  <2>1. r \in 0..2 /\ Total(bag) = 3 * n + r
    BY <1>3
  <2> HIDE DEF r, g, h, p, s
  <2>2. /\ CountSteps(split) = Steps(split.group, split.pre_group, split.pair, n)
        /\ split.group * 3 + split.pre_group * 2 + split.pair * 2 + split.single
             = 3 * n + r
        /\ split.group \in Nat /\ split.pre_group \in Nat
        /\ split.pair \in Nat /\ split.single \in Nat
    BY <2>1, SplitSteps
  <2>3. Steps(split.group, split.pre_group, split.pair, n) = 0
    BY <1>1, <2>2
  <2> QED BY <2>2, <2>3 DEF g, h, p, s, r
<1>5. g = n /\ h = 0 /\ p = 1 /\ s = 0
  <2> HIDE DEF g, h, p, s
  <2> QED BY <1>4 DEF Steps
<1>6. n <= Most /\ n \in 0..Most
  <2>1. n \in Nat /\ 3 * n + 2 <= HandSize + 1 /\ HandSize \in Nat /\ HandSize % 3 = 1
    BY <1>3, HandSizeAssumption
  <2>2. n <= HandSize \div 3
    BY <2>1
  <2> QED BY <2>1, <2>2 DEF Most
<1>7. bag \in Winning[n]
  BY <1>5, <1>6, MadeWins DEF Made
<1> QED BY <1>3, <1>6, <1>7, WinningIsComplete

-----------------------------------------------------------------------------
(* The search counts no more steps than a winning hand is away.            *)

(* Groups may be taken in any order.                                       *)
LEMMA TakeTwo ==
  ASSUME NEW bag \in Bags, NEW i \in Groups, NEW j \in Groups,
         Have(bag, i), Have(Without(bag, Mask[i]), j)
  PROVE  /\ Have(bag, j) /\ Have(Without(bag, Mask[j]), i)
         /\ Without(Without(bag, Mask[j]), Mask[i]) = Without(Without(bag, Mask[i]), Mask[j])
<1> PICK a, b : a = Mask[i] /\ b = Mask[j]
  OBVIOUS
<1>1. /\ a \in [Kinds -> Int] /\ \A k \in Kinds : a[k] \in 0..4
      /\ b \in [Kinds -> Int] /\ \A k \in Kinds : b[k] \in 0..4
      /\ bag \in [Kinds -> Int]
  BY MaskTotal, BagIs
<1>2. /\ Without(bag, a) \in [Kinds -> Int] /\ Without(bag, b) \in [Kinds -> Int]
      /\ \A k \in Kinds : Without(bag, a)[k] = bag[k] - a[k]
      /\ \A k \in Kinds : Without(bag, b)[k] = bag[k] - b[k]
  BY <1>1, WithIs
<1>3. \A k \in Kinds : Without(bag, a)[k] >= b[k]
  BY DEF Have
<1>4. \A k \in Kinds : bag[k] >= b[k] /\ Without(bag, b)[k] >= a[k]
  <2> TAKE k \in Kinds
  <2>1. /\ bag[k] \in Int /\ a[k] \in 0..4 /\ b[k] \in 0..4
        /\ bag[k] - a[k] >= b[k] /\ Without(bag, b)[k] = bag[k] - b[k]
    BY <1>1, <1>2, <1>3
  <2> QED BY <2>1
<1>5. Without(Without(bag, b), a) = Without(Without(bag, a), b)
  <2>1. /\ Without(Without(bag, b), a) \in [Kinds -> Int]
        /\ Without(Without(bag, a), b) \in [Kinds -> Int]
        /\ \A k \in Kinds : Without(Without(bag, b), a)[k] = Without(bag, b)[k] - a[k]
        /\ \A k \in Kinds : Without(Without(bag, a), b)[k] = Without(bag, a)[k] - b[k]
    BY <1>1, <1>2, WithIs, ZenonT(60)
  <2>2. \A k \in Kinds : Without(Without(bag, b), a)[k] = Without(Without(bag, a), b)[k]
    BY <1>1, <1>2, <2>1
  <2> QED BY <2>1, <2>2, SameBag
<1> QED BY <1>4, <1>5 DEF Have

LEMMA AddTwo ==
  ASSUME NEW split \in Splits, NEW i \in Groups, NEW j \in Groups
  PROVE  /\ Add(Add(split, i), j) \in Splits /\ Add(Add(split, j), i) \in Splits
         /\ AtLeast(Add(Add(split, i), j), Add(Add(split, j), i))
<1>1. Add(split, i) \in Splits /\ Add(split, j) \in Splits
  BY AddIs
<1> PICK a, b, c, d : /\ a = Add(split, i) /\ b = Add(split, j)
                      /\ c = Add(a, j) /\ d = Add(b, i)
  OBVIOUS
<1>2. c \in Splits /\ d \in Splits
  BY <1>1, AddIs
<1>3. /\ a.pair = split.pair + (IF Kind(i) = "pair" THEN 1 ELSE 0)
      /\ b.pair = split.pair + (IF Kind(j) = "pair" THEN 1 ELSE 0)
      /\ c.pair = a.pair + (IF Kind(j) = "pair" THEN 1 ELSE 0)
      /\ d.pair = b.pair + (IF Kind(i) = "pair" THEN 1 ELSE 0)
  BY <1>1, AddIs
<1>4. /\ a.group = split.group + (IF Kind(i) = "group" THEN 1 ELSE 0)
      /\ b.group = split.group + (IF Kind(j) = "group" THEN 1 ELSE 0)
      /\ c.group = a.group + (IF Kind(j) = "group" THEN 1 ELSE 0)
      /\ d.group = b.group + (IF Kind(i) = "group" THEN 1 ELSE 0)
  BY <1>1, AddIs
<1>5. /\ a.pre_group = split.pre_group + (IF Kind(i) = "pre_group" THEN 1 ELSE 0)
      /\ b.pre_group = split.pre_group + (IF Kind(j) = "pre_group" THEN 1 ELSE 0)
      /\ c.pre_group = a.pre_group + (IF Kind(j) = "pre_group" THEN 1 ELSE 0)
      /\ d.pre_group = b.pre_group + (IF Kind(i) = "pre_group" THEN 1 ELSE 0)
  BY <1>1, AddIs
<1>6. split.pair \in Nat /\ split.group \in Nat /\ split.pre_group \in Nat
  BY DEF Splits
<1>7. c.pair >= d.pair /\ c.group >= d.group /\ c.pre_group >= d.pre_group
  BY <1>3, <1>4, <1>5, <1>6
<1> QED BY <1>2, <1>7 DEF AtLeast

TakenFirst(bag) ==
  \A start \in 0..137 : \A i \in Fitting(bag, start) :
    \A split \in FindGroups[Without(bag, Mask[i])][start] :
      \E more \in FindGroups[bag][start] : AtLeast(more, Add(split, i))

LEMMA TakenFirstStep ==
  ASSUME NEW bag \in Bags,
         \A less \in Bags : Total(less) < Total(bag) => TakenFirst(less)
  PROVE  TakenFirst(bag)
<1> SUFFICES ASSUME NEW start \in 0..137, NEW i \in Fitting(bag, start),
                    NEW split \in FindGroups[Without(bag, Mask[i])][start]
             PROVE  \E more \in FindGroups[bag][start] : AtLeast(more, Add(split, i))
  BY DEF TakenFirst
<1> PICK rest : rest = Without(bag, Mask[i])
  OBVIOUS
<1>1. /\ i \in Groups /\ i \in 0..137 /\ i >= start /\ Have(bag, i)
      /\ rest \in Bags /\ Total(rest) < Total(bag)
  BY FittingIs
<1>2. split \in FindGroups[rest][start] /\ split \in Splits
  <2>1. split \in FindGroups[rest][start]
    OBVIOUS
  <2> QED BY <1>1, <2>1, SplitsAre DEF IsSplit
<1>3. ASSUME split \in FindGroups[rest][i]
      PROVE  \E more \in FindGroups[bag][start] : AtLeast(more, Add(split, i))
  <2>1. split \in FindGroups[Without(bag, Mask[i])][i]
    BY <1>3
  <2>2. Add(split, i) \in FindGroups[bag][start]
    BY <2>1, SplitInto
  <2>3. Add(split, i) \in Splits
    BY <1>1, <1>2, AddIs
  <2>4. AtLeast(Add(split, i), Add(split, i))
    BY <2>3, BagIs, AtLeastRest
  <2> QED BY <2>2, <2>4
<1>4. CASE Fitting(rest, start) = {}
  <2>1. Fitting(rest, i) = {}
    <3>1. \A j \in Fitting(rest, i) : j \in Fitting(rest, start)
      <4> TAKE j \in Fitting(rest, i)
      <4>1. j \in Groups /\ j \in 0..137 /\ j >= i /\ Have(rest, j)
        BY DEF Fitting, Groups
      <4>2. j >= start
        BY <1>1, <4>1
      <4> QED BY <4>1, <4>2 DEF Fitting
    <3> QED BY <1>4, <3>1
  <2>2. FindGroups[rest][start] = {Rest(rest)} /\ FindGroups[rest][i] = {Rest(rest)}
    BY <1>1, <1>4, <2>1, SplitOf
  <2> QED BY <1>2, <1>3, <2>2
<1>5. CASE Fitting(rest, start) # {}
  <2>0. Comes(rest, start, split)
    BY <1>1, <1>2, <1>5, SplitFrom
  <2>1. \E j \in Fitting(rest, start) :
          \E less \in FindGroups[Without(rest, Mask[j])][j] : split = Add(less, j)
    BY <2>0, Zenon DEF Comes
  <2> PICK j \in Fitting(rest, start) :
        \E less \in FindGroups[Without(rest, Mask[j])][j] : split = Add(less, j)
    BY <2>1
  <2>2. /\ j \in Groups /\ j \in 0..137 /\ j >= start /\ Have(rest, j)
        /\ Without(rest, Mask[j]) \in Bags
    BY <1>1, FittingIs
  <2> PICK less \in FindGroups[Without(rest, Mask[j])][j] : split = Add(less, j)
    OBVIOUS
  <2>3. CASE j >= i
    <3>1. j \in Fitting(rest, i)
      BY <2>2, <2>3 DEF Fitting
    <3>2. Add(less, j) \in FindGroups[rest][i]
      BY <1>1, <3>1, SplitInto
    <3> QED BY <1>3, <3>2
  <2>4. CASE ~(j >= i)
    <3> PICK other : other = Without(bag, Mask[j])
      OBVIOUS
    <3>1. Have(bag, j) /\ Have(other, i) /\ Without(other, Mask[i]) = Without(rest, Mask[j])
      BY <1>1, <2>2, TakeTwo, SMTT(60)
    <3>2. j \in Fitting(bag, start)
      BY <2>2, <3>1 DEF Fitting
    <3>3. other \in Bags /\ Total(other) < Total(bag)
      BY <3>2, FittingIs
    <3>4. i \in Fitting(other, j)
      <4>1. i >= j
        BY <1>1, <2>2, <2>4
      <4> QED BY <1>1, <3>1, <4>1 DEF Fitting
    <3>5. TakenFirst(other)
      BY <3>3
    <3>6. less \in FindGroups[Without(other, Mask[i])][j]
      BY <3>1
    <3>7. PICK more \in FindGroups[other][j] : AtLeast(more, Add(less, i))
      BY <2>2, <3>4, <3>5, <3>6 DEF TakenFirst
    <3>8. less \in Splits /\ more \in Splits
      BY <2>2, <3>3, <3>7, SplitsAre DEF IsSplit
    <3>9. Add(more, j) \in FindGroups[bag][start]
      <4>1. more \in FindGroups[Without(bag, Mask[j])][j]
        BY <3>7
      <4> QED BY <3>2, <4>1, SplitInto
    <3>10. /\ Add(less, i) \in Splits /\ Add(more, j) \in Splits
           /\ Add(Add(less, i), j) \in Splits /\ Add(Add(less, j), i) \in Splits
           /\ AtLeast(Add(Add(less, i), j), Add(Add(less, j), i))
      BY <1>1, <2>2, <3>8, AddIs, AddTwo
    <3>11. AtLeast(Add(more, j), Add(Add(less, i), j))
      BY <2>2, <3>7, <3>8, <3>10, AtLeastBoth
    <3>12. AtLeast(Add(more, j), Add(Add(less, j), i))
      BY <3>10, <3>11, AtLeastAll
    <3> QED BY <3>9, <3>12
  <2> QED BY <2>3, <2>4
<1> QED BY <1>4, <1>5

(* Whatever group of the bag is taken, the search from the first group on  *)
(* does no worse.                                                          *)
LEMMA GroupIsFound ==
  ASSUME NEW bag \in Bags, NEW i \in Groups, Have(bag, i),
         NEW split \in FindGroups[Without(bag, Mask[i])][0]
  PROVE  \E more \in FindGroups[bag][0] : more \in Splits /\ AtLeast(more, Add(split, i))
<1> DEFINE S == {b \in Bags : TakenFirst(b)}
<1>1. \A b \in Bags :
        (\A less \in Bags : Total(less) < Total(b) => less \in S) => b \in S
  BY TakenFirstStep
<1>2. S \in SUBSET Bags
  OBVIOUS
<1> HIDE DEF S
<1>3. S = Bags
  BY <1>1, <1>2, BagSet
<1>4. TakenFirst(bag)
  BY <1>3 DEF S
<1>5. i \in Fitting(bag, 0) /\ 0 \in 0..137
  BY DEF Fitting, Groups
<1>6. PICK more \in FindGroups[bag][0] : AtLeast(more, Add(split, i))
  BY <1>4, <1>5 DEF TakenFirst
<1>7. more \in Splits
  BY <1>5, SplitsAre DEF IsSplit
<1> QED BY <1>6, <1>7

(* What a hand lacks of another, and what it has of it.                    *)
Lack(won, bag) == [k \in Kinds |-> IF won[k] > bag[k] THEN won[k] - bag[k] ELSE 0]
Common(won, bag) == [k \in Kinds |-> IF won[k] > bag[k] THEN bag[k] ELSE won[k]]

LEMMA LackIs ==
  ASSUME NEW won \in Bags, NEW bag \in Bags
  PROVE  /\ Lack(won, bag) \in Bags /\ Common(won, bag) \in Bags
         /\ \A k \in Kinds :
              /\ Lack(won, bag)[k] = IF won[k] > bag[k] THEN won[k] - bag[k] ELSE 0
              /\ Common(won, bag)[k] = IF won[k] > bag[k] THEN bag[k] ELSE won[k]
         /\ Total(Lack(won, bag)) \in Nat
<1>1. \A k \in Kinds : won[k] \in 0..4 /\ bag[k] \in 0..4
  BY BagIs
<1> PICK lack, common : lack = Lack(won, bag) /\ common = Common(won, bag)
  OBVIOUS
<1>2. /\ lack = [k \in Kinds |-> IF won[k] > bag[k] THEN won[k] - bag[k] ELSE 0]
      /\ common = [k \in Kinds |-> IF won[k] > bag[k] THEN bag[k] ELSE won[k]]
  BY DEF Lack, Common
<1>3. lack \in Bags /\ common \in Bags
  BY <1>1, <1>2 DEF Bags
<1>4. Total(lack) \in Nat
  BY <1>3, TotalZero
<1> QED BY <1>2, <1>3, <1>4

AreParts(won, bag, lack, common) ==
  /\ lack \in Bags /\ common \in Bags
  /\ \A k \in Kinds : lack[k] = IF won[k] > bag[k] THEN won[k] - bag[k] ELSE 0
  /\ \A k \in Kinds : common[k] = IF won[k] > bag[k] THEN bag[k] ELSE won[k]

LEMMA LackNamed ==
  ASSUME NEW won \in Bags, NEW bag \in Bags,
         NEW lack, lack = Lack(won, bag), NEW common, common = Common(won, bag)
  PROVE  AreParts(won, bag, lack, common)
BY LackIs DEF AreParts

(* Misses counts the tiles that are lacking.                               *)
LEMMA MissesLack ==
  ASSUME NEW bag \in Bags, NEW won \in Bags
  PROVE  Misses(bag, won) = Total(Lack(won, bag))
<1>1. /\ bag \in [Kinds -> Int] /\ \A k \in Kinds : bag[k] \in 0..4
      /\ won \in [Kinds -> Int] /\ \A k \in Kinds : won[k] \in 0..4
  BY BagIs
<1> PICK less, lack : less = Without(won, bag) /\ lack = Lack(won, bag)
  OBVIOUS
<1>2. less \in [Kinds -> Int] /\ \A k \in Kinds : less[k] = won[k] - bag[k]
  BY <1>1, WithIs
<1>3. less \in Counts
  <2>1. \A k \in Kinds : less[k] <= 4
    BY <1>1, <1>2
  <2> QED BY <1>2, <2>1, CountIs
<1>4. /\ lack \in Counts
      /\ \A k \in Kinds : lack[k] = IF won[k] > bag[k] THEN won[k] - bag[k] ELSE 0
  BY LackIs, BagIs
<1>5. \A k \in Kinds, n \in 1..4 : n <= less[k] <=> n <= lack[k]
  BY <1>1, <1>2, <1>4
<1>6. {t \in AllTiles : t[2] <= less[t[1]]} = {t \in AllTiles : t[2] <= lack[t[1]]}
  BY <1>5 DEF AllTiles
<1>7. OneByOne(less) = OneByOne(lack)
  BY <1>3, <1>4, <1>6, OneByOneIs
<1>8. Total(less) = Total(lack)
  BY <1>7 DEF Total
<1> QED BY <1>8 DEF Misses

LEMMA FewerTiles ==
  ASSUME NEW a \in Bags, NEW b \in Bags, \A k \in Kinds : a[k] <= b[k]
  PROVE  Total(a) <= Total(b)
<1>1. \A k \in Kinds : b[k] >= a[k]
  <2> TAKE k \in Kinds
  <2>1. a[k] \in 0..4 /\ b[k] \in 0..4 /\ a[k] <= b[k]
    BY BagIs
  <2> QED BY <2>1
<1>2. Without(b, a) \in Bags /\ Total(Without(b, a)) = Total(b) - Total(a)
  BY <1>1, TotalWithout
<1>3. Total(Without(b, a)) \in Nat /\ Total(a) \in Nat /\ Total(b) \in Nat
  BY <1>2, TotalZero
<1> QED BY <1>2, <1>3

(* A bag serves a meld first, and what is left of it the other tiles.      *)
LEMMA MeldFirst ==
  ASSUME NEW won \in Bags, NEW meld \in Bags, With(won, meld) \in Bags, NEW bag \in Bags,
         NEW rest, rest = Without(bag, Common(meld, bag))
  PROVE  /\ rest \in Bags
         /\ Misses(bag, With(won, meld)) = Misses(rest, won) + Total(Lack(meld, bag))
         /\ Misses(bag, won) <= Misses(rest, won)
         /\ Misses(bag, won) \in Nat /\ Misses(rest, won) \in Nat
<1>1. /\ bag \in [Kinds -> Int] /\ \A k \in Kinds : bag[k] \in 0..4
      /\ won \in [Kinds -> Int] /\ \A k \in Kinds : won[k] \in 0..4
      /\ meld \in [Kinds -> Int] /\ \A k \in Kinds : meld[k] \in 0..4
  BY BagIs
<1> PICK all, common, lack :
      all = With(won, meld) /\ common = Common(meld, bag) /\ lack = Lack(meld, bag)
  OBVIOUS
<1>2. /\ all \in Bags /\ all \in [Kinds -> Int]
      /\ \A k \in Kinds : all[k] = won[k] + meld[k]
  BY <1>1, WithIs
<1>3. /\ common \in Bags /\ lack \in Bags
      /\ \A k \in Kinds : lack[k] = IF meld[k] > bag[k] THEN meld[k] - bag[k] ELSE 0
      /\ \A k \in Kinds : common[k] = IF meld[k] > bag[k] THEN bag[k] ELSE meld[k]
  BY LackIs
<1>4. \A k \in Kinds : bag[k] >= common[k]
  BY <1>1, <1>3
<1>5. rest \in Bags
  BY <1>3, <1>4, TotalWithout
<1>6. \A k \in Kinds : rest[k] = bag[k] - common[k]
  BY <1>1, <1>3, BagIs, WithIs
<1> PICK before, after : before = Lack(all, bag) /\ after = Lack(won, rest)
  OBVIOUS
<1>7. /\ before \in Bags /\ after \in Bags
      /\ \A k \in Kinds : before[k] = IF all[k] > bag[k] THEN all[k] - bag[k] ELSE 0
      /\ \A k \in Kinds : after[k] = IF won[k] > rest[k] THEN won[k] - rest[k] ELSE 0
  BY <1>2, <1>5, LackIs
<1>8. \A k \in Kinds : before[k] = after[k] + lack[k]
  <2> TAKE k \in Kinds
  <2>1. /\ bag[k] \in 0..4 /\ won[k] \in 0..4 /\ meld[k] \in 0..4
        /\ all[k] = won[k] + meld[k] /\ rest[k] = bag[k] - common[k]
        /\ before[k] = IF all[k] > bag[k] THEN all[k] - bag[k] ELSE 0
        /\ after[k] = IF won[k] > rest[k] THEN won[k] - rest[k] ELSE 0
        /\ lack[k] = IF meld[k] > bag[k] THEN meld[k] - bag[k] ELSE 0
        /\ common[k] = IF meld[k] > bag[k] THEN bag[k] ELSE meld[k]
    BY <1>1, <1>2, <1>3, <1>6, <1>7
  <2> QED BY <2>1
<1>9. before = With(after, lack)
  <2>1. /\ With(after, lack) \in [Kinds -> Int]
        /\ \A k \in Kinds : With(after, lack)[k] = after[k] + lack[k]
    BY <1>3, <1>7, BagIs, WithIs
  <2>2. \A k \in Kinds : before[k] = With(after, lack)[k]
    BY <1>8, <2>1
  <2> QED BY <1>7, <2>1, <2>2, BagIs, SameBag
<1>10. Total(before) = Total(after) + Total(lack)
  <2>1. after \in Counts /\ With(after, lack) \in Counts /\ \A k \in Kinds : after[k] >= 0
    BY <1>7, <1>9, BagIs
  <2> QED BY <1>3, <1>9, <2>1, TotalWith
<1>11. Total(Lack(won, bag)) <= Total(after)
  <2> PICK first : first = Lack(won, bag)
    OBVIOUS
  <2>1. /\ first \in Bags
        /\ \A k \in Kinds : first[k] = IF won[k] > bag[k] THEN won[k] - bag[k] ELSE 0
    BY LackIs
  <2>2. \A k \in Kinds : first[k] <= after[k]
    <3> TAKE k \in Kinds
    <3>1. /\ bag[k] \in 0..4 /\ won[k] \in 0..4 /\ common[k] \in 0..4
          /\ rest[k] = bag[k] - common[k]
          /\ first[k] = IF won[k] > bag[k] THEN won[k] - bag[k] ELSE 0
          /\ after[k] = IF won[k] > rest[k] THEN won[k] - rest[k] ELSE 0
      BY <1>1, <1>3, <1>6, <1>7, <2>1, BagIs
    <3> QED BY <3>1
  <2> QED BY <1>7, <2>1, <2>2, FewerTiles
<1>12. /\ Misses(bag, all) = Total(before) /\ Misses(rest, won) = Total(after)
       /\ Misses(bag, won) = Total(Lack(won, bag))
  BY <1>2, <1>5, MissesLack
<1>13. Misses(bag, won) \in Nat /\ Misses(rest, won) \in Nat
  BY <1>5, MissesIs
<1> QED BY <1>5, <1>10, <1>11, <1>12, <1>13

(* Of a meld the bag lacks nothing, or one tile, or more: the first two    *)
(* are a group and a part of one.                                          *)
LEMMA LackOfTriplet ==
  ASSUME NEW k \in Kinds, NEW meld, meld = Several(k, 3), NEW bag \in Bags
  PROVE  /\ Total(Lack(meld, bag)) = 0 => Common(meld, bag) = meld
         /\ Total(Lack(meld, bag)) = 1 => Common(meld, bag) = Several(k, 2)
<1>1. meld \in Bags /\ meld = [j \in Kinds |-> IF j = k THEN 3 ELSE 0]
  <2>1. 3 \in 0..4
    OBVIOUS
  <2> QED BY <2>1, TotalFew DEF Several
<1> PICK lack, common : lack = Lack(meld, bag) /\ common = Common(meld, bag)
  OBVIOUS
<1>2. /\ lack \in Bags /\ common \in Bags
      /\ \A j \in Kinds : lack[j] = IF meld[j] > bag[j] THEN meld[j] - bag[j] ELSE 0
      /\ \A j \in Kinds : common[j] = IF meld[j] > bag[j] THEN bag[j] ELSE meld[j]
  BY <1>1, LackIs
<1>3. /\ \A j \in Kinds : bag[j] \in 0..4
      /\ lack \in [Kinds -> Int] /\ common \in [Kinds -> Int] /\ meld \in [Kinds -> Int]
  BY <1>1, <1>2, BagIs
<1> PICK n : n = lack[k]
  OBVIOUS
<1>4. n \in 0..3 /\ n = (IF 3 > bag[k] THEN 3 - bag[k] ELSE 0)
  BY <1>1, <1>2, <1>3
<1>5. lack = Several(k, n) /\ Total(lack) = n
  <2>1. n \in 0..4
    BY <1>4
  <2>2. Several(k, n) \in [Kinds -> Int]
    BY <1>4 DEF Several
  <2>3. \A j \in Kinds : lack[j] = Several(k, n)[j]
    BY <1>1, <1>2, <1>3, <1>4 DEF Several
  <2>4. lack = Several(k, n)
    BY <1>3, <2>2, <2>3, SameBag
  <2> QED BY <2>1, <2>4, TotalFew
<1>6. \A j \in Kinds : j # k => common[j] = 0 /\ meld[j] = 0
  BY <1>1, <1>2, <1>3
<1>7. n = 0 => common = meld
  <2> HAVE n = 0
  <2>1. common[k] = 3 /\ meld[k] = 3
    BY <1>1, <1>2, <1>3, <1>4
  <2>2. \A j \in Kinds : common[j] = meld[j]
    BY <1>6, <2>1
  <2> QED BY <1>3, <2>2, SameBag
<1>8. n = 1 => common = Several(k, 2)
  <2> HAVE n = 1
  <2>1. common[k] = 2
    BY <1>1, <1>2, <1>3, <1>4
  <2>2. \A j \in Kinds : common[j] = Several(k, 2)[j]
    BY <1>6, <2>1 DEF Several
  <2>3. Several(k, 2) \in [Kinds -> Int]
    BY DEF Several
  <2> QED BY <1>3, <2>2, <2>3, SameBag
<1> QED BY <1>5, <1>7, <1>8

ChowLack(meld, bag, three) ==
  /\ Total(Lack(meld, bag)) = 0 => Common(meld, bag) = meld
  /\ Total(Lack(meld, bag)) = 1 =>
       \E x, y \in three : x # y /\ Common(meld, bag) = Each({x, y})

LEMMA LackOfChow ==
  ASSUME NEW a \in Kinds, NEW b \in Kinds, NEW c \in Kinds, a # b, b # c, a # c,
         NEW three, three = {a, b, c}, NEW meld, meld = Each(three), NEW bag \in Bags
  PROVE  ChowLack(meld, bag, three)
<1>0. meld \in Bags
  BY TotalFew
<1>1. \A j \in Kinds : meld[j] = IF j \in {a, b, c} THEN 1 ELSE 0
  BY DEF Each
<1> PICK lack, common : lack = Lack(meld, bag) /\ common = Common(meld, bag)
  OBVIOUS
<1>2. /\ lack \in Bags /\ common \in Bags
      /\ \A j \in Kinds : lack[j] = IF meld[j] > bag[j] THEN meld[j] - bag[j] ELSE 0
      /\ \A j \in Kinds : common[j] = IF meld[j] > bag[j] THEN bag[j] ELSE meld[j]
  <2>1. AreParts(meld, bag, lack, common)
    BY <1>0, LackNamed, Zenon
  <2> QED BY <2>1 DEF AreParts
<1>3. /\ \A j \in Kinds : bag[j] \in 0..4
      /\ lack \in [Kinds -> Int] /\ common \in [Kinds -> Int] /\ meld \in [Kinds -> Int]
  BY <1>0, <1>2, BagIs
<1>4. \A j \in Kinds : /\ common[j] = IF j \in {a, b, c} /\ bag[j] > 0 THEN 1 ELSE 0
                       /\ lack[j] = IF j \in {a, b, c} /\ bag[j] = 0 THEN 1 ELSE 0
  <2> TAKE j \in Kinds
  <2>1. /\ bag[j] \in 0..4 /\ meld[j] = IF j \in {a, b, c} THEN 1 ELSE 0
        /\ lack[j] = IF meld[j] > bag[j] THEN meld[j] - bag[j] ELSE 0
        /\ common[j] = IF meld[j] > bag[j] THEN bag[j] ELSE meld[j]
    BY <1>1, <1>2, <1>3
  <2> QED BY <2>1
<1>5. Total(lack) = 0 => common = meld
  <2> HAVE Total(lack) = 0
  <2>1. \A j \in Kinds : lack[j] = 0
    BY <1>2, TotalZero
  <2>2. \A j \in Kinds : common[j] = meld[j]
    BY <1>1, <1>3, <1>4, <2>1
  <2> QED BY <1>3, <2>2, SameBag
<1>6. ASSUME NEW x \in {a, b, c}, NEW y \in {a, b, c}, x # y, bag[x] = 0, bag[y] = 0
      PROVE  Total(lack) >= 2
  <2>1. x \in Kinds /\ y \in Kinds
    OBVIOUS
  <2>2. Each({x, y}) \in Bags /\ Total(Each({x, y})) = 2
    BY <1>6, <2>1, TotalFew
  <2>3. \A j \in Kinds : Each({x, y})[j] <= lack[j]
    <3> TAKE j \in Kinds
    <3>1. CASE j \in {x, y}
      <4>1. Each({x, y})[j] = 1 /\ lack[j] = 1
        BY <1>4, <1>6, <3>1 DEF Each
      <4> QED BY <4>1
    <3>2. CASE j \notin {x, y}
      <4>1. Each({x, y})[j] = 0 /\ lack[j] \in 0..4
        BY <1>2, <3>2, BagIs DEF Each
      <4> QED BY <4>1
    <3> QED BY <3>1, <3>2
  <2>4. 2 <= Total(lack) /\ Total(lack) \in Nat
    BY <1>2, <2>2, <2>3, FewerTiles, TotalZero, ZenonT(60)
  <2> QED BY <2>4
<1>7. ASSUME NEW x \in {a, b, c}, NEW y \in {a, b, c}, NEW z \in {a, b, c},
             x # y, y # z, x # z, bag[z] = 0, Total(lack) = 1
      PROVE  common = Each({x, y})
  <2>1. bag[x] > 0 /\ bag[y] > 0
    <3>1. bag[x] \in 0..4 /\ bag[y] \in 0..4
      BY <1>3
    <3>2. bag[x] # 0
      BY <1>6, <1>7
    <3>3. bag[y] # 0
      BY <1>6, <1>7
    <3> QED BY <3>1, <3>2, <3>3
  <2>2. {x, y, z} = {a, b, c}
    BY <1>7
  <2>3. \A j \in Kinds : common[j] = Each({x, y})[j]
    <3> TAKE j \in Kinds
    <3>1. CASE j \in {x, y}
      BY <1>4, <2>1, <3>1 DEF Each
    <3>2. CASE j = z
      BY <1>3, <1>4, <1>7, <3>2 DEF Each
    <3>3. CASE j \notin {x, y, z}
      BY <1>4, <2>2, <3>3 DEF Each
    <3> QED BY <3>1, <3>2, <3>3
  <2>4. Each({x, y}) \in [Kinds -> Int]
    BY DEF Each
  <2> QED BY <1>3, <2>3, <2>4, SameBag
<1>8. ASSUME Total(lack) = 1
      PROVE  \E x, y \in {a, b, c} : x # y /\ common = Each({x, y})
  <2>1. PICK z \in {a, b, c} : bag[z] = 0
    <3>1. CASE \A z \in {a, b, c} : bag[z] # 0
      <4>1. \A j \in Kinds : lack[j] = 0
        BY <1>4, <3>1
      <4>2. Total(lack) = 0
        BY <1>2, <4>1, TotalZero
      <4> QED BY <1>8, <4>2
    <3> QED BY <3>1
  <2>2. CASE z = a
    BY <1>7, <1>8, <2>1, <2>2
  <2>3. CASE z = b
    BY <1>7, <1>8, <2>1, <2>3
  <2>4. CASE z = c
    BY <1>7, <1>8, <2>1, <2>4
  <2> QED BY <2>2, <2>3, <2>4
<1> QED BY <1>5, <1>8 DEF ChowLack

LEMMA PartOfMeld ==
  ASSUME NEW meld \in MeldBags, NEW bag \in Bags
  PROVE  /\ Total(Lack(meld, bag)) \in Nat
         /\ Total(Lack(meld, bag)) = 0 =>
              \E i \in Groups : Kind(i) = "group" /\ Mask[i] = Common(meld, bag)
         /\ Total(Lack(meld, bag)) = 1 =>
              \E i \in Groups : /\ Kind(i) \in {"pair", "pre_group"}
                                /\ Mask[i] = Common(meld, bag)
<1>1. meld \in Bags /\ Total(Lack(meld, bag)) \in Nat
  BY MeldTotal, LackIs
<1>2. \E i \in Groups : Kind(i) = "group" /\ Mask[i] = meld
  BY MeldFor
<1>3. CASE \E k \in Kinds : meld = Several(k, 3)
  <2> PICK k \in Kinds : meld = Several(k, 3)
    BY <1>3
  <2>1. /\ Total(Lack(meld, bag)) = 0 => Common(meld, bag) = meld
        /\ Total(Lack(meld, bag)) = 1 => Common(meld, bag) = Several(k, 2)
    BY LackOfTriplet
  <2>2. \E i \in Groups : Kind(i) = "pair" /\ Mask[i] = Several(k, 2)
    BY PairFor
  <2> QED BY <1>1, <1>2, <2>1, <2>2
<1>4. ASSUME NEW k \in Kinds, Suited(k), Chow(k) \subseteq Kinds, meld = Each(Chow(k))
      PROVE  /\ Total(Lack(meld, bag)) = 0 => Common(meld, bag) = meld
             /\ Total(Lack(meld, bag)) = 1 =>
                  \E x, y \in Chow(k) : x # y /\ Common(meld, bag) = Each({x, y})
  <2>1. k = <<k[1], k[2]>> /\ k[1] \in Int /\ k[2] \in Int
    BY KindIs
  <2> DEFINE a == <<k[1], k[2] + 1>>
             b == <<k[1], k[2] + 2>>
  <2>2. Chow(k) = {k, a, b}
    BY <2>1, ChowIs
  <2>3. k # a /\ k # b /\ a # b
    BY <2>1
  <2> HIDE DEF a, b
  <2>4. a \in Kinds /\ b \in Kinds
    BY <1>4, <2>2
  <2> PICK three : three = Chow(k)
    OBVIOUS
  <2>5. three = {k, a, b} /\ meld = Each(three)
    BY <1>4, <2>2
  <2>6. ChowLack(meld, bag, three)
    BY <2>3, <2>4, <2>5, LackOfChow, Zenon
  <2> QED BY <2>6 DEF ChowLack
<1>5. ASSUME NEW k \in Kinds, Suited(k), Chow(k) \subseteq Kinds, meld = Each(Chow(k)),
             Total(Lack(meld, bag)) = 1
      PROVE  \E i \in Groups : Kind(i) = "pre_group" /\ Mask[i] = Common(meld, bag)
  <2>1. PICK x \in Chow(k), y \in Chow(k) : x # y /\ Common(meld, bag) = Each({x, y})
    BY <1>4, <1>5
  <2>2. \E i \in Groups : Kind(i) = "pre_group" /\ Mask[i] = Each({x, y})
    BY <1>5, <2>1, PreGroupFor
  <2> QED BY <2>1, <2>2
<1>6. CASE \E k \in Kinds : Suited(k) /\ Chow(k) \subseteq Kinds /\ meld = Each(Chow(k))
  BY <1>1, <1>2, <1>4, <1>5, <1>6
<1> QED BY <1>3, <1>6 DEF MeldBags

(* From a winning hand of n melds and what the bag misses of it, what the  *)
(* search must find: so many parts of it, and among as many as a winning   *)
(* hand has, a pair.                                                       *)
Shows(split, g, h, p, n, m) ==
  /\ split.group >= g /\ split.pre_group >= h /\ split.pair >= p
  /\ g + h + p <= n + 1 /\ (g + h + p = n + 1 => p > 0)
  /\ 2 * n + 1 <= 2 * g + h + p + m
FindsParts(bag, n, m) ==
  \E split \in FindGroups[bag][0] : \E g, h, p \in Nat : Shows(split, g, h, p, n, m)

LEMMA ShowsMore ==
  ASSUME NEW split \in Splits, NEW i \in Groups, NEW more \in Splits,
         AtLeast(more, Add(split, i)),
         NEW n \in Nat, NEW m \in Nat, NEW g \in Nat, NEW h \in Nat, NEW p \in Nat,
         Shows(split, g, h, p, n, m)
  PROVE  /\ Kind(i) = "group" => Shows(more, g + 1, h, p, n + 1, m)
         /\ Kind(i) = "pre_group" => Shows(more, g, h + 1, p, n + 1, m + 1)
         /\ Kind(i) = "pair" => Shows(more, g, h, p + 1, n + 1, m + 1)
<1> PICK a : a = Add(split, i)
  OBVIOUS
<1>1. /\ a.pair = split.pair + (IF Kind(i) = "pair" THEN 1 ELSE 0)
      /\ a.group = split.group + (IF Kind(i) = "group" THEN 1 ELSE 0)
      /\ a.pre_group = split.pre_group + (IF Kind(i) = "pre_group" THEN 1 ELSE 0)
  BY AddIs
<1>2. /\ split.pair \in Nat /\ split.group \in Nat /\ split.pre_group \in Nat
      /\ more.pair \in Nat /\ more.group \in Nat /\ more.pre_group \in Nat
  BY DEF Splits
<1>3. more.group >= a.group /\ more.pre_group >= a.pre_group /\ more.pair >= a.pair
  BY DEF AtLeast
<1>4. /\ split.group >= g /\ split.pre_group >= h /\ split.pair >= p
      /\ g + h + p <= n + 1 /\ (g + h + p = n + 1 => p > 0)
      /\ 2 * n + 1 <= 2 * g + h + p + m
  BY DEF Shows
<1>5. ASSUME Kind(i) = "group" PROVE Shows(more, g + 1, h, p, n + 1, m)
  BY <1>1, <1>2, <1>3, <1>4, <1>5 DEF Shows
<1>6. ASSUME Kind(i) = "pre_group" PROVE Shows(more, g, h + 1, p, n + 1, m + 1)
  BY <1>1, <1>2, <1>3, <1>4, <1>6 DEF Shows
<1>7. ASSUME Kind(i) = "pair" PROVE Shows(more, g, h, p + 1, n + 1, m + 1)
  BY <1>1, <1>2, <1>3, <1>4, <1>7 DEF Shows
<1> QED BY <1>5, <1>6, <1>7

LEMMA FindsMore ==
  ASSUME NEW bag \in Bags, NEW i \in Groups, Have(bag, i), NEW n \in Nat, NEW m \in Nat,
         Without(bag, Mask[i]) \in Bags, FindsParts(Without(bag, Mask[i]), n, m)
  PROVE  /\ Kind(i) = "group" => FindsParts(bag, n + 1, m)
         /\ Kind(i) \in {"pair", "pre_group"} => FindsParts(bag, n + 1, m + 1)
<1> PICK split \in FindGroups[Without(bag, Mask[i])][0], g \in Nat, h \in Nat, p \in Nat :
      Shows(split, g, h, p, n, m)
  BY DEF FindsParts
<1>1. PICK more \in FindGroups[bag][0] : more \in Splits /\ AtLeast(more, Add(split, i))
  BY GroupIsFound
<1>2. 0 \in 0..137
  OBVIOUS
<1>3. split \in Splits
  BY <1>2, SplitsAre DEF IsSplit
<1>4. /\ Kind(i) = "group" => Shows(more, g + 1, h, p, n + 1, m)
      /\ Kind(i) = "pre_group" => Shows(more, g, h + 1, p, n + 1, m + 1)
      /\ Kind(i) = "pair" => Shows(more, g, h, p + 1, n + 1, m + 1)
  BY <1>1, <1>3, ShowsMore
<1>5. g + 1 \in Nat /\ h + 1 \in Nat /\ p + 1 \in Nat
  OBVIOUS
<1>6. Kind(i) = "group" => FindsParts(bag, n + 1, m)
  BY <1>4, <1>5 DEF FindsParts
<1>7. Kind(i) = "pre_group" => FindsParts(bag, n + 1, m + 1)
  BY <1>4, <1>5 DEF FindsParts
<1>8. Kind(i) = "pair" => FindsParts(bag, n + 1, m + 1)
  BY <1>4, <1>5 DEF FindsParts
<1> QED BY <1>6, <1>7, <1>8

LEMMA FindsNoMore ==
  ASSUME NEW bag \in Bags, NEW n \in Nat, NEW m \in Nat, NEW mm \in Nat, mm >= m + 2,
         FindsParts(bag, n, m)
  PROVE  FindsParts(bag, n + 1, mm)
<1> PICK split \in FindGroups[bag][0], g \in Nat, h \in Nat, p \in Nat :
      Shows(split, g, h, p, n, m)
  BY DEF FindsParts
<1>1. Shows(split, g, h, p, n + 1, mm)
  BY DEF Shows
<1> QED BY <1>1 DEF FindsParts

(* Of a pair.                                                              *)
LEMMA FindsPair ==
  ASSUME NEW won \in Winning[0], NEW bag \in Bags
  PROVE  FindsParts(bag, 0, Misses(bag, won))
<1>1. PICK k \in Kinds : won = Several(k, 2)
  BY WinningStep DEF PairBags
<1>2. 0 \in 0..Most /\ won \in Bags
  BY WinningStep, WinningIs
<1> PICK m : m = Misses(bag, won)
  OBVIOUS
<1>3. m \in Nat
  BY <1>2, MissesIs
<1>4. 0 \in 0..137
  OBVIOUS
<1>5. CASE bag[k] >= 2
  <2>1. PICK i \in Groups : Kind(i) = "pair" /\ Mask[i] = Several(k, 2)
    BY PairFor
  <2>2. Have(bag, i)
    <3> SUFFICES ASSUME NEW j \in Kinds PROVE bag[j] >= Several(k, 2)[j]
      BY <2>1 DEF Have
    <3>1. bag[j] \in 0..4
      BY BagIs
    <3> QED BY <1>5, <3>1 DEF Several
  <2>3. Without(bag, Mask[i]) \in Bags
    BY <2>2, GroupTaken
  <2>4. PICK split : split \in FindGroups[Without(bag, Mask[i])][0]
    BY <1>4, <2>3, SplitsAre
  <2>5. split \in Splits
    BY <1>4, <2>3, <2>4, SplitsAre DEF IsSplit
  <2>6. PICK more \in FindGroups[bag][0] : more \in Splits /\ AtLeast(more, Add(split, i))
    BY <2>2, <2>4, GroupIsFound
  <2>7. Shows(more, 0, 0, 1, 0, m)
    <3> PICK a : a = Add(split, i)
      OBVIOUS
    <3>1. a.pair = split.pair + 1
      BY <2>1, <2>5, AddIs
    <3>2. /\ more.pair \in Nat /\ more.group \in Nat /\ more.pre_group \in Nat
          /\ split.pair \in Nat /\ more.pair >= a.pair
      BY <2>5, <2>6 DEF Splits, AtLeast
    <3> QED BY <1>3, <3>1, <3>2 DEF Shows
  <2> QED BY <2>7 DEF FindsParts
<1>6. CASE ~(bag[k] >= 2)
  <2>1. m # 0
    <3> PICK lack : lack = Lack(won, bag)
      OBVIOUS
    <3>1. m = Total(lack)
      BY <1>2, MissesLack
    <3>2. lack \in Bags /\ lack[k] = IF won[k] > bag[k] THEN won[k] - bag[k] ELSE 0
      BY <1>2, LackIs
    <3>3. won[k] = 2 /\ bag[k] \in 0..4
      BY <1>1, BagIs DEF Several
    <3>4. lack[k] # 0
      BY <1>6, <3>2, <3>3
    <3> QED BY <3>1, <3>2, <3>4, TotalZero
  <2>2. PICK split : split \in FindGroups[bag][0]
    BY <1>4, SplitsAre
  <2>3. split.pair \in Nat /\ split.group \in Nat /\ split.pre_group \in Nat
    BY <1>4, <2>2, SplitsAre DEF IsSplit, Splits
  <2>4. Shows(split, 0, 0, 0, 0, m)
    BY <1>3, <2>1, <2>3 DEF Shows
  <2> QED BY <2>2, <2>4 DEF FindsParts
<1> QED BY <1>5, <1>6

(* Of a meld more.                                                         *)
FindsAll(n) == \A won \in Winning[n] : \A bag \in Bags : FindsParts(bag, n, Misses(bag, won))

LEMMA FindsMeld ==
  ASSUME NEW n \in Nat, n + 1 <= Most, FindsAll(n)
  PROVE  FindsAll(n + 1)
<1> SUFFICES ASSUME NEW all \in Winning[n + 1], NEW bag \in Bags
             PROVE  FindsParts(bag, n + 1, Misses(bag, all))
  BY DEF FindsAll
<1>1. Most \in Nat /\ n + 1 \in 1..Most /\ (n + 1) - 1 = n /\ n \in 0..Most /\ n + 1 \in 0..Most
  BY WinningStep
<1>2. PICK won \in Winning[n], meld \in MeldBags : all = With(won, meld)
  <2>1. Winning[n + 1] = Larger(Winning[n])
    BY <1>1, WinningStep
  <2> QED BY <2>1 DEF Larger
<1>3. won \in Bags /\ all \in Bags
  BY <1>1, WinningIs
<1>4. meld \in Bags
  BY MeldTotal
<1> PICK common, lack, rest :
      common = Common(meld, bag) /\ lack = Total(Lack(meld, bag))
      /\ rest = Without(bag, common)
  OBVIOUS
<1> PICK m, less, more :
      m = Misses(rest, won) /\ less = Misses(bag, won) /\ more = Misses(bag, all)
  OBVIOUS
<1>5. /\ rest \in Bags /\ more = m + lack /\ less <= m
      /\ less \in Nat /\ m \in Nat
  BY <1>2, <1>3, <1>4, MeldFirst
<1>6. /\ lack \in Nat
      /\ lack = 0 => \E i \in Groups : Kind(i) = "group" /\ Mask[i] = common
      /\ lack = 1 => \E i \in Groups : Kind(i) \in {"pair", "pre_group"} /\ Mask[i] = common
  BY PartOfMeld
<1>7. FindsParts(rest, n, m) /\ FindsParts(bag, n, less)
  BY <1>5 DEF FindsAll
<1>8. ASSUME NEW i \in Groups, Mask[i] = common
      PROVE  Have(bag, i)
  <2> SUFFICES ASSUME NEW k \in Kinds PROVE bag[k] >= common[k]
    BY <1>8 DEF Have
  <2>1. common[k] = IF meld[k] > bag[k] THEN bag[k] ELSE meld[k]
    BY <1>4, LackIs
  <2>2. bag[k] \in 0..4 /\ meld[k] \in 0..4
    BY <1>4, BagIs
  <2> QED BY <2>1, <2>2
<1>9. CASE lack = 0
  <2>1. PICK i \in Groups : Kind(i) = "group" /\ Mask[i] = common
    BY <1>6, <1>9
  <2>2. FindsParts(bag, n + 1, m)
    BY <1>5, <1>7, <1>8, <2>1, FindsMore
  <2> QED BY <1>5, <1>9, <2>2
<1>10. CASE lack = 1
  <2>1. PICK i \in Groups : Kind(i) \in {"pair", "pre_group"} /\ Mask[i] = common
    BY <1>6, <1>10
  <2>2. FindsParts(bag, n + 1, m + 1)
    BY <1>5, <1>7, <1>8, <2>1, FindsMore
  <2> QED BY <1>5, <1>10, <2>2
<1>11. CASE lack >= 2
  <2>1. more \in Nat /\ more >= less + 2
    BY <1>5, <1>6, <1>11
  <2> QED BY <1>5, <1>7, <2>1, FindsNoMore
<1> QED BY <1>6, <1>9, <1>10, <1>11

LEMMA FindsEvery ==
  ASSUME NEW n \in 0..Most
  PROVE  FindsAll(n)
<1> DEFINE T == {m \in Nat : m <= Most => FindsAll(m)}
<1>1. 0 \in T
  BY FindsPair DEF FindsAll
<1>2. ASSUME NEW m \in T PROVE m + 1 \in T
  <2> SUFFICES ASSUME m + 1 <= Most PROVE FindsAll(m + 1)
    OBVIOUS
  <2>1. m <= Most /\ m \in Nat
    BY WinningStep
  <2> QED BY <2>1, FindsMeld
<1>3. T \in SUBSET Nat
  OBVIOUS
<1> HIDE DEF T
<1>4. T = Nat
  BY <1>1, <1>2, <1>3, NatSet
<1>5. n \in T /\ n <= Most
  BY <1>4, WinningStep
<1> QED BY <1>5 DEF T

(* The search never counts more steps than tiles that some winning hand of *)
(* the size is away (Irb00.cpp, StepToHu1617 and CountSteps): it does not  *)
(* miss a split, and the pair it asks for in advance is always among them. *)
THEOREM StepsSuffice ==
  ASSUME NEW bag \in Bags, Total(bag) <= HandSize + 1,
         NEW won \in Winning[Total(bag) \div 3]
  PROVE  StepToHu[bag] <= Misses(bag, won)
<1>1. Total(bag) \in Nat
  BY TotalZero
<1>2. PICK n \in Nat, r \in 0..2 : Total(bag) = 3 * n + r /\ n = Total(bag) \div 3
  <2>1. Total(bag) \div 3 \in Nat /\ Total(bag) % 3 \in 0..2
    BY <1>1
  <2>2. Total(bag) = 3 * (Total(bag) \div 3) + (Total(bag) % 3)
    BY <1>1
  <2> QED BY <2>1, <2>2
<1>3. n \in 0..Most
  <2>1. n \in Nat /\ 3 * n <= HandSize + 1 /\ HandSize \in Nat /\ HandSize % 3 = 1
    BY <1>2, HandSizeAssumption
  <2>2. n <= HandSize \div 3
    BY <2>1
  <2> QED BY <2>1, <2>2 DEF Most
<1> PICK m : m = Misses(bag, won)
  OBVIOUS
<1>4. m \in Nat
  BY <1>2, <1>3, WinningIs, MissesIs
<1>5. FindsParts(bag, n, m)
  BY <1>2, <1>3, FindsEvery DEF FindsAll
<1>6. PICK split \in FindGroups[bag][0], g \in Nat, h \in Nat, p \in Nat :
        Shows(split, g, h, p, n, m)
  BY <1>5 DEF FindsParts
<1>7. /\ CountSteps(split) = Steps(split.group, split.pre_group, split.pair, n)
      /\ split.group * 3 + split.pre_group * 2 + split.pair * 2 + split.single = 3 * n + r
      /\ split.group \in Nat /\ split.pre_group \in Nat
      /\ split.pair \in Nat /\ split.single \in Nat
  BY <1>2, SplitSteps
<1>8. Steps(split.group, split.pre_group, split.pair, n) <= m
  <2> PICK gg, hh, pp, ss :
        gg = split.group /\ hh = split.pre_group /\ pp = split.pair /\ ss = split.single
    OBVIOUS
  <2>1. /\ gg \in Nat /\ hh \in Nat /\ pp \in Nat /\ ss \in Nat
        /\ gg * 3 + hh * 2 + pp * 2 + ss = 3 * n + r
        /\ gg >= g /\ hh >= h /\ pp >= p
        /\ g + h + p <= n + 1 /\ (g + h + p = n + 1 => p > 0)
        /\ 2 * n + 1 <= 2 * g + h + p + m
    BY <1>6, <1>7 DEF Shows
  <2>2. gg * 3 + hh * 2 + pp * 2 <= 3 * n + 2
    BY <2>1
  <2>3. Steps(gg, hh, pp, n) <= Steps(g, h, p, n)
    BY <2>1, <2>2, MoreCostsLess
  <2>4. Steps(g, h, p, n) <= m /\ Steps(g, h, p, n) \in Int
    BY <1>4, <2>1 DEF Steps
  <2>5. Steps(gg, hh, pp, n) \in Int
    BY <2>1 DEF Steps
  <2> QED BY <1>4, <2>3, <2>4, <2>5
<1>9. /\ StepToHu[bag] \in Nat
      /\ CountSteps(split) \in Nat /\ StepToHu[bag] <= CountSteps(split)
  BY BestSplit
<1> QED BY <1>4, <1>7, <1>8, <1>9

(* Every winning hand is found: of it the search counts no step.  With     *)
(* NoStepIsWon, the hands of no step are the winning ones.                 *)
THEOREM WonIsNoStep ==
  ASSUME NEW n \in 0..Most, NEW bag \in Winning[n]
  PROVE  StepToHu[bag] = 0
<1>1. bag \in Bags /\ Total(bag) = 3 * n + 2
  BY WinningIs
<1>2. 3 * n + 2 <= HandSize + 1 /\ (3 * n + 2) \div 3 = n
  BY HandSizeAssumption DEF Most
<1>3. StepToHu[bag] <= Misses(bag, bag)
  BY <1>1, <1>2, StepsSuffice
<1>4. Misses(bag, bag) = 0 /\ StepToHu[bag] \in Nat
  BY <1>1, <1>2, MissesIs, BestSplit
<1> QED BY <1>3, <1>4

(* There is a winning hand of every size.                                  *)
LEMMA SomeWin ==
  ASSUME NEW n \in 0..Most
  PROVE  Winning[n] # {}
<1> DEFINE T == {m \in Nat : m <= Most => Winning[Most - m] # {}}
<1>1. 0 \in T
  BY WinningStep, SomeHandWins DEF Most
<1>2. ASSUME NEW m \in T PROVE m + 1 \in T
  <2> SUFFICES ASSUME m + 1 <= Most PROVE Winning[Most - (m + 1)] # {}
    OBVIOUS
  <2> PICK size, less : size = Most - m /\ less = Most - (m + 1)
    OBVIOUS
  <2>1. m <= Most /\ size \in 1..Most /\ less = size - 1
    BY WinningStep
  <2>2. Winning[size] = Larger(Winning[less]) /\ Winning[size] # {}
    BY <2>1, WinningStep
  <2> QED BY <2>2 DEF Larger
<1>3. T \in SUBSET Nat
  OBVIOUS
<1> HIDE DEF T
<1>4. T = Nat
  BY <1>1, <1>2, <1>3, NatSet
<1> PICK m : m = Most - n
  OBVIOUS
<1>5. m \in T /\ m <= Most /\ Most - m = n
  BY <1>4, WinningStep
<1> QED BY <1>5 DEF T

(* The distance is one to some winning hand.                               *)
LEMMA DistanceFrom ==
  ASSUME NEW bag \in Bags, Total(bag) \in 1..HandSize + 1, Total(bag) % 3 # 0
  PROVE  \E won \in Winning[Total(bag) \div 3] : Distance[bag] = Misses(bag, won)
<1> DEFINE n == Total(bag) \div 3
           misses == {Misses(bag, w) : w \in Winning[n]}
           far == [b \in Hands({m \in 1..HandSize + 1 : m % 3 # 0}) |->
                     Min({Misses(b, w) : w \in Winning[Total(b) \div 3]})]
<1>1. bag \in Hands({m \in 1..HandSize + 1 : m % 3 # 0})
  BY HandIs
<1>2. Distance = far
  BY TabulatedIs, Zenon DEF Distance
<1>3. far[bag] = Min(misses)
  BY <1>1
<1>4. n \in 0..Most
  <2>1. HandSize \in Nat /\ HandSize % 3 = 1 /\ Total(bag) \in 1..HandSize + 1
    BY HandSizeAssumption
  <2> DEFINE t == Total(bag)
  <2> HIDE DEF t
  <2>2. t \in 1..HandSize + 1 => t \div 3 \in 0..HandSize \div 3
    BY <2>1
  <2> QED BY <2>1, <2>2 DEF t, Most
<1>5. misses \subseteq Nat /\ misses # {}
  <2>1. \A w \in Winning[n] : Misses(bag, w) \in Nat
    <3> HIDE DEF n
    <3> QED BY <1>4, WinningIs, MissesIs
  <2>2. Winning[n] # {}
    <3> HIDE DEF n
    <3> QED BY <1>4, SomeWin
  <2> QED BY <2>1, <2>2
<1>6. \A m \in misses : \E w \in Winning[n] : m = Misses(bag, w)
  OBVIOUS
<1> HIDE DEF misses
<1>7. Min(misses) \in misses
  BY <1>5, MinIs
<1> HIDE DEF far
<1> QED BY <1>2, <1>3, <1>6, <1>7

-----------------------------------------------------------------------------
(* Winning hands and the decisions.                                        *)

(* A winning hand stays one with a meld more, as when a claim is granted.  *)
LEMMA MeldIsLarger ==
  ASSUME NEW bag \in Bags, Total(bag) % 3 = 2, StepToHu[bag] = 0, NEW meld \in MeldBags,
         With(bag, meld) \in Bags, Total(With(bag, meld)) <= HandSize + 1
  PROVE  Complete(With(bag, meld))
<1>1. meld \in Bags /\ Total(meld) = 3
  BY MeldTotal
<1>2. Total(With(bag, meld)) = Total(bag) + 3
  BY <1>1, BagIs, TotalWith
<1>3. Total(bag) \in Nat /\ HandSize \in Nat
  BY TotalZero, HandSizeAssumption
<1>4. Total(bag) <= HandSize + 1
  BY <1>2, <1>3
<1>5. bag \in Winning[Total(bag) \div 3]
  BY <1>4, NoStepIsWon
<1> DEFINE n == Total(bag) \div 3 + 1
<1>6. n \in 1..Most /\ n - 1 = Total(bag) \div 3
  <2>1. Total(bag) + 3 <= HandSize + 1 /\ Total(bag) % 3 = 2 /\ HandSize % 3 = 1
    BY <1>2, <1>3, HandSizeAssumption
  <2> DEFINE t == Total(bag)
  <2> HIDE DEF t
  <2>2. t \in Nat /\ t + 3 <= HandSize + 1 => t \div 3 + 1 \in 1..HandSize \div 3
    BY <1>3, <2>1
  <2>3. t \div 3 \in Nat
    BY <1>3 DEF t
  <2> QED BY <1>2, <1>3, <2>2, <2>3 DEF t, Most
<1> HIDE DEF n
<1>7. With(bag, meld) \in Winning[n]
  BY <1>5, <1>6, WinningMeld
<1>8. n \in 0..Most
  BY <1>6
<1> QED BY <1>7, <1>8, WinningIsComplete

(* NumOfImprove is a number, and at most that of all tiles.                *)
LEMMA ImproveIs ==
  ASSUME NEW bag, NEW remain, NEW steps,
         \A k \in Kinds : remain[k] \in Int /\ remain[k] <= 4
  PROVE  /\ Cardinality(AllTiles) \in Nat
         /\ NumOfImprove(bag, remain, steps) \in 0..Cardinality(AllTiles)
<1> DEFINE S == UNION {{k} \X (1..remain[k]) :
                  k \in {j \in Kinds : remain[j] > 0 /\ StepToHu[Plus(bag, j)] = steps - 1}}
<1>1. IsFiniteSet(AllTiles)
  BY TilesAreFinite
<1>2. S \subseteq AllTiles
  <2>1. ASSUME NEW k \in Kinds PROVE {k} \X (1..remain[k]) \subseteq AllTiles
    BY DEF AllTiles
  <2> DEFINE near == {j \in Kinds : remain[j] > 0 /\ StepToHu[Plus(bag, j)] = steps - 1}
  <2>2. near \subseteq Kinds
    OBVIOUS
  <2>3. S = UNION {{k} \X (1..remain[k]) : k \in near}
    BY Zenon
  <2> HIDE DEF near, S
  <2> QED BY <2>1, <2>2, <2>3
<1>3. NumOfImprove(bag, remain, steps) = Cardinality(S)
  BY Zenon DEF NumOfImprove
<1> HIDE DEF S
<1>4. Cardinality(S) <= Cardinality(AllTiles) /\ IsFiniteSet(S)
  BY <1>1, <1>2, FS_Subset
<1>5. Cardinality(S) \in Nat /\ Cardinality(AllTiles) \in Nat
  BY <1>1, <1>4, FS_CardinalityType
<1> QED BY <1>3, <1>4, <1>5

(* Throw picks a tile that is there, or none when none can be spared.      *)
LEMMA ThrowFinds ==
  ASSUME NEW bag \in [Kinds -> Nat], NEW away \in [Kinds -> Nat], Candidates(bag) # {}
  PROVE  /\ Throw(bag, away) \in Kinds /\ bag[Throw(bag, away)] > 0
         /\ Throw(bag, away) \in Candidates(bag)
<1> DEFINE candidates == Candidates(bag)
           gain == [k \in candidates |->
                      NumOfImprove(Minus(bag, k), RemainTiles(bag, away), StepToHu[bag])]
           best == {k \in candidates : \A j \in candidates : gain[j] <= gain[k]}
           n == Cardinality(AllTiles)
<1>1. Throw(bag, away) = First(best)
  BY Zenon DEF Throw
<1>2. \A k \in candidates : k \in Kinds /\ bag[k] > 0
  BY DEF Candidates, Held
<1>3. \A k \in Kinds : RemainTiles(bag, away)[k] \in Int /\ RemainTiles(bag, away)[k] <= 4
  BY DEF RemainTiles
<1>4. n \in Nat /\ \A k \in candidates : gain[k] \in 0..n
  <2>1. \A k \in candidates :
          NumOfImprove(Minus(bag, k), RemainTiles(bag, away), StepToHu[bag]) \in 0..n
    BY <1>3, ImproveIs
  <2>2. n \in Nat
    BY <1>3, ImproveIs
  <2> HIDE DEF n, candidates
  <2> QED BY <2>1, <2>2
<1>5. gain \in [candidates -> 0..n]
  <2> HIDE DEF n, candidates
  <2> QED BY <1>4
<1>6. candidates # {}
  OBVIOUS
<1> HIDE DEF gain, n, candidates
<1>7. best # {}
  BY <1>4, <1>5, <1>6, GreatestRank
<1>8. best \subseteq candidates
  OBVIOUS
<1> HIDE DEF best
<1>9. First(best) \in best
  BY <1>2, <1>7, <1>8, FirstIs
<1> QED BY <1>1, <1>2, <1>8, <1>9 DEF candidates

LEMMA ThrowIs ==
  ASSUME NEW bag \in [Kinds -> Nat], NEW away \in [Kinds -> Nat]
  PROVE  \/ Throw(bag, away) = NoTile
         \/ /\ Throw(bag, away) \in Kinds /\ bag[Throw(bag, away)] > 0
            /\ Throw(bag, away) \in Candidates(bag)
<1>1. Candidates(bag) = {} => Throw(bag, away) = NoTile
  BY Zenon DEF Throw
<1> QED BY <1>1, ThrowFinds

(* GonOrNot names four of a kind, or one that is added to a triplet, at no *)
(* cost.                                                                   *)
LEMMA GonIs ==
  ASSUME NEW hand \in [Kinds -> 0..4], NEW triplets, triplets \subseteq Kinds,
         NEW card \in Kinds, NEW kong, kong = GonOrNot(hand, triplets, card)
  PROVE  \/ kong = NoTile
         \/ /\ kong \in Kinds /\ GoodGon(Put(hand, card), kong)
            /\ \/ Put(hand, card)[kong] = 4
               \/ Put(hand, card)[kong] = 1 /\ kong \in triplets
<1> DEFINE bag == Put(hand, card)
           later == {k \in Kinds : CanGonLater(hand, triplets, k) /\ GoodGon(bag, k)}
           least == CHOOSE k \in later : \A j \in later : GonOrder(k) <= GonOrder(j)
<1>1. kong = IF CanGonNow(hand, triplets, card) /\ GoodGon(bag, card) THEN card
             ELSE IF later = {} THEN NoTile ELSE least
  BY Zenon DEF GonOrNot
<1>2. \A k \in Kinds : bag[k] = IF k = card /\ (~Suited(k) \/ hand[k] < 4)
                                THEN hand[k] + 1 ELSE hand[k]
  BY DEF Put
<1>3. \A k \in Kinds : GoodGon(bag, k) => bag[k] \in {1, 4}
  BY DEF GoodGon
<1> HIDE DEF bag
<1>4. CASE CanGonNow(hand, triplets, card) /\ GoodGon(bag, card)
  <2>1. kong = card /\ GoodGon(bag, card) /\ bag[card] \in {1, 4} /\ hand[card] \in 0..4
    BY <1>1, <1>3, <1>4
  <2>2. bag[card] = 1 => card \in triplets
    BY <2>1, <1>2, <1>4 DEF CanGonNow
  <2> QED BY <2>1, <2>2 DEF bag
<1>5. CASE ~(CanGonNow(hand, triplets, card) /\ GoodGon(bag, card)) /\ later # {}
  <2> DEFINE f == [k \in later |-> GonOrder(k)]
  <2>1. f \in [later -> Nat]
    <3>1. \A k \in later : GonOrder(k) \in Nat
      BY KindIs DEF GonOrder
    <3> HIDE DEF later
    <3> QED BY <3>1
  <2>2. PICK k \in later : \A j \in later : f[k] <= f[j]
    <3> HIDE DEF f, later
    <3> QED BY <1>5, <2>1, LeastRank
  <2>3. \A j \in later : GonOrder(k) <= GonOrder(j)
    <3> HIDE DEF later
    <3> QED BY <2>2
  <2>4. least \in later
    <3> HIDE DEF later
    <3> QED BY <2>3
  <2>5. kong = least
    <3> HIDE DEF later, least
    <3> QED BY <1>1, <1>5
  <2>6. /\ kong \in Kinds /\ CanGonLater(hand, triplets, kong)
        /\ GoodGon(bag, kong) /\ bag[kong] \in {1, 4}
    <3> HIDE DEF least
    <3> QED BY <2>4, <2>5, <1>3
  <2>7. bag[kong] = 1 => kong \in triplets
    BY <2>6, <1>2 DEF CanGonLater
  <2> QED BY <2>6, <2>7 DEF bag
<1>6. CASE ~(CanGonNow(hand, triplets, card) /\ GoodGon(bag, card)) /\ later = {}
  BY <1>1, <1>6
<1> QED BY <1>4, <1>5, <1>6

(* WannaHuGon names a kind, with one of the four answers, or no tile; it   *)
(* takes every win.                                                        *)
LEMMA OwnAnswerIs ==
  ASSUME NEW hand \in [Kinds -> 0..4], NEW away \in [Kinds -> 0..4],
         NEW triplets, triplets \subseteq Kinds,
         NEW can, NEW card \in Kinds,
         NEW cmd, cmd = WannaHuGon(hand, away, triplets, can, card)
  PROVE  /\ \/ cmd[2] = NoTile
            \/ /\ cmd[2] \in Kinds
               /\ \/ cmd[1] = "ZIMO" /\ "ZIMO" \in can
                  \/ cmd[1] = "ANGON" /\ Put(hand, card)[cmd[2]] = 4
                  \/ /\ cmd[1] = "PONGON" /\ Put(hand, card)[cmd[2]] = 1
                     /\ cmd[2] \in triplets
                  \/ cmd[1] = "NONE"
               /\ cmd[1] \in {"ANGON", "PONGON"} => GoodGon(Put(hand, card), cmd[2])
         /\ cmd[1] # "ZIMO" => "ZIMO" \notin can
         /\ cmd[2] = NoTile => cmd[1] # "ZIMO" /\ Throw(Plus(hand, card), away) = NoTile
<1> DEFINE kong == IF can \cap {"ANGON", "PONGON"} # {}
                   THEN GonOrNot(hand, triplets, card) ELSE NoTile
           tile == Throw(Plus(hand, card), away)
<1>1. cmd = IF "ZIMO" \in can THEN <<"ZIMO", card>>
            ELSE IF kong # NoTile
            THEN <<IF Put(hand, card)[kong] = 1 THEN "PONGON" ELSE "ANGON", kong>>
            ELSE <<"NONE", tile>>
  BY DEF WannaHuGon
<1>2. \/ kong = NoTile
      \/ /\ kong \in Kinds /\ GoodGon(Put(hand, card), kong)
         /\ \/ Put(hand, card)[kong] = 4
            \/ Put(hand, card)[kong] = 1 /\ kong \in triplets
  BY GonIs
<1>3. tile = NoTile \/ tile \in Kinds
  <2>1. Plus(hand, card) \in [Kinds -> Nat] /\ away \in [Kinds -> Nat]
    BY DEF Plus
  <2> QED BY <2>1, ThrowIs, Zenon
<1>4. card # NoTile
  BY KindIs
<1> HIDE DEF kong, tile
<1>5. cmd[2] = NoTile => cmd[1] # "ZIMO" /\ tile = NoTile
  BY <1>1, <1>2, <1>4
<1>6. cmd[1] # "ZIMO" => "ZIMO" \notin can
  BY <1>1
<1>7. \/ cmd[2] = NoTile
      \/ /\ cmd[2] \in Kinds
         /\ \/ cmd[1] = "ZIMO" /\ "ZIMO" \in can
            \/ cmd[1] = "ANGON" /\ Put(hand, card)[cmd[2]] = 4
            \/ /\ cmd[1] = "PONGON" /\ Put(hand, card)[cmd[2]] = 1
               /\ cmd[2] \in triplets
            \/ cmd[1] = "NONE"
         /\ cmd[1] \in {"ANGON", "PONGON"} => GoodGon(Put(hand, card), cmd[2])
  BY <1>1, <1>2, <1>3
<1> QED BY <1>5, <1>6, <1>7 DEF tile
=============================================================================
