--------------------------- MODULE MJCardsProofs ----------------------------
(***************************************************************************)
(* Proofs that struct MJCards counts tiles: for any kinds of the game, the *)
(* packed words implement TileBag and hold nothing but the counts.         *)
(*                                                                         *)
(* The invariant is that each word is the sum of its kinds' digits (Packs).*)
(* A digit can be read back from such a sum (Read), so that replacing,     *)
(* adding or taking away digits that fit does to the counts what it says   *)
(* (Change, OneMore, OneLess, NoneLeft, Sum, Difference).  The lemmas'     *)
(* hypotheses are bundled in predicates, which the steps then cite whole.  *)
(***************************************************************************)
EXTENDS MJCards, FiniteSetTheorems, TLAPS

-----------------------------------------------------------------------------
(* Digits.                                                                 *)

(* The largest digit of a color's word.                                    *)
Top(color) == IF color = 5 THEN 1 ELSE 7
(* Nine digits to the base 8.                                              *)
Octits(a0, a1, a2, a3, a4, a5, a6, a7, a8) ==
  a0 \in 0..7 /\ a1 \in 0..7 /\ a2 \in 0..7 /\ a3 \in 0..7
    /\ a4 \in 0..7 /\ a5 \in 0..7 /\ a6 \in 0..7 /\ a7 \in 0..7 /\ a8 \in 0..7

(* The digits of a number written to the base 8 are the ones it is written *)
(* with.                                                                   *)
LEMMA OctalDigits ==
  ASSUME NEW a0, NEW a1, NEW a2, NEW a3, NEW a4, NEW a5, NEW a6, NEW a7, NEW a8,
         Octits(a0, a1, a2, a3, a4, a5, a6, a7, a8)
  PROVE  /\ Bits(OctalWord(a0, a1, a2, a3, a4, a5, a6, a7, a8), 1, 8) = a0
         /\ Bits(OctalWord(a0, a1, a2, a3, a4, a5, a6, a7, a8), 8, 8) = a1
         /\ Bits(OctalWord(a0, a1, a2, a3, a4, a5, a6, a7, a8), 64, 8) = a2
         /\ Bits(OctalWord(a0, a1, a2, a3, a4, a5, a6, a7, a8), 512, 8) = a3
         /\ Bits(OctalWord(a0, a1, a2, a3, a4, a5, a6, a7, a8), 4096, 8) = a4
         /\ Bits(OctalWord(a0, a1, a2, a3, a4, a5, a6, a7, a8), 32768, 8) = a5
         /\ Bits(OctalWord(a0, a1, a2, a3, a4, a5, a6, a7, a8), 262144, 8) = a6
         /\ Bits(OctalWord(a0, a1, a2, a3, a4, a5, a6, a7, a8), 2097152, 8) = a7
         /\ Bits(OctalWord(a0, a1, a2, a3, a4, a5, a6, a7, a8), 16777216, 8) = a8
<1> DEFINE w == OctalWord(a0, a1, a2, a3, a4, a5, a6, a7, a8)
<1>. USE DEF Octits
<1>. w = a0 + 8 * a1 + 64 * a2 + 512 * a3 + 4096 * a4 + 32768 * a5 +
           262144 * a6 + 2097152 * a7 + 16777216 * a8
  BY DEF OctalWord
<1> HIDE DEF w
<1>0. Bits(w, 1, 8) = a0
  <2>1. w \div 1 = a0 + 8 * (a1 + 8 * a2 + 64 * a3 + 512 * a4 + 4096 * a5 +
              32768 * a6 + 262144 * a7 + 2097152 * a8)
    OBVIOUS
  <2>. QED
    BY <2>1 DEF Bits
<1>1. Bits(w, 8, 8) = a1
  <2>1. w \div 8 = a1 + 8 * (a2 + 8 * a3 + 64 * a4 + 512 * a5 + 4096 * a6 +
              32768 * a7 + 262144 * a8)
    OBVIOUS
  <2>. QED
    BY <2>1 DEF Bits
<1>2. Bits(w, 64, 8) = a2
  <2>1. w \div 64 = a2 + 8 * (a3 + 8 * a4 + 64 * a5 + 512 * a6 + 4096 * a7 +
              32768 * a8)
    OBVIOUS
  <2>. QED
    BY <2>1 DEF Bits
<1>3. Bits(w, 512, 8) = a3
  <2>1. w \div 512 = a3 + 8 * (a4 + 8 * a5 + 64 * a6 + 512 * a7 + 4096 * a8)
    OBVIOUS
  <2>. QED
    BY <2>1 DEF Bits
<1>4. Bits(w, 4096, 8) = a4
  <2>1. w \div 4096 = a4 + 8 * (a5 + 8 * a6 + 64 * a7 + 512 * a8)
    OBVIOUS
  <2>. QED
    BY <2>1 DEF Bits
<1>5. Bits(w, 32768, 8) = a5
  <2>1. w \div 32768 = a5 + 8 * (a6 + 8 * a7 + 64 * a8)
    OBVIOUS
  <2>. QED
    BY <2>1 DEF Bits
<1>6. Bits(w, 262144, 8) = a6
  <2>1. w \div 262144 = a6 + 8 * (a7 + 8 * a8)
    OBVIOUS
  <2>. QED
    BY <2>1 DEF Bits
<1>7. Bits(w, 2097152, 8) = a7
  <2>1. w \div 2097152 = a7 + 8 * a8
    OBVIOUS
  <2>. QED
    BY <2>1 DEF Bits
<1>8. Bits(w, 16777216, 8) = a8
  <2>1. w \div 16777216 = a8
    OBVIOUS
  <2>. QED
    BY <2>1 DEF Bits
<1>. QED
  BY <1>0, <1>1, <1>2, <1>3, <1>4, <1>5, <1>6, <1>7, <1>8 DEF w

(* Eight digits to the base 2, and the same of them.                       *)
Bools(a0, a1, a2, a3, a4, a5, a6, a7) ==
  a0 \in 0..1 /\ a1 \in 0..1 /\ a2 \in 0..1 /\ a3 \in 0..1
    /\ a4 \in 0..1 /\ a5 \in 0..1 /\ a6 \in 0..1 /\ a7 \in 0..1

(* The digits of a number written to the base 2.                           *)
LEMMA FlagDigits ==
  ASSUME NEW a0, NEW a1, NEW a2, NEW a3, NEW a4, NEW a5, NEW a6, NEW a7,
         Bools(a0, a1, a2, a3, a4, a5, a6, a7)
  PROVE  /\ Bits(FlagWord(a0, a1, a2, a3, a4, a5, a6, a7), 1, 2) = a0
         /\ Bits(FlagWord(a0, a1, a2, a3, a4, a5, a6, a7), 2, 2) = a1
         /\ Bits(FlagWord(a0, a1, a2, a3, a4, a5, a6, a7), 4, 2) = a2
         /\ Bits(FlagWord(a0, a1, a2, a3, a4, a5, a6, a7), 8, 2) = a3
         /\ Bits(FlagWord(a0, a1, a2, a3, a4, a5, a6, a7), 16, 2) = a4
         /\ Bits(FlagWord(a0, a1, a2, a3, a4, a5, a6, a7), 32, 2) = a5
         /\ Bits(FlagWord(a0, a1, a2, a3, a4, a5, a6, a7), 64, 2) = a6
         /\ Bits(FlagWord(a0, a1, a2, a3, a4, a5, a6, a7), 128, 2) = a7
<1> DEFINE w == FlagWord(a0, a1, a2, a3, a4, a5, a6, a7)
<1>. USE DEF Bools
<1>. w = a0 + 2 * a1 + 4 * a2 + 8 * a3 + 16 * a4 + 32 * a5 + 64 * a6 +
           128 * a7
  BY DEF FlagWord
<1> HIDE DEF w
<1>0. Bits(w, 1, 2) = a0
  <2>1. w \div 1 = a0 + 2 * (a1 + 2 * a2 + 4 * a3 + 8 * a4 + 16 * a5 + 32 * a6
              + 64 * a7)
    OBVIOUS
  <2>. QED
    BY <2>1 DEF Bits
<1>1. Bits(w, 2, 2) = a1
  <2>1. w \div 2 = a1 + 2 * (a2 + 2 * a3 + 4 * a4 + 8 * a5 + 16 * a6 + 32 * a7)
    OBVIOUS
  <2>. QED
    BY <2>1 DEF Bits
<1>2. Bits(w, 4, 2) = a2
  <2>1. w \div 4 = a2 + 2 * (a3 + 2 * a4 + 4 * a5 + 8 * a6 + 16 * a7)
    OBVIOUS
  <2>. QED
    BY <2>1 DEF Bits
<1>3. Bits(w, 8, 2) = a3
  <2>1. w \div 8 = a3 + 2 * (a4 + 2 * a5 + 4 * a6 + 8 * a7)
    OBVIOUS
  <2>. QED
    BY <2>1 DEF Bits
<1>4. Bits(w, 16, 2) = a4
  <2>1. w \div 16 = a4 + 2 * (a5 + 2 * a6 + 4 * a7)
    OBVIOUS
  <2>. QED
    BY <2>1 DEF Bits
<1>5. Bits(w, 32, 2) = a5
  <2>1. w \div 32 = a5 + 2 * (a6 + 2 * a7)
    OBVIOUS
  <2>. QED
    BY <2>1 DEF Bits
<1>6. Bits(w, 64, 2) = a6
  <2>1. w \div 64 = a6 + 2 * a7
    OBVIOUS
  <2>. QED
    BY <2>1 DEF Bits
<1>7. Bits(w, 128, 2) = a7
  <2>1. w \div 128 = a7
    OBVIOUS
  <2>. QED
    BY <2>1 DEF Bits
<1>. QED
  BY <1>0, <1>1, <1>2, <1>3, <1>4, <1>5, <1>6, <1>7 DEF w

(* A kind's counter, in a word that is written as a sum of digits.         *)
LEMMA Read ==
  ASSUME NEW color \in 0..5, NEW d \in [0..8 -> 0..Top(color)],
         NEW v \in Values(color)
  PROVE  Bits(Word(color, d), Unit(<<color, v>>), Radix(<<color, v>>)) = d[v]
<1>1. CASE color = 5
  <2>1. Bools(d[0], d[1], d[2], d[3], d[4], d[5], d[6], d[7])
    BY <1>1 DEF Top, Bools
  <2>2. Word(color, d) =
          FlagWord(d[0], d[1], d[2], d[3], d[4], d[5], d[6], d[7])
    BY <1>1 DEF Word
  <2>3. /\ Bits(Word(color, d), 1, 2) = d[0]
        /\ Bits(Word(color, d), 2, 2) = d[1]
        /\ Bits(Word(color, d), 4, 2) = d[2]
        /\ Bits(Word(color, d), 8, 2) = d[3]
        /\ Bits(Word(color, d), 16, 2) = d[4]
        /\ Bits(Word(color, d), 32, 2) = d[5]
        /\ Bits(Word(color, d), 64, 2) = d[6]
        /\ Bits(Word(color, d), 128, 2) = d[7]
    BY <2>1, <2>2, FlagDigits
  <2>4. v \in 0..7 /\ Unit(<<color, v>>) = Flag[v + 1] /\ Radix(<<color, v>>) = 2
    BY <1>1 DEF Values, Highest, Unit, Radix, Flower
  <2>5. Bits(Word(color, d), Flag[v + 1], 2) = d[v]
    BY <2>3, <2>4 DEF Flag
  <2>. QED
    BY <2>4, <2>5
<1>2. CASE color # 5
  <2>1. Octits(d[0], d[1], d[2], d[3], d[4], d[5], d[6], d[7], d[8])
    BY <1>2 DEF Top, Octits
  <2>2. Word(color, d) =
          OctalWord(d[0], d[1], d[2], d[3], d[4], d[5], d[6], d[7], d[8])
    BY <1>2 DEF Word
  <2>3. /\ Bits(Word(color, d), 1, 8) = d[0]
        /\ Bits(Word(color, d), 8, 8) = d[1]
        /\ Bits(Word(color, d), 64, 8) = d[2]
        /\ Bits(Word(color, d), 512, 8) = d[3]
        /\ Bits(Word(color, d), 4096, 8) = d[4]
        /\ Bits(Word(color, d), 32768, 8) = d[5]
        /\ Bits(Word(color, d), 262144, 8) = d[6]
        /\ Bits(Word(color, d), 2097152, 8) = d[7]
        /\ Bits(Word(color, d), 16777216, 8) = d[8]
    BY <2>1, <2>2, OctalDigits
  <2>4. v \in 0..8 /\ Unit(<<color, v>>) = Octal[v + 1] /\ Radix(<<color, v>>) = 8
    BY <1>2 DEF Values, Highest, Unit, Radix, Flower
  <2>5. Bits(Word(color, d), Octal[v + 1], 8) = d[v]
    BY <2>3, <2>4 DEF Octal
  <2>. QED
    BY <2>4, <2>5
<1>. QED
  BY <1>1, <1>2

-----------------------------------------------------------------------------
(* Sets of tiles.                                                          *)

(* A set whose words are nothing but the digits of its kinds.              *)
Packs(set) ==
  /\ set \in [0..5 -> Int]
  /\ \A color \in 0..5 : set[color] = Word(color, Digits(set, color))

(* The digits that the word of a color may have.                           *)
Fits(color, d) ==
  /\ d \in [0..8 -> 0..Top(color)]
  /\ \A v \in 0..8 : <<color, v>> \notin Kinds => d[v] = 0

(* Each kind has a place in its color's word.                              *)
LEMMA KindFacts ==
  ASSUME NEW k \in Kinds
  PROVE  /\ k = <<k[1], k[2]>>
         /\ k[1] \in 0..5 /\ k[2] \in Values(k[1]) /\ k[2] \in 0..8
         /\ Flower(k) <=> k[1] = 5
<1>1. PICK color \in 0..5 : k \in {color} \X Values(color)
  BY KindsAssumption, SMT
<1>2. Values(color) \subseteq 0..8
  BY DEF Values, Highest
<1>. QED
  BY <1>1, <1>2 DEF Flower

(* The digits of a set fit, and a set is made of them.                     *)
LEMMA DigitsFit ==
  ASSUME NEW set, Packs(set), NEW color \in 0..5
  PROVE  /\ Fits(color, Digits(set, color))
         /\ set[color] = Word(color, Digits(set, color))
<1>1. \A k \in Kinds : k[1] = color => Number(set, k) \in 0..Top(color)
  <2>. SUFFICES ASSUME NEW k \in Kinds, k[1] = color
                PROVE  Number(set, k) \in 0..Top(color)
    OBVIOUS
  <2>1. set[color] \in Int /\ Unit(k) \in Nat /\ Unit(k) > 0
    BY KindFacts DEF Packs, Unit, Flag, Octal, Values, Highest
  <2>2. set[color] \div Unit(k) \in Int
    BY <2>1
  <2>3. Radix(k) = Top(color) + 1 /\ Top(color) \in {1, 7}
    BY KindFacts DEF Radix, Top
  <2>. QED
    BY <2>2, <2>3 DEF Number, Bits
<1>2. \A v \in 0..8 : Digits(set, color)[v] \in 0..Top(color)
  BY <1>1 DEF Digits, Top
<1>. QED
  BY <1>2 DEF Fits, Digits, Packs

(* A word is an integer, and a sum of digits: it is added digit by digit.  *)
LEMMA Linear ==
  ASSUME NEW color \in 0..5, NEW d \in [0..8 -> Int], NEW e \in [0..8 -> Int],
         NEW s \in [0..8 -> Int]
  PROVE  /\ Word(color, d) \in Int
         /\ (\A v \in 0..8 : s[v] = d[v] + e[v]) =>
              Word(color, s) = Word(color, d) + Word(color, e)
<1>1. \A v \in 0..8 : d[v] \in Int /\ e[v] \in Int
  OBVIOUS
<1>. QED
  BY <1>1 DEF Word, OctalWord, FlagWord

(* Digits that fit are integers.                                           *)
LEMMA FitsInt ==
  ASSUME NEW color \in 0..5, NEW d, Fits(color, d)
  PROVE  d \in [0..8 -> Int] /\ Word(color, d) \in Int
<1>1. d \in [0..8 -> Int]
  BY DEF Fits, Top
<1>. QED
  BY <1>1, Linear

(* A set differs from another in the word of one color; the word has       *)
(* digits d.                                                               *)
Differs(set, color, word, new) ==
  /\ new \in [0..5 -> Int]
  /\ new[color] = word
  /\ \A c \in 0..5 : c # color => new[c] = set[c]
Changed(set, color, d, new) ==
  Packs(set) /\ Fits(color, d) /\ Differs(set, color, Word(color, d), new)
(* ... in which only the digit of kind k is new.                           *)
ChangedAt(set, k, e, new) ==
  /\ Changed(set, k[1], e, new)
  /\ \A v \in 0..8 : v # k[2] => e[v] = Digits(set, k[1])[v]

(* One word of a set is replaced by the sum of other digits.               *)
LEMMA Change ==
  ASSUME NEW set, NEW color \in 0..5, NEW d, NEW new,
         Changed(set, color, d, new)
  PROVE  /\ Packs(new)
         /\ \A k \in Kinds : Number(new, k) =
              IF k[1] = color THEN d[k[2]] ELSE Number(set, k)
<1>. USE DEF Changed, Differs
<1>2. \A k \in Kinds : Number(new, k) =
                         IF k[1] = color THEN d[k[2]] ELSE Number(set, k)
  <2>. SUFFICES ASSUME NEW k \in Kinds
                PROVE  Number(new, k) =
                         IF k[1] = color THEN d[k[2]] ELSE Number(set, k)
    OBVIOUS
  <2>1. CASE k[1] = color
    BY <2>1, KindFacts, Read DEF Number, Fits
  <2>2. CASE k[1] # color
    BY <2>2, KindFacts DEF Number
  <2>. QED
    BY <2>1, <2>2
<1>3. Digits(new, color) = d
  BY <1>2 DEF Digits, Fits
<1>4. \A c \in 0..5 : c # color => Digits(new, c) = Digits(set, c)
  BY <1>2 DEF Digits
<1>5. \A c \in 0..5 : new[c] = Word(c, Digits(new, c))
  BY <1>3, <1>4 DEF Packs
<1>. QED
  BY <1>2, <1>5 DEF Packs

(* One counter of a set is given another number.                           *)
LEMMA ChangeOne ==
  ASSUME NEW set, NEW k \in Kinds, NEW e, NEW new,
         ChangedAt(set, k, e, new)
  PROVE  /\ Packs(new)
         /\ Unpack(new) = [Unpack(set) EXCEPT ![k] = e[k[2]]]
<1>1. /\ k = <<k[1], k[2]>> /\ k[1] \in 0..5 /\ k[2] \in 0..8
  BY KindFacts
<1>2. /\ Packs(new)
      /\ \A j \in Kinds : Number(new, j) =
           IF j[1] = k[1] THEN e[j[2]] ELSE Number(set, j)
  BY <1>1, Change DEF ChangedAt
<1>3. ASSUME NEW j \in Kinds
      PROVE  Number(new, j) = IF j = k THEN e[k[2]] ELSE Number(set, j)
  <2>1. j = <<j[1], j[2]>> /\ j[1] \in 0..5 /\ j[2] \in 0..8
    BY KindFacts
  <2>2. CASE j[1] # k[1]
    BY <2>2, <1>2
  <2>3. CASE j[1] = k[1] /\ j[2] = k[2]
    BY <2>1, <2>3, <1>1, <1>2
  <2>4. CASE j[1] = k[1] /\ j[2] # k[2]
    <3>1. Digits(set, k[1])[j[2]] = Number(set, j)
      BY <2>1, <2>4 DEF Digits
    <3>. QED
      BY <2>1, <2>4, <3>1, <1>2 DEF ChangedAt
  <2>. QED
    BY <2>2, <2>3, <2>4
<1>4. Unpack(new) = [Unpack(set) EXCEPT ![k] = e[k[2]]]
  BY <1>3 DEF Unpack
<1>. QED
  BY <1>2, <1>4

(* A digit one higher makes the word one unit more.                        *)
LEMMA UnitMore ==
  ASSUME NEW color \in 0..5, NEW d \in [0..8 -> Int], NEW e \in [0..8 -> Int],
         NEW v \in Values(color), e[v] = d[v] + 1,
         \A i \in 0..8 : i # v => e[i] = d[i]
  PROVE  Word(color, e) = Word(color, d) + Unit(<<color, v>>)
<1>1. CASE color = 5
  <2>1. v \in 0..7 /\ Unit(<<color, v>>) = Flag[v + 1]
    BY <1>1 DEF Values, Highest, Unit, Flower
  <2>2. FlagWord(e[0], e[1], e[2], e[3], e[4], e[5], e[6], e[7])
          = FlagWord(d[0], d[1], d[2], d[3], d[4], d[5], d[6], d[7]) + Flag[v + 1]
    BY <2>1 DEF FlagWord, Flag
  <2>. QED
    BY <1>1, <2>1, <2>2 DEF Word
<1>2. CASE color # 5
  <2>1. v \in 0..8 /\ Unit(<<color, v>>) = Octal[v + 1]
    BY <1>2 DEF Values, Highest, Unit, Flower
  <2>2. OctalWord(e[0], e[1], e[2], e[3], e[4], e[5], e[6], e[7], e[8])
          = OctalWord(d[0], d[1], d[2], d[3], d[4], d[5], d[6], d[7], d[8])
              + Octal[v + 1]
    BY <2>1 DEF OctalWord, Octal
  <2>. QED
    BY <1>2, <2>1, <2>2 DEF Word
<1>. QED
  BY <1>1, <1>2

(* A tile more, where the counter has room for it.                         *)
LEMMA OneMore ==
  ASSUME NEW set, Packs(set), NEW k \in Kinds, Number(set, k) < Top(k[1]),
         NEW new, Differs(set, k[1], set[k[1]] + Unit(k), new)
  PROVE  Packs(new) /\ Unpack(new) = [Unpack(set) EXCEPT ![k] = @ + 1]
<1> DEFINE d == Digits(set, k[1])
           e == [d EXCEPT ![k[2]] = @ + 1]
<1>1. /\ k = <<k[1], k[2]>> /\ k[1] \in 0..5
      /\ k[2] \in Values(k[1]) /\ k[2] \in 0..8
  BY KindFacts
<1>2. /\ Fits(k[1], d) /\ set[k[1]] = Word(k[1], d)
      /\ d[k[2]] = Number(set, k)
  BY <1>1, DigitsFit DEF Digits
<1>3. \A v \in 0..8 : v # k[2] => e[v] = Digits(set, k[1])[v]
  BY <1>2 DEF Fits
<1> HIDE DEF d
<1>4. Fits(k[1], e) /\ e[k[2]] = Number(set, k) + 1
  BY <1>1, <1>2 DEF Fits, Top
<1>5. \A v \in 0..8 : v # k[2] => e[v] = d[v]
  BY <1>2 DEF Fits
<1> HIDE DEF e
<1>6. d \in [0..8 -> Int] /\ e \in [0..8 -> Int]
  BY <1>1, <1>2, <1>4, FitsInt
<1>7. Word(k[1], e) = Word(k[1], d) + Unit(k)
  BY <1>1, <1>2, <1>4, <1>5, <1>6, UnitMore
<1>8. ChangedAt(set, k, e, new)
  BY <1>2, <1>3, <1>4, <1>7 DEF Changed, ChangedAt
<1>9. Packs(new) /\ Unpack(new) = [Unpack(set) EXCEPT ![k] = e[k[2]]]
  BY <1>8, ChangeOne
<1>10. e[k[2]] = Unpack(set)[k] + 1
  BY <1>4 DEF Unpack
<1>. QED
  BY <1>9, <1>10

(* A tile less, where there is one.                                        *)
LEMMA OneLess ==
  ASSUME NEW set, Packs(set), NEW k \in Kinds, Number(set, k) # 0,
         NEW new, Differs(set, k[1], set[k[1]] - Unit(k), new)
  PROVE  Packs(new) /\ Unpack(new) = [Unpack(set) EXCEPT ![k] = @ - 1]
<1> DEFINE d == Digits(set, k[1])
           e == [d EXCEPT ![k[2]] = @ - 1]
<1>1. /\ k = <<k[1], k[2]>> /\ k[1] \in 0..5
      /\ k[2] \in Values(k[1]) /\ k[2] \in 0..8
  BY KindFacts
<1>2. /\ Fits(k[1], d) /\ set[k[1]] = Word(k[1], d)
      /\ d[k[2]] = Number(set, k)
  BY <1>1, DigitsFit DEF Digits
<1>3. \A v \in 0..8 : v # k[2] => e[v] = Digits(set, k[1])[v]
  BY <1>2 DEF Fits
<1> HIDE DEF d
<1>4. Fits(k[1], e) /\ e[k[2]] = Number(set, k) - 1
  BY <1>1, <1>2 DEF Fits, Top
<1>5. \A v \in 0..8 : v # k[2] => e[v] = d[v]
  BY <1>2 DEF Fits
<1> HIDE DEF e
<1>6. d \in [0..8 -> Int] /\ e \in [0..8 -> Int]
  BY <1>1, <1>2, <1>4, FitsInt
<1>7. Word(k[1], e) = Word(k[1], d) - Unit(k)
  <2>1. Word(k[1], d) = Word(k[1], e) + Unit(k)
    <3>1. d[k[2]] = e[k[2]] + 1
      BY <1>1, <1>2, <1>4, <1>6
    <3>. QED
      BY <3>1, <1>1, <1>5, <1>6, UnitMore
  <2>2. Unit(k) \in Int
    BY <1>1 DEF Unit, Flag, Octal, Values, Highest, Flower
  <2>3. Word(k[1], d) \in Int /\ Word(k[1], e) \in Int
    BY <1>1, <1>6, Linear
  <2>. QED
    BY <2>1, <2>2, <2>3
<1>8. ChangedAt(set, k, e, new)
  BY <1>2, <1>3, <1>4, <1>7 DEF Changed, ChangedAt
<1>9. Packs(new) /\ Unpack(new) = [Unpack(set) EXCEPT ![k] = e[k[2]]]
  BY <1>8, ChangeOne
<1>. QED
  BY <1>4, <1>9 DEF Unpack

(* The word of a color is cleared.                                         *)
LEMMA NoneLeft ==
  ASSUME NEW set, Packs(set), NEW color \in 0..5,
         NEW new, Differs(set, color, 0, new)
  PROVE  /\ Packs(new)
         /\ Unpack(new) = [k \in Kinds |->
              IF k[1] = color THEN 0 ELSE Unpack(set)[k]]
<1> DEFINE d == [v \in 0..8 |-> 0]
<1>1. Fits(color, d)
  BY DEF Fits, Top
<1>2. Word(color, d) = 0
  BY DEF Word, OctalWord, FlagWord
<1>3. \A k \in Kinds : d[k[2]] = 0
  BY KindFacts
<1> HIDE DEF d
<1>4. Changed(set, color, d, new)
  BY <1>1, <1>2 DEF Changed
<1>5. /\ Packs(new)
      /\ \A k \in Kinds : Number(new, k) =
           IF k[1] = color THEN d[k[2]] ELSE Number(set, k)
  BY <1>4, Change
<1>. QED
  BY <1>3, <1>5 DEF Unpack

(* A set that is made, word by word, of digits that fit.                   *)
LEMMA Made ==
  ASSUME NEW new, NEW d, new \in [0..5 -> Int],
         \A color \in 0..5 : /\ Fits(color, d[color])
                             /\ new[color] = Word(color, d[color])
  PROVE  /\ Packs(new)
         /\ \A k \in Kinds : Number(new, k) = d[k[1]][k[2]]
<1>1. \A k \in Kinds : Number(new, k) = d[k[1]][k[2]]
  <2>. SUFFICES ASSUME NEW k \in Kinds
                PROVE  Number(new, k) = d[k[1]][k[2]]
    OBVIOUS
  <2>. QED
    BY KindFacts, Read DEF Number, Fits
<1>2. ASSUME NEW color \in 0..5
      PROVE  Digits(new, color) = d[color]
  <2>1. \A v \in 0..8 : <<color, v>> \in Kinds =>
          Number(new, <<color, v>>) = d[color][v]
    BY <1>1
  <2>. QED
    BY <2>1 DEF Digits, Fits
<1>3. \A color \in 0..5 : new[color] = Word(color, Digits(new, color))
  BY <1>2
<1>. QED
  BY <1>1, <1>3 DEF Packs

(* The sum of two sets, where each counter has room for both.              *)
LEMMA Sum ==
  ASSUME NEW set, Packs(set), NEW more, Packs(more),
         \A k \in Kinds : Number(set, k) + Number(more, k) <= Top(k[1])
  PROVE  /\ Packs(AddAll(set, more))
         /\ \A k \in Kinds : Number(AddAll(set, more), k)
                               = Number(set, k) + Number(more, k)
<1> DEFINE d == [c \in 0..5 |-> [v \in 0..8 |->
                   Digits(set, c)[v] + Digits(more, c)[v]]]
<1>1. ASSUME NEW color \in 0..5
      PROVE  /\ Fits(color, d[color])
             /\ AddAll(set, more)[color] = Word(color, d[color])
             /\ AddAll(set, more)[color] \in Int
  <2> DEFINE a == Digits(set, color)
             b == Digits(more, color)
             s == [v \in 0..8 |-> a[v] + b[v]]
  <2>1. /\ Fits(color, a) /\ set[color] = Word(color, a)
        /\ Fits(color, b) /\ more[color] = Word(color, b)
    BY DigitsFit
  <2>2. \A v \in 0..8 : <<color, v>> \in Kinds => a[v] + b[v] <= Top(color)
    BY DEF Digits
  <2>3. d[color] = s
    OBVIOUS
  <2> HIDE DEF a, b, d
  <2>4. Fits(color, s)
    BY <2>1, <2>2 DEF Fits, Top
  <2>5. \A v \in 0..8 : s[v] = a[v] + b[v]
    OBVIOUS
  <2> HIDE DEF s
  <2>6. /\ a \in [0..8 -> Int] /\ b \in [0..8 -> Int] /\ s \in [0..8 -> Int]
        /\ Word(color, s) \in Int
    BY <2>1, <2>4, FitsInt
  <2>7. Word(color, s) = Word(color, a) + Word(color, b)
    BY <2>5, <2>6, Linear
  <2>. QED
    BY <2>1, <2>3, <2>4, <2>6, <2>7 DEF AddAll
<1>2. AddAll(set, more) \in [0..5 -> Int]
  BY <1>1 DEF AddAll
<1>3. \A k \in Kinds : d[k[1]][k[2]] = Number(set, k) + Number(more, k)
  BY KindFacts DEF Digits
<1> HIDE DEF d
<1>4. /\ Packs(AddAll(set, more))
      /\ \A k \in Kinds : Number(AddAll(set, more), k) = d[k[1]][k[2]]
  BY <1>1, <1>2, Made
<1>. QED
  BY <1>3, <1>4

(* The difference of two sets, where each counter of the first has the     *)
(* second's.                                                               *)
LEMMA Difference ==
  ASSUME NEW set, Packs(set), NEW less, Packs(less),
         \A k \in Kinds : Number(less, k) <= Number(set, k)
  PROVE  /\ Packs(SubtractAll(set, less))
         /\ \A k \in Kinds : Number(SubtractAll(set, less), k)
                               = Number(set, k) - Number(less, k)
<1> DEFINE d == [c \in 0..5 |-> [v \in 0..8 |->
                   Digits(set, c)[v] - Digits(less, c)[v]]]
<1>1. ASSUME NEW color \in 0..5
      PROVE  /\ Fits(color, d[color])
             /\ SubtractAll(set, less)[color] = Word(color, d[color])
             /\ SubtractAll(set, less)[color] \in Int
  <2> DEFINE a == Digits(set, color)
             b == Digits(less, color)
             s == [v \in 0..8 |-> a[v] - b[v]]
  <2>1. /\ Fits(color, a) /\ set[color] = Word(color, a)
        /\ Fits(color, b) /\ less[color] = Word(color, b)
    BY DigitsFit
  <2>2. \A v \in 0..8 : <<color, v>> \in Kinds => b[v] <= a[v]
    BY DEF Digits
  <2>3. d[color] = s
    OBVIOUS
  <2> HIDE DEF a, b, d
  <2>4. Fits(color, s)
    <3>1. \A v \in 0..8 : a[v] \in 0..Top(color) /\ b[v] \in 0..Top(color)
      BY <2>1 DEF Fits
    <3>2. \A v \in 0..8 : b[v] <= a[v]
      BY <2>1, <2>2, <3>1 DEF Fits, Top
    <3>3. \A v \in 0..8 : s[v] \in 0..Top(color)
      BY <3>1, <3>2 DEF Top
    <3>. QED
      BY <2>1, <3>3 DEF Fits
  <2>5. \A v \in 0..8 : s[v] = a[v] - b[v]
    OBVIOUS
  <2> HIDE DEF s
  <2>6. /\ a \in [0..8 -> Int] /\ b \in [0..8 -> Int] /\ s \in [0..8 -> Int]
        /\ Word(color, s) \in Int
    BY <2>1, <2>4, FitsInt
  <2>7. Word(color, s) = Word(color, a) - Word(color, b)
    <3>1. \A v \in 0..8 : a[v] = s[v] + b[v]
      BY <2>5, <2>6
    <3>2. Word(color, a) = Word(color, s) + Word(color, b)
      BY <2>6, <3>1, Linear
    <3>. QED
      BY <2>6, <3>2, Linear
  <2>. QED
    BY <2>1, <2>3, <2>4, <2>6, <2>7 DEF SubtractAll
<1>2. SubtractAll(set, less) \in [0..5 -> Int]
  BY <1>1 DEF SubtractAll
<1>3. \A k \in Kinds : d[k[1]][k[2]] = Number(set, k) - Number(less, k)
  BY KindFacts DEF Digits
<1> HIDE DEF d
<1>4. /\ Packs(SubtractAll(set, less))
      /\ \A k \in Kinds : Number(SubtractAll(set, less), k) = d[k[1]][k[2]]
  BY <1>1, <1>2, Made
<1>. QED
  BY <1>3, <1>4

(* An empty set is packed, and holds nothing.                              *)
LEMMA EmptyPacks ==
  Packs(Empty) /\ Unpack(Empty) = NoTiles
<1> DEFINE d == [c \in 0..5 |-> [v \in 0..8 |-> 0]]
<1>1. \A color \in 0..5 : Fits(color, d[color]) /\ Word(color, d[color]) = 0
  BY DEF Fits, Top, Word, OctalWord, FlagWord
<1>2. Empty \in [0..5 -> Int] /\ \A color \in 0..5 : Empty[color] = 0
  BY DEF Empty
<1>3. \A k \in Kinds : d[k[1]][k[2]] = 0
  BY KindFacts
<1> HIDE DEF d
<1>4. /\ Packs(Empty)
      /\ \A k \in Kinds : Number(Empty, k) = d[k[1]][k[2]]
  BY <1>1, <1>2, Made
<1>. QED
  BY <1>3, <1>4 DEF Unpack, NoTiles

-----------------------------------------------------------------------------
(* The tile at a place.                                                    *)

(* A set of digits' places has a lowest and a highest one.                 *)
LEMMA Lowest ==
  ASSUME NEW S \in SUBSET (0..8), S # {}
  PROVE  \E m \in S : \A x \in S : m <= x
<1>. SUFFICES ASSUME \A m \in S : \E x \in S : x < m
              PROVE  FALSE
  OBVIOUS
<1>1. PICK a \in S : TRUE
  OBVIOUS
<1>. \E x \in S : x <= 8
  BY <1>1
<1>. \E x \in S : x <= 7
  OBVIOUS
<1>. \E x \in S : x <= 6
  OBVIOUS
<1>. \E x \in S : x <= 5
  OBVIOUS
<1>. \E x \in S : x <= 4
  OBVIOUS
<1>. \E x \in S : x <= 3
  OBVIOUS
<1>. \E x \in S : x <= 2
  OBVIOUS
<1>. \E x \in S : x <= 1
  OBVIOUS
<1>. \E x \in S : x <= 0
  OBVIOUS
<1>. QED
  OBVIOUS

(* The same from above.                                                    *)
LEMMA Topmost ==
  ASSUME NEW S \in SUBSET (0..8), S # {}
  PROVE  \E m \in S : \A x \in S : x <= m
<1>. SUFFICES ASSUME \A m \in S : \E x \in S : x > m
              PROVE  FALSE
  OBVIOUS
<1>1. PICK a \in S : TRUE
  OBVIOUS
<1>. \E x \in S : x >= 0
  BY <1>1
<1>. \E x \in S : x >= 1
  OBVIOUS
<1>. \E x \in S : x >= 2
  OBVIOUS
<1>. \E x \in S : x >= 3
  OBVIOUS
<1>. \E x \in S : x >= 4
  OBVIOUS
<1>. \E x \in S : x >= 5
  OBVIOUS
<1>. \E x \in S : x >= 6
  OBVIOUS
<1>. \E x \in S : x >= 7
  OBVIOUS
<1>. \E x \in S : x >= 8
  OBVIOUS
<1>. QED
  OBVIOUS

(* There is a first and a last among some kinds.                           *)
LEMMA FirstIsOne ==
  ASSUME NEW ks \in SUBSET Kinds, ks # {}
  PROVE  First(ks) \in ks /\ \A j \in ks : ~Before(j, First(ks))
<1> DEFINE C == {k[1] : k \in ks}
<1>1. C \in SUBSET (0..8) /\ C # {}
  BY KindFacts
<1>2. PICK c \in C : \A x \in C : c <= x
  BY <1>1, Lowest
<1> DEFINE V == {k[2] : k \in {j \in ks : j[1] = c}}
<1>3. V \in SUBSET (0..8) /\ V # {}
  BY <1>2, KindFacts
<1>4. PICK v \in V : \A x \in V : v <= x
  BY <1>3, Lowest
<1>5. PICK k \in ks : k[1] = c /\ k[2] = v
  BY <1>4
<1>6. \A j \in ks : /\ j[1] \in 0..5 /\ j[2] \in 0..8 /\ c <= j[1]
                    /\ j[1] = c => v <= j[2]
  BY <1>2, <1>4, KindFacts
<1>7. \A j \in ks : ~Before(j, k)
  BY <1>5, <1>6 DEF Before
<1>. QED
  BY <1>7 DEF First

(* The same from the end.                                                  *)
LEMMA LastIsOne ==
  ASSUME NEW ks \in SUBSET Kinds, ks # {}
  PROVE  \E k \in ks : \A j \in ks : ~Before(k, j)
<1> DEFINE C == {k[1] : k \in ks}
<1>1. C \in SUBSET (0..8) /\ C # {}
  BY KindFacts
<1>2. PICK c \in C : \A x \in C : x <= c
  BY <1>1, Topmost
<1> DEFINE V == {k[2] : k \in {j \in ks : j[1] = c}}
<1>3. V \in SUBSET (0..8) /\ V # {}
  BY <1>2, KindFacts
<1>4. PICK v \in V : \A x \in V : x <= v
  BY <1>3, Topmost
<1>5. PICK k \in ks : k[1] = c /\ k[2] = v
  BY <1>4
<1>6. \A j \in ks : /\ j[1] \in 0..5 /\ j[2] \in 0..8 /\ j[1] <= c
                    /\ j[1] = c => j[2] <= v
  BY <1>2, <1>4, KindFacts
<1>7. \A j \in ks : ~Before(k, j)
  BY <1>5, <1>6 DEF Before
<1>. QED
  BY <1>7

(* Of no kinds there are no tiles.                                         *)
LEMMA NoTally ==
  ASSUME NEW set
  PROVE  Tally(set, {}) = 0
<1>1. TileByTile(set, {}) = {}
  BY DEF TileByTile
<1>. QED
  BY <1>1, FS_EmptySet DEF Tally

(* The last kind that the set has is reached from every place.             *)
LEMMA SomeReached ==
  ASSUME NEW set, Count(set) # 0, NEW idx, idx < Count(set)
  PROVE  {k \in Held(Unpack(set)) : UpTo(set, k) > idx} # {}
<1> DEFINE ks == Held(Unpack(set))
<1>1. ks \in SUBSET Kinds
  BY DEF Held
<1>2. ks # {}
  <2>1. Tally(set, {}) = 0
    BY NoTally
  <2>. QED
    BY <2>1 DEF Count
<1>3. PICK last \in ks : \A j \in ks : ~Before(last, j)
  BY <1>1, <1>2, LastIsOne
<1>4. {k \in ks : ~Before(last, k)} = ks
  BY <1>3
<1>5. UpTo(set, last) = Count(set)
  BY <1>4 DEF UpTo, Count
<1>. QED
  BY <1>3, <1>5

(* at() of a place before Count() is a kind of which the set has a tile.   *)
LEMMA AtIsHeld ==
  ASSUME NEW set, Count(set) # 0, NEW idx, idx < Count(set)
  PROVE  At(set, idx) \in Held(Unpack(set))
<1> DEFINE reached == {k \in Held(Unpack(set)) : UpTo(set, k) > idx}
<1>1. reached \in SUBSET Kinds /\ reached # {}
  BY SomeReached DEF Held
<1>. QED
  BY <1>1, FirstIsOne DEF At

(* What the lemmas about counting ask of a set.                            *)
Counts(set) == \A k \in Kinds : Number(set, k) \in 0..7

(* There are finitely many tiles.                                          *)
LEMMA TallyIsFinite ==
  ASSUME NEW set, Counts(set), NEW ks \in SUBSET Kinds
  PROVE  IsFiniteSet(TileByTile(set, ks)) /\ Tally(set, ks) \in Nat
<1> DEFINE all == ((0..5) \X (0..8)) \X (0..7)
<1>1. IsFiniteSet(0..5) /\ IsFiniteSet(0..8) /\ IsFiniteSet(0..7)
  <2>1. \A n \in Int : IsFiniteSet(0..n)
    BY FS_Interval
  <2>2. 5 \in Int /\ 8 \in Int /\ 7 \in Int
    OBVIOUS
  <2>. QED
    BY <2>1, <2>2, Zenon
<1>2. IsFiniteSet((0..5) \X (0..8))
  BY <1>1, FS_Product
<1>3. IsFiniteSet(all)
  BY <1>1, <1>2, FS_Product
<1>4. ASSUME NEW t \in TileByTile(set, ks)
      PROVE  t \in all
  <2>1. PICK k \in ks : t \in {k} \X (1..Number(set, k))
    BY DEF TileByTile
  <2>2. k \in (0..5) \X (0..8)
    BY KindFacts
  <2>3. Number(set, k) \in 0..7
    BY DEF Counts
  <2>. QED
    BY <2>1, <2>2, <2>3
<1>5. IsFiniteSet(TileByTile(set, ks))
  BY <1>3, <1>4, FS_Subset
<1>. QED
  BY <1>5, FS_CardinalityType DEF Tally

(* More kinds, no fewer tiles.                                             *)
LEMMA TallyGrows ==
  ASSUME NEW set, Counts(set), NEW js \in SUBSET Kinds, NEW ks \in SUBSET js
  PROVE  Tally(set, ks) <= Tally(set, js)
<1>1. IsFiniteSet(TileByTile(set, js))
  BY TallyIsFinite
<1>2. TileByTile(set, ks) \subseteq TileByTile(set, js)
  BY DEF TileByTile
<1>. QED
  BY <1>1, <1>2, FS_Subset DEF Tally

(* Another kind adds its tiles.                                            *)
LEMMA TallyOneMore ==
  ASSUME NEW set, Counts(set), NEW ks \in SUBSET Kinds, NEW k \in Kinds, k \notin ks
  PROVE  Tally(set, ks \cup {k}) = Tally(set, ks) + Number(set, k)
<1> DEFINE more == {k} \X (1..Number(set, k))
           before == TileByTile(set, ks)
<1>1. Number(set, k) \in Nat
  BY DEF Counts
<1>2. IsFiniteSet(more) /\ Cardinality(more) = Number(set, k)
  <2>1. /\ IsFiniteSet({k}) /\ Cardinality({k}) = 1
        /\ IsFiniteSet(1..Number(set, k))
        /\ Cardinality(1..Number(set, k)) = Number(set, k)
    <3>1. \A n \in Int : /\ IsFiniteSet(1..n)
                         /\ Cardinality(1..n) = IF 1 > n THEN 0 ELSE n - 1 + 1
      BY FS_Interval
    <3>2. \A x : IsFiniteSet({x}) /\ Cardinality({x}) = 1
      BY FS_Singleton, Zenon
    <3>3. Number(set, k) \in Int
      BY <1>1
    <3>4. /\ IsFiniteSet(1..Number(set, k))
          /\ Cardinality(1..Number(set, k))
               = IF 1 > Number(set, k) THEN 0 ELSE Number(set, k) - 1 + 1
      BY <3>1, <3>3, Zenon
    <3>5. (IF 1 > Number(set, k) THEN 0 ELSE Number(set, k) - 1 + 1) = Number(set, k)
      BY <1>1
    <3>. QED
      BY <3>2, <3>4, <3>5, Zenon
  <2>2. \A S, T : IsFiniteSet(S) /\ IsFiniteSet(T) =>
          /\ IsFiniteSet(S \X T)
          /\ Cardinality(S \X T) = Cardinality(S) * Cardinality(T)
    BY FS_Product
  <2>3. IsFiniteSet(more) /\ Cardinality(more) = 1 * Number(set, k)
    <3> DEFINE A == {k}
               B == 1..Number(set, k)
               n == Number(set, k)
    <3>1. IsFiniteSet(A) /\ IsFiniteSet(B) /\ Cardinality(A) = 1 /\ Cardinality(B) = n
      BY <2>1
    <3> HIDE DEF A, B, n
    <3>2. IsFiniteSet(A \X B) /\ Cardinality(A \X B) = 1 * n
      BY <2>2, <3>1
    <3>. QED
      BY <3>2 DEF A, B, n
  <2>. QED
    BY <1>1, <2>3
<1>3. IsFiniteSet(before)
  BY TallyIsFinite
<1>4. TileByTile(set, ks \cup {k}) = before \cup more
  BY DEF TileByTile
<1>5. before \cap more = {}
  BY DEF TileByTile
<1> HIDE DEF more, before
<1>6. Cardinality(before \cup more)
        = Cardinality(before) + Cardinality(more) - Cardinality(before \cap more)
  BY <1>2, <1>3, FS_Union
<1>7. Cardinality(before) \in Nat /\ Cardinality(before \cap more) = 0
  BY <1>3, <1>5, FS_CardinalityType, FS_EmptySet
<1>8. Cardinality(before \cup more) = Cardinality(before) + Number(set, k)
  BY <1>1, <1>2, <1>6, <1>7
<1>. QED
  BY <1>4, <1>8, Zenon DEF Tally, before

(* The kinds are in line.                                                  *)
LEMMA InOrder ==
  \A i, j, k \in Kinds :
    /\ Before(i, j) \/ Before(j, i) \/ i = j
    /\ Before(i, j) => ~Before(j, i) /\ i # j
    /\ Before(j, k) /\ ~Before(j, i) => Before(i, k)
BY KindFacts DEF Before

(* at() finds a kind for the places of its tiles: after those of the kinds *)
(* before it, and as many as it has tiles.                                 *)
Earlier(set, k) == Tally(set, {j \in Held(Unpack(set)) : Before(j, k)})

LEMMA AtWhen ==
  ASSUME NEW set, Counts(set), NEW k \in Held(Unpack(set)),
         NEW idx \in Nat, idx < Count(set)
  PROVE  /\ UpTo(set, k) = Earlier(set, k) + Number(set, k)
         /\ UpTo(set, k) <= Count(set)
         /\ At(set, idx) = k <=> Earlier(set, k) <= idx /\ idx < UpTo(set, k)
<1> DEFINE ks == Held(Unpack(set))
           sooner == {j \in ks : Before(j, k)}
           reached == {j \in ks : UpTo(set, j) > idx}
           m == At(set, idx)
<1>1. ks \in SUBSET Kinds /\ sooner \in SUBSET Kinds /\ reached \in SUBSET Kinds
  BY DEF Held
<1>2. \A j \in ks : UpTo(set, j) \in Nat
  BY <1>1, TallyIsFinite DEF UpTo
<1>3. Earlier(set, k) \in Nat /\ Number(set, k) \in Nat
  BY <1>1, TallyIsFinite DEF Earlier, Counts
<1>4. UpTo(set, k) = Earlier(set, k) + Number(set, k)
  <2>1. {j \in ks : ~Before(k, j)} = sooner \cup {k} /\ k \notin sooner
    BY <1>1, InOrder
  <2>. QED
    BY <1>1, <2>1, TallyOneMore DEF UpTo, Earlier
<1>5. UpTo(set, k) <= Count(set)
  <2>1. {j \in ks : ~Before(k, j)} \in SUBSET ks
    OBVIOUS
  <2>. QED
    BY <1>1, <2>1, TallyGrows DEF UpTo, Count
<1>6. ASSUME NEW j \in ks, Before(j, k)
      PROVE  UpTo(set, j) <= Earlier(set, k)
  <2>1. {i \in ks : ~Before(j, i)} \in SUBSET sooner
    BY <1>1, <1>6, InOrder
  <2>. QED
    BY <1>1, <2>1, TallyGrows DEF UpTo, Earlier
<1>7. m \in reached /\ \A j \in reached : ~Before(j, m)
  <2>1. m \in ks
    BY AtIsHeld, <1>3
  <2>2. reached # {}
    BY <1>1, SomeReached
  <2>. QED
    BY <1>1, <2>2, FirstIsOne DEF At
<1>8. ASSUME m = k
      PROVE  Earlier(set, k) <= idx /\ idx < UpTo(set, k)
  <2>1. SUFFICES ASSUME Earlier(set, k) > idx PROVE FALSE
    BY <1>2, <1>3, <1>7, <1>8
  <2>2. sooner # {}
    BY <2>1, NoTally DEF Earlier
  <2>3. PICK last \in sooner : \A j \in sooner : ~Before(last, j)
    BY <1>1, <2>2, LastIsOne
  <2>4. sooner \in SUBSET {j \in ks : ~Before(last, j)}
    BY <2>3
  <2>5. {j \in ks : ~Before(last, j)} \in SUBSET Kinds
    BY <1>1
  <2>6. Earlier(set, k) <= UpTo(set, last)
    BY <2>4, <2>5, TallyGrows DEF UpTo, Earlier
  <2>7. last \in reached
    BY <1>2, <1>3, <2>1, <2>3, <2>6
  <2>. QED
    BY <1>7, <1>8, <2>3, <2>7
<1>9. ASSUME Earlier(set, k) <= idx, idx < UpTo(set, k)
      PROVE  m = k
  <2>1. k \in reached
    BY <1>2, <1>9
  <2>2. m \in ks /\ UpTo(set, m) > idx /\ ~Before(k, m)
    BY <1>7, <2>1
  <2>3. ~Before(m, k)
    BY <1>2, <1>3, <1>6, <1>9, <2>2
  <2>. QED
    BY <1>1, <2>2, <2>3, InOrder
<1>. QED
  BY <1>4, <1>5, <1>8, <1>9

(* Each kind is found at as many places as it has tiles.                   *)
LEMMA FoundEach ==
  ASSUME NEW set, Counts(set), NEW k \in Kinds
  PROVE  Cardinality({idx \in 0..(Count(set) - 1) : At(set, idx) = k})
           = Number(set, k)
<1> DEFINE found == {idx \in 0..(Count(set) - 1) : At(set, idx) = k}
<1>1. Count(set) \in Nat /\ Number(set, k) \in Nat
  <2>1. Held(Unpack(set)) \in SUBSET Kinds
    BY DEF Held
  <2>. QED
    BY <2>1, TallyIsFinite DEF Count, Counts
<1>2. k \in Held(Unpack(set)) <=> Number(set, k) > 0
  BY DEF Held, Unpack
<1>3. CASE k \notin Held(Unpack(set))
  <2>1. found = {}
    BY <1>1, <1>3, AtIsHeld
  <2>. QED
    BY <1>1, <1>2, <1>3, <2>1, FS_EmptySet
<1>4. CASE k \in Held(Unpack(set))
  <2>1. Earlier(set, k) \in Nat
    <3>1. {j \in Held(Unpack(set)) : Before(j, k)} \in SUBSET Kinds
      BY DEF Held
    <3>. QED
      BY <3>1, TallyIsFinite DEF Earlier
  <2>2. Count(set) > 0
    <3>1. Held(Unpack(set)) \in SUBSET Kinds /\ {k} \in SUBSET Held(Unpack(set))
      BY <1>4 DEF Held
    <3>2. Tally(set, {} \cup {k}) = Tally(set, {}) + Number(set, k)
      BY TallyOneMore
    <3>3. Tally(set, {k}) = Number(set, k)
      BY <1>1, <3>2, NoTally
    <3>. QED
      BY <1>1, <1>2, <1>4, <3>1, <3>3, TallyGrows DEF Count
  <2>3. /\ UpTo(set, k) = Earlier(set, k) + Number(set, k)
        /\ UpTo(set, k) <= Count(set)
    BY <1>1, <1>4, <2>2, AtWhen
  <2>4. \A idx \in 0..(Count(set) - 1) :
          At(set, idx) = k <=> Earlier(set, k) <= idx /\ idx < UpTo(set, k)
    BY <1>1, <1>4, AtWhen
  <2>5. found = Earlier(set, k)..(Earlier(set, k) + Number(set, k) - 1)
    BY <1>1, <2>1, <2>3, <2>4
  <2>6. Cardinality(Earlier(set, k)..(Earlier(set, k) + Number(set, k) - 1))
          = Number(set, k)
    BY <1>1, <1>2, <1>4, <2>1, FS_Interval
  <2>. QED
    BY <2>5, <2>6
<1>. QED
  BY <1>3, <1>4

-----------------------------------------------------------------------------
(* The theorems.                                                           *)

(* Both sets are packed, whatever is done to them.                         *)
BothPacked == Packs(cards) /\ Packs(other)

(* What an assignment to a word does to the set.                           *)
LEMMA Assigned ==
  ASSUME NEW set, Packs(set), NEW color \in 0..5, NEW word \in Int
  PROVE  Differs(set, color, word, [set EXCEPT ![color] = word])
BY DEF Differs, Packs

(* One tile put in, as TileBag has it.                                     *)
LEMMA AddIsPut ==
  ASSUME NEW set, Packs(set), NEW k \in Kinds,
         Suited(k) \/ Number(set, k) < Copies(k)
  PROVE  Packs(Add(set, k)) /\ Unpack(Add(set, k)) = Put(Unpack(set), k)
<1> DEFINE word == set[k[1]] + Unit(k)
           new == [set EXCEPT ![k[1]] = word]
<1>1. k[1] \in 0..5 /\ (Flower(k) <=> k[1] = 5)
  BY KindFacts
<1>2. Number(set, k) \in 0..Top(k[1]) /\ Unpack(set)[k] = Number(set, k)
  <2>1. Fits(k[1], Digits(set, k[1]))
    BY <1>1, DigitsFit
  <2>2. Digits(set, k[1])[k[2]] = Number(set, k)
    BY KindFacts DEF Digits
  <2>3. Digits(set, k[1])[k[2]] \in 0..Top(k[1])
    BY <2>1, KindFacts DEF Fits
  <2>. QED
    BY <2>2, <2>3 DEF Unpack
<1>3. word \in Int
  BY <1>1, KindFacts DEF Packs, Unit, Flag, Octal, Values, Highest
<1>4. CASE Suited(k) /\ Number(set, k) >= 4
  BY <1>2, <1>4 DEF Add, Put
<1>5. CASE ~(Suited(k) /\ Number(set, k) >= 4)
  <2>1. Number(set, k) < Top(k[1])
    BY <1>1, <1>2, <1>5 DEF Suited, Copies, Top
  <2>2. Differs(set, k[1], word, new)
    BY <1>1, <1>3, Assigned
  <2>3. Add(set, k) = new /\ Put(Unpack(set), k) = [Unpack(set) EXCEPT ![k] = @ + 1]
    BY <1>2, <1>5 DEF Add, Put
  <2> HIDE DEF new
  <2>4. Packs(new) /\ Unpack(new) = [Unpack(set) EXCEPT ![k] = @ + 1]
    BY <2>1, <2>2, OneMore
  <2>. QED
    BY <2>3, <2>4
<1>. QED
  BY <1>4, <1>5

(* One tile taken out, as TileBag has it.                                  *)
LEMMA SubtractIsTake ==
  ASSUME NEW set, Packs(set), NEW k \in Kinds
  PROVE  /\ Packs(Subtract(set, k))
         /\ Unpack(Subtract(set, k)) = Take(Unpack(set), k)
<1> DEFINE word == set[k[1]] - Unit(k)
           new == [set EXCEPT ![k[1]] = word]
<1>1. k[1] \in 0..5 /\ Unpack(set)[k] = Number(set, k)
  BY KindFacts DEF Unpack
<1>2. word \in Int
  BY <1>1, KindFacts DEF Packs, Unit, Flag, Octal, Values, Highest
<1>3. CASE Number(set, k) = 0
  BY <1>1, <1>3 DEF Subtract, Take
<1>4. CASE Number(set, k) # 0
  <2>1. Differs(set, k[1], word, new)
    BY <1>1, <1>2, Assigned
  <2>2. /\ Subtract(set, k) = new
        /\ Take(Unpack(set), k) = [Unpack(set) EXCEPT ![k] = @ - 1]
    BY <1>1, <1>4 DEF Subtract, Take
  <2> HIDE DEF new
  <2>3. Packs(new) /\ Unpack(new) = [Unpack(set) EXCEPT ![k] = @ - 1]
    BY <1>4, <2>1, OneLess
  <2>. QED
    BY <2>2, <2>3
<1>. QED
  BY <1>3, <1>4

(* TileBag counts the same tiles.                                          *)
LEMMA SameTiles ==
  /\ Bag!NoTiles = NoTiles
  /\ \A k : /\ Bag!Suited(k) <=> Suited(k)
            /\ Bag!Copies(k) = Copies(k) /\ Bag!Room(k) = Room(k)
  /\ \A bag, k : Bag!Put(bag, k) = Put(bag, k) /\ Bag!Take(bag, k) = Take(bag, k)
BY DEF Bag!NoTiles, NoTiles, Bag!Suited, Suited, Bag!Copies, Copies, Bag!Room,
       Room, Bag!Flower, Flower, Bag!Put, Put, Bag!Take, Take

(* What holds of the next sets is said of the sets next.                   *)
LEMMA Primes ==
  /\ Unpack(cards)' = Unpack(cards') /\ Unpack(other)' = Unpack(other')
  /\ BothPacked' <=> Packs(cards') /\ Packs(other')
BY DEF Unpack, Number, BothPacked, Packs, Digits

(* Every step keeps both sets packed and is a step of TileBag.             *)
LEMMA StepIsBagStep ==
  ASSUME BothPacked, [Next]_vars
  PROVE  /\ BothPacked'
         /\ [Bag!Next]_<<Unpack(cards), Unpack(other)>>
<1>. USE Primes, SameTiles
<1>0. Packs(cards) /\ Packs(other)
  BY DEF BothPacked
<1>1. ASSUME NEW k \in Kinds, AddCard(k)
      PROVE  BothPacked' /\ Bag!PutOne(k)
  <2>1. /\ Packs(Add(cards, k))
        /\ Unpack(Add(cards, k)) = Put(Unpack(cards), k)
    BY <1>0, <1>1, AddIsPut DEF AddCard
  <2>2. Unpack(cards)[k] = Number(cards, k)
    BY DEF Unpack
  <2>. QED
    BY <1>0, <1>1, <2>1, <2>2 DEF AddCard, Bag!PutOne
<1>2. ASSUME NEW k \in Kinds, SubtractCard(k)
      PROVE  BothPacked' /\ Bag!TakeOne(k)
  BY <1>0, <1>2, SubtractIsTake DEF SubtractCard, Bag!TakeOne
<1>3. ASSUME NEW color \in 0..5, AssignColor(color)
      PROVE  BothPacked' /\ Bag!Clear(color)
  <2>1. Differs(cards, color, 0, [cards EXCEPT ![color] = 0])
    BY <1>0, Assigned
  <2>2. Differs(cards, color, 0, cards')
    BY <1>3, <2>1 DEF AssignColor
  <2>3. /\ Packs(cards')
        /\ Unpack(cards') = [k \in Kinds |->
             IF k[1] = color THEN 0 ELSE Unpack(cards)[k]]
    BY <1>0, <2>2, NoneLeft
  <2>. QED
    BY <1>0, <1>3, <2>3 DEF AssignColor, Bag!Clear
<1>4. ASSUME CopySet
      PROVE  BothPacked' /\ Bag!Copy
  BY <1>0, <1>4 DEF CopySet, Bag!Copy
<1>5. \A k \in Kinds : Room(k) = Top(k[1])
  BY DEF Room, Top, Flower
<1>6. ASSUME AddSet
      PROVE  BothPacked' /\ Bag!PutAll
  <2>1. /\ Packs(AddAll(cards, other))
        /\ \A k \in Kinds : Number(AddAll(cards, other), k)
                              = Number(cards, k) + Number(other, k)
    BY <1>0, <1>5, <1>6, Sum DEF AddSet
  <2>2. cards' = AddAll(cards, other) /\ UNCHANGED other
    BY <1>6 DEF AddSet
  <2>3. \A k \in Kinds : /\ Unpack(cards)[k] = Number(cards, k)
                         /\ Unpack(other)[k] = Number(other, k)
    BY DEF Unpack
  <2>4. Unpack(cards') = [k \in Kinds |-> Unpack(cards)[k] + Unpack(other)[k]]
    BY <2>1, <2>2, <2>3 DEF Unpack
  <2>. QED
    BY <1>0, <1>6, <2>1, <2>2, <2>3, <2>4 DEF AddSet, Bag!PutAll
<1>7. ASSUME SubtractSet
      PROVE  BothPacked' /\ Bag!TakeAll
  <2>1. /\ Packs(SubtractAll(cards, other))
        /\ \A k \in Kinds : Number(SubtractAll(cards, other), k)
                              = Number(cards, k) - Number(other, k)
    BY <1>0, <1>7, Difference DEF SubtractSet
  <2>2. cards' = SubtractAll(cards, other) /\ UNCHANGED other
    BY <1>7 DEF SubtractSet
  <2>3. \A k \in Kinds : /\ Unpack(cards)[k] = Number(cards, k)
                         /\ Unpack(other)[k] = Number(other, k)
    BY DEF Unpack
  <2>4. Unpack(cards') = [k \in Kinds |-> Unpack(cards)[k] - Unpack(other)[k]]
    BY <2>1, <2>2, <2>3 DEF Unpack
  <2>. QED
    BY <1>0, <1>7, <2>1, <2>2, <2>3, <2>4 DEF SubtractSet, Bag!TakeAll
<1>8. ASSUME Draw
      PROVE  /\ BothPacked'
             /\ UNCHANGED vars \/ \E k \in Kinds : Bag!TakeOne(k)
  <2>1. CASE Count(cards) = 0
    BY <1>0, <1>8, <2>1 DEF Draw, vars
  <2>2. CASE Count(cards) # 0
    <3>1. PICK idx \in Places : /\ idx < Count(cards)
                                /\ cards' = Subtract(cards, At(cards, idx))
                                /\ UNCHANGED other
      BY <1>8, <2>2 DEF Draw
    <3>2. At(cards, idx) \in Kinds
      BY <2>2, <3>1, AtIsHeld DEF Held
    <3>3. /\ Packs(Subtract(cards, At(cards, idx)))
          /\ Unpack(Subtract(cards, At(cards, idx)))
               = Take(Unpack(cards), At(cards, idx))
      BY <1>0, <3>2, SubtractIsTake
    <3>4. Bag!TakeOne(At(cards, idx))
      BY <3>1, <3>3 DEF Bag!TakeOne
    <3>. QED
      BY <1>0, <3>1, <3>2, <3>3, <3>4
  <2>. QED
    BY <2>1, <2>2
<1>9. CASE UNCHANGED vars
  BY <1>0, <1>9 DEF vars
<1>. QED
  BY <1>1, <1>2, <1>3, <1>4, <1>6, <1>7, <1>8, <1>9 DEF Next, Bag!Next, vars

(* The sets are empty at first, as TileBag has them.                       *)
LEMMA InitIsBagInit ==
  ASSUME Init
  PROVE  BothPacked /\ Bag!Init
BY EmptyPacks, SameTiles DEF Init, BothPacked, Bag!Init

(* For any kinds of the game, the words never hold anything but the counts *)
(* of the kinds: equality of sets is equality of their words.              *)
THEOREM AlwaysPacked == Spec => []WordsArePacked
<1>1. Init => BothPacked
  BY InitIsBagInit
<1>2. BothPacked /\ [Next]_vars => BothPacked'
  BY StepIsBagStep
<1>3. BothPacked => WordsArePacked
  BY DEF BothPacked, Packs, WordsArePacked, Packed
<1>. QED
  BY <1>1, <1>2, <1>3, PTL DEF Spec

(* For any kinds of the game, the operations of MJCards on the packed      *)
(* words are those of TileBag on the counts: no carry, no borrow.          *)
THEOREM ImplementsTileBag == Spec => IsTileBag
<1>1. Init => BothPacked /\ Bag!Init
  BY InitIsBagInit
<1>2. BothPacked /\ [Next]_vars => BothPacked'
  BY StepIsBagStep
<1>3. BothPacked /\ [Next]_vars => [Bag!Next]_<<Unpack(cards), Unpack(other)>>
  BY StepIsBagStep
<1>. QED
  BY <1>1, <1>2, <1>3, PTL DEF Spec, IsTileBag, Bag!Spec

(* at() goes through the tiles one by one, whatever is in the set: a tile  *)
(* that Draw takes with rand() is any of them, each equally often.         *)
THEOREM FindsEachTile == Spec => []AtIsExhaustive
<1>1. Init => BothPacked
  BY InitIsBagInit
<1>2. BothPacked /\ [Next]_vars => BothPacked'
  BY StepIsBagStep
<1>3. BothPacked => AtIsExhaustive
  <2>1. ASSUME BothPacked PROVE Counts(cards)
    <3>1. ASSUME NEW k \in Kinds PROVE Number(cards, k) \in 0..7
      <4>1. Fits(k[1], Digits(cards, k[1])) /\ k = <<k[1], k[2]>> /\ k[2] \in 0..8
        BY <2>1, KindFacts, DigitsFit DEF BothPacked
      <4>2. Digits(cards, k[1])[k[2]] \in 0..7
        BY <4>1 DEF Fits, Top
      <4>3. Digits(cards, k[1])[k[2]] = Number(cards, k)
        BY <4>1 DEF Digits
      <4>. QED
        BY <4>2, <4>3
    <3>. QED
      BY <3>1 DEF Counts
  <2>. QED
    BY <2>1, FoundEach DEF AtIsExhaustive
<1>. QED
  BY <1>1, <1>2, <1>3, PTL DEF Spec
=============================================================================
