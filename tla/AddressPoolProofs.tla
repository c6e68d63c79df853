--------------------------- MODULE AddressPoolProofs ---------------------------
(***************************************************************************)
(* What the bitmap of smf_paa_dynamic.hpp computes, for a pool of any      *)
(* size: the lowest free address of the pool is handed out, none is while  *)
(* every address of the pool is taken and no address below it was ever     *)
(* returned, and the bits of the last word beyond the range stay set.      *)
(***************************************************************************)
EXTENDS AddressPool, TLAPS, FiniteSetTheorems, WellFoundedInduction

Words(range)    == (range + WordBits - 1) \div WordBits
OwnWords(range) == 0 .. Words(range) - 1

(***************************************************************************)
(* The invariant of the bitmap.  To its own words others are added, below  *)
(* them when an address below the pool is returned, and then above them.   *)
(***************************************************************************)
PoolOK(pool, range) ==
  /\ IsFiniteSet(DOMAIN pool)
  /\ OwnWords(range) \subseteq DOMAIN pool /\ DOMAIN pool \subseteq Int
  /\ \A w \in DOMAIN pool : pool[w] \subseteq Bits
  /\ \A w \in OwnWords(range) : pool[w] \subseteq {b \in Bits : WordBits * w + b < range}

LEMMA LowestIsIn ==
  ASSUME NEW S \in SUBSET Nat, S # {}
  PROVE  Lowest(S) \in S /\ \A c \in S : Lowest(S) <= c
<1>1. \E x \in S : \A y \in S : ~(<<y, x>> \in OpToRel(<, Nat))
  BY NatLessThanWellFounded, WFMin
<1>2. \E x \in S : \A y \in S : ~(y < x)
  BY <1>1, Zenon DEF OpToRel
<1>3. \E b \in S : \A c \in S : b <= c
  BY <1>2
<1> QED
  BY <1>3 DEF Lowest

LEMMA Composition ==
  ASSUME NEW w \in Int, NEW b \in Bits
  PROVE  /\ WordBits * w + b \in Int
         /\ w \in Nat => WordBits * w + b \in Nat
         /\ (WordBits * w + b) \div WordBits = w
         /\ (WordBits * w + b) % WordBits = b
  BY DEF WordBits, Bits

LEMMA Division ==
  ASSUME NEW a \in Int
  PROVE  /\ a \div WordBits \in Int /\ a % WordBits \in Bits
         /\ a \in Nat <=> a \div WordBits \in Nat
         /\ a = WordBits * (a \div WordBits) + (a % WordBits)
<1>1. a \div WordBits \in Int
  BY DEF WordBits
<1>2. a % WordBits \in Bits
  BY DEF WordBits, Bits
<1>3. a = WordBits * (a \div WordBits) + (a % WordBits)
  BY DEF WordBits
<1>4. a \in Nat <=> a \div WordBits \in Nat
  BY DEF WordBits
<1> QED
  BY <1>1, <1>2, <1>3, <1>4

LEMMA WordsOfRange ==
  ASSUME NEW range \in Nat
  PROVE  /\ Words(range) \in Nat /\ OwnWords(range) \subseteq Nat
         /\ \A a \in 0 .. range - 1 : a \div WordBits \in OwnWords(range)
  BY DEF Words, OwnWords, WordBits

LEMMA CountOfWords ==
  ASSUME NEW range \in Nat
  PROVE  IsFiniteSet(OwnWords(range)) /\ Cardinality(OwnWords(range)) = Words(range)
<1> DEFINE k == Words(range) - 1
<1>1. k \in Int /\ k + 1 = Words(range) /\ (0 > k <=> Words(range) = 0)
  BY WordsOfRange
<1>2. OwnWords(range) = 0 .. k
  BY DEF OwnWords
<1> HIDE DEF k
<1>3. /\ IsFiniteSet(0 .. k)
      /\ Cardinality(0 .. k) = IF 0 > k THEN 0 ELSE k - 0 + 1
  <2>1. 0 \in Int
    OBVIOUS
  <2> QED
    BY <1>1, <2>1, FS_Interval, Zenon
<1> QED
  BY <1>1, <1>2, <1>3

LEMMA NewPoolOK ==
  ASSUME NEW range \in Nat
  PROVE  PoolOK(NewPool(range), range)
<1>1. IsFiniteSet(OwnWords(range)) /\ OwnWords(range) \subseteq Int
  BY CountOfWords, WordsOfRange
<1>2. NewPool(range) = [w \in OwnWords(range) |-> {b \in Bits : WordBits * w + b < range}]
  BY DEF NewPool, OwnWords, Words
<1> QED
  BY <1>1, <1>2 DEF PoolOK

(***************************************************************************)
(* alloc_free_bit looks at every word of the pool: the map never holds     *)
(* fewer words.                                                            *)
(***************************************************************************)
LEMMA Roominess ==
  ASSUME NEW range \in Nat, NEW pool, PoolOK(pool, range)
  PROVE  /\ Roomy(pool) \subseteq Nat
         /\ \A w \in Roomy(pool) : Word(pool, w) # {} /\ Word(pool, w) \subseteq Bits
         /\ \A w \in OwnWords(range) : pool[w] # {} => w \in Roomy(pool)
         /\ DOMAIN pool = OwnWords(range) => Roomy(pool) \subseteq OwnWords(range)
<1>1. /\ Words(range) \in Nat /\ Cardinality(DOMAIN pool) \in Nat
      /\ Cardinality(OwnWords(range)) = Words(range)
  BY WordsOfRange, CountOfWords, FS_CardinalityType DEF PoolOK
<1>2. Words(range) <= Cardinality(DOMAIN pool)
  BY <1>1, FS_Subset DEF PoolOK
<1>3. Bits # {}
  BY DEF Bits, WordBits
<1>4. \A w : Word(pool, w) \subseteq Bits
  BY DEF Word, PoolOK
<1> QED
  BY <1>1, <1>2, <1>3, <1>4 DEF Roomy, Word, NoBit, OwnWords, PoolOK

LEMMA SetWordOK ==
  ASSUME NEW range \in Nat, NEW pool, PoolOK(pool, range), NEW w \in Int,
         NEW F \in SUBSET Bits,
         w \in OwnWords(range) => F \subseteq {b \in Bits : WordBits * w + b < range}
  PROVE  /\ PoolOK(SetWord(pool, w, F), range)
         /\ \A a \in Int : IsFree(SetWord(pool, w, F), a) <=>
                            IF a \div WordBits = w THEN a % WordBits \in F
                                                   ELSE IsFree(pool, a)
<1>1. /\ DOMAIN SetWord(pool, w, F) = DOMAIN pool \cup {w}
      /\ \A v : Word(SetWord(pool, w, F), v) = IF v = w THEN F ELSE Word(pool, v)
  BY DEF SetWord, Word
<1>2. IsFiniteSet(DOMAIN pool \cup {w})
  BY FS_AddElement DEF PoolOK
<1>3. PoolOK(SetWord(pool, w, F), range)
  BY <1>1, <1>2 DEF PoolOK, SetWord
<1> QED
  BY <1>1, <1>3 DEF IsFree

(***************************************************************************)
(* alloc_free_bit marks the address that it gives, and nothing else.  It   *)
(* was free, and no free address of the range is lower.  It lies beyond    *)
(* the range only when words were added to the map.                        *)
(***************************************************************************)
THEOREM AllocatesLowest ==
  ASSUME NEW range \in Nat, NEW pool, PoolOK(pool, range), HasAddress(pool)
  PROVE  /\ NextAddress(pool) \in Nat
         /\ IsFree(pool, NextAddress(pool))
         /\ \A a \in 0 .. range - 1 : IsFree(pool, a) => NextAddress(pool) <= a
         /\ DOMAIN pool = OwnWords(range) => NextAddress(pool) < range
         /\ PoolOK(Allocated(pool), range)
         /\ \A a \in Int :
              IsFree(Allocated(pool), a) <=> IsFree(pool, a) /\ a # NextAddress(pool)
<1> DEFINE w == Lowest(Roomy(pool))
           W == Word(pool, w)
           b == Lowest(W)
           n == NextAddress(pool)
<1>1. /\ w \in Roomy(pool) /\ w \in Nat /\ \A v \in Roomy(pool) : w <= v
  <2>1. Roomy(pool) \subseteq Nat /\ Roomy(pool) # {}
    BY Roominess DEF HasAddress
  <2> QED
    BY <2>1, LowestIsIn
<1>2. W \subseteq Bits /\ W # {}
  BY <1>1, Roominess
<1>3. n = WordBits * w + b /\ Allocated(pool) = SetWord(pool, w, W \ {b})
  BY DEF NextAddress, Allocated
<1> HIDE DEF w, W, b, n
<1>4. b \in W /\ b \in Bits /\ \A c \in W : b <= c
  <2>1. Bits \subseteq Nat
    BY DEF Bits, WordBits
  <2> QED
    BY <1>2, <2>1, LowestIsIn DEF b
<1>5. n \in Nat /\ n \div WordBits = w /\ n % WordBits = b
  BY <1>1, <1>3, <1>4, Composition
<1>6. \A a \in Int : a \div WordBits = w => (IsFree(pool, a) <=> a % WordBits \in W)
  BY DEF IsFree, W
<1>7. w \in OwnWords(range) => W \subseteq {c \in Bits : WordBits * w + c < range}
  BY DEF PoolOK, Word, W
<1>8. IsFree(pool, n)
  BY <1>4, <1>5, <1>6
<1>9. DOMAIN pool = OwnWords(range) => n < range
  BY <1>1, <1>3, <1>4, <1>7, Roominess
<1>10. \A a \in 0 .. range - 1 : IsFree(pool, a) => n <= a
  <2> SUFFICES ASSUME NEW a \in 0 .. range - 1, IsFree(pool, a) PROVE n <= a
    OBVIOUS
  <2> DEFINE v == a \div WordBits
             c == a % WordBits
  <2>1. a \in Nat /\ v \in OwnWords(range) /\ v \in Nat /\ c \in Bits /\ a = WordBits * v + c
    BY Division, WordsOfRange
  <2>2. c \in pool[v]
    BY <2>1 DEF IsFree, Word, PoolOK
  <2>3. w = v => c \in W
    BY <1>6, <2>1
  <2> HIDE DEF v, c
  <2>4. w <= v /\ (w = v => b <= c)
    BY <1>1, <1>4, <2>1, <2>2, <2>3, Roominess
  <2> QED
    BY <1>1, <1>3, <1>4, <2>1, <2>4 DEF WordBits, Bits
<1>11. /\ PoolOK(Allocated(pool), range)
       /\ \A a \in Int : IsFree(Allocated(pool), a) <=>
                          IF a \div WordBits = w THEN a % WordBits \in W \ {b}
                                                 ELSE IsFree(pool, a)
  <2> DEFINE F == W \ {b}
  <2>1. /\ F \in SUBSET Bits
        /\ w \in OwnWords(range) => F \subseteq {c \in Bits : WordBits * w + c < range}
    BY <1>2, <1>7
  <2> HIDE DEF F
  <2>2. /\ PoolOK(SetWord(pool, w, F), range)
        /\ \A a \in Int : IsFree(SetWord(pool, w, F), a) <=>
                           IF a \div WordBits = w THEN a % WordBits \in F ELSE IsFree(pool, a)
    BY <1>1, <2>1, SetWordOK
  <2> QED
    BY <1>3, <2>2 DEF F
<1>12. \A a \in Int : IsFree(Allocated(pool), a) <=> IsFree(pool, a) /\ a # n
  <2> SUFFICES ASSUME NEW a \in Int
               PROVE  IsFree(Allocated(pool), a) <=> IsFree(pool, a) /\ a # n
    OBVIOUS
  <2>1. a = WordBits * (a \div WordBits) + (a % WordBits)
    BY Division
  <2>2. a = n <=> a \div WordBits = w /\ a % WordBits = b
    BY <1>3, <1>5, <2>1
  <2> QED
    BY <1>6, <1>11, <2>2
<1> QED
  BY <1>5, <1>8, <1>9, <1>10, <1>11, <1>12 DEF n

\* Without a word that has room, every address of the range is taken.
LEMMA ExhaustedWhenTaken ==
  ASSUME NEW range \in Nat, NEW pool, PoolOK(pool, range), ~HasAddress(pool),
         NEW a \in 0 .. range - 1
  PROVE  ~IsFree(pool, a)
<1>1. a \div WordBits \in OwnWords(range)
  BY WordsOfRange
<1> QED
  BY <1>1, Roominess DEF PoolOK, HasAddress, IsFree, Word

\* free_address makes the address free that it is given, if it is not above the
\* range.
LEMMA FreesOne ==
  ASSUME NEW range \in Nat, NEW pool, PoolOK(pool, range), NEW x \in Int
  PROVE  /\ PoolOK(Freed(pool, range, x), range)
         /\ \A a \in 0 .. range - 1 :
              IsFree(Freed(pool, range, x), a) <=> IsFree(pool, a) \/ a = x
<1>1. CASE x >= range
  BY <1>1 DEF Freed
<1>2. CASE x < range
  <2> DEFINE w == x \div WordBits
             b == x % WordBits
             F == Word(pool, w) \cup {b}
  <2>1. w \in Int /\ b \in Bits /\ x = WordBits * w + b
    BY Division
  <2>2. F \in SUBSET Bits
    BY <2>1 DEF PoolOK, Word
  <2>3. w \in OwnWords(range) => F \subseteq {c \in Bits : WordBits * w + c < range}
    BY <1>2, <2>1, <2>2 DEF PoolOK, Word
  <2>4. Freed(pool, range, x) = SetWord(pool, w, F)
    BY <1>2 DEF Freed
  <2>5. \A a \in Int : a \div WordBits = w => (IsFree(pool, a) <=> a % WordBits \in Word(pool, w))
    BY DEF IsFree
  <2>6. F = Word(pool, w) \cup {b}
    OBVIOUS
  <2> HIDE DEF F
  <2>7. /\ PoolOK(SetWord(pool, w, F), range)
        /\ \A a \in Int : IsFree(SetWord(pool, w, F), a) <=>
                           IF a \div WordBits = w THEN a % WordBits \in F ELSE IsFree(pool, a)
    BY <2>1, <2>2, <2>3, SetWordOK
  <2>8. ASSUME NEW a \in 0 .. range - 1
        PROVE  IsFree(Freed(pool, range, x), a) <=> IsFree(pool, a) \/ a = x
    <3>1. a \in Int /\ a = WordBits * (a \div WordBits) + (a % WordBits)
      BY Division
    <3>2. a = x <=> a \div WordBits = w /\ a % WordBits = b
      BY <2>1, <3>1
    <3> QED
      BY <2>4, <2>5, <2>6, <2>7, <3>1, <3>2
  <2> QED
    BY <2>4, <2>7, <2>8
<1> QED
  BY <1>1, <1>2
================================================================================
