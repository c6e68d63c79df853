------------------------------ MODULE AddressPool ------------------------------
(***************************************************************************)
(* The pool of UE IPv4 addresses of a data network (smf_paa_dynamic.hpp).  *)
(*                                                                         *)
(* An address is its distance from the first address of the pool, so that  *)
(* an address below the pool is negative.  The bitmap is a std::map from   *)
(* the number of a word to its 32 bits; a word is kept here as the set of  *)
(* its bits that are 0, the free ones.  Reading a word that is not in the  *)
(* map inserts an empty one.                                               *)
(***************************************************************************)
EXTENDS Integers, FiniteSets

WordBits == 32
Bits     == 0 .. WordBits - 1
NoBit    == {}   \* a word that equals numeric_limits<uint32_t>::max()

Lowest(S) == CHOOSE b \in S : \A c \in S : b <= c

(***************************************************************************)
(* A pool of `range' addresses: the bits of the last word beyond the range *)
(* are set for good.                                                       *)
(***************************************************************************)
NewPool(range) ==
  [w \in 0 .. ((range + WordBits - 1) \div WordBits) - 1 |->
     {b \in Bits : WordBits * w + b < range}]

Word(pool, w) == IF w \in DOMAIN pool THEN pool[w] ELSE Bits

IsFree(pool, a) == a % WordBits \in Word(pool, a \div WordBits)

SetWord(pool, w, free) ==
  [v \in DOMAIN pool \cup {w} |-> IF v = w THEN free ELSE pool[v]]

(***************************************************************************)
(* alloc_free_bit goes through the words 0, 1, ... below the size of the   *)
(* map, whatever numbers the map holds, and takes the first that is not    *)
(* full.                                                                   *)
(***************************************************************************)
Roomy(pool) == {w \in 0 .. Cardinality(DOMAIN pool) - 1 : Word(pool, w) # NoBit}

HasAddress(pool) == Roomy(pool) # {}

NextAddress(pool) ==
  LET w == Lowest(Roomy(pool))
  IN  WordBits * w + Lowest(Word(pool, w))

Allocated(pool) ==
  LET w == Lowest(Roomy(pool))
  IN  SetWord(pool, w, Word(pool, w) \ {Lowest(Word(pool, w))})

(***************************************************************************)
(* free_address: in_pool compares with the size of the pool only.          *)
(***************************************************************************)
Freed(pool, range, a) ==
  IF a < range
  THEN SetWord(pool, a \div WordBits, Word(pool, a \div WordBits) \cup {a % WordBits})
  ELSE pool

================================================================================
