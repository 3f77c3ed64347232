---------------------------- MODULE RandomEngine ----------------------------
(***************************************************************************)
(* The Philox engines (rand/engine/philox): a block of numbers is computed *)
(* from a counter of four words and a key of two; an engine is advanced by *)
(* counting.  The vector engine hands out whole blocks, the single engine  *)
(* their numbers one by one.  Words are values below Radix (2^32 in the    *)
(* code), the least significant one first, and all their sums wrap.        *)
(***************************************************************************)
EXTENDS Integers, Sequences

CONSTANTS Radix,          \* values of a word
          Rounds,         \* rounds of the shuffle (10)
          Multipliers,    \* of the two S-boxes
          Weyl,           \* what the key is bumped by
          XorWords(_, _)

Word    == 0 .. Radix - 1
Counter == [1..4 -> Word]
Key     == [1..2 -> Word]

\* The multipliers are odd: modulo a power of two they have an inverse. The
\* exclusive or can be undone on either side.
LegalEngine ==
    /\ Radix \in Nat /\ Radix > 1 /\ Rounds \in Nat
    /\ Multipliers \in [1..2 -> Nat] /\ Weyl \in [1..2 -> Nat]
    /\ \A i \in 1..2 : \E n \in Word : (n * Multipliers[i]) % Radix = 1
    /\ \A x, y \in Word : XorWords(x, y) \in Word
    /\ \A x, y, z \in Word : /\ XorWords(x, y) = XorWords(x, z) => y = z
                             /\ XorWords(y, x) = XorWords(z, x) => y = z

Low(x)  == x % Radix
High(x) == (x \div Radix) % Radix

\* 128-bit value of a counter.
Value(c) == c[1] + Radix * (c[2] + Radix * (c[3] + Radix * c[4]))

----------------------------------------------------------------------------

SingleRound(c, key) ==
    LET p0 == c[1] * Multipliers[1]
        p1 == c[3] * Multipliers[2]
    IN  <<XorWords(XorWords(High(p1), c[2]), key[1]), Low(p1),
          XorWords(XorWords(High(p0), c[4]), key[2]), Low(p0)>>

BumpKey(key) == [i \in 1..2 |-> Low(key[i] + Weyl[i])]

\* The key is bumped between rounds; one round precedes the loop.
NRounds(counter, key) ==
    LET after[n \in 0..Rounds] ==
            IF n = 0 THEN [counter |-> SingleRound(counter, key), key |-> key]
                     ELSE LET k == BumpKey(after[n - 1].key)
                          IN  [counter |-> SingleRound(after[n - 1].counter, k), key |-> k]
    IN  after[Rounds].counter

----------------------------------------------------------------------------
\* Mutant: the carry stops at the second word.
AdvanceTwoWords(c) ==
    LET c1 == Low(c[1] + 1) IN <<c1, Low(c[2] + IF c1 = 0 THEN 1 ELSE 0), c[3], c[4]>>

\* The next counter, with the carry through all of its words.
AdvanceCounter(c) ==
    LET c1 == Low(c[1] + 1)
        c2 == Low(c[2] + IF c1 = 0 THEN 1 ELSE 0)
        c3 == Low(c[3] + IF c1 = 0 /\ c2 = 0 THEN 1 ELSE 0)
        c4 == Low(c[4] + IF c1 = 0 /\ c2 = 0 /\ c3 = 0 THEN 1 ELSE 0)
    IN  <<c1, c2, c3, c4>>

Carry(condition) == IF condition THEN 1 ELSE 0

\* Advances by offset blocks.  As in the code, the carries into the upper two
\* words are taken from comparisons of the first word with other words.
Skip4(c, offset) ==
    LET c1 == Low(c[1] + Low(offset))
    IN  <<c1,
          Low(c[2] + High(offset) + Carry(c1 < c[1])),
          Low(c[3] + Carry(c1 < c[2])),
          Low(c[4] + Carry(c1 < c[3]))>>

SkipSubsequence(c, subsequence) ==
    LET c3 == Low(c[3] + Low(subsequence))
    IN  <<c[1], c[2], c3, Low(c[4] + High(subsequence) + Carry(c3 < c[3]))>>

----------------------------------------------------------------------------
\* The single engine keeps a block and the position within it.  Taking a number
\* shifts the block, so that the next number is always the first element.
Shifted(block) == <<block[2], block[3], block[4], block[4]>>

ShiftedBy(block, n) == [i \in 1..4 |-> block[IF i + n <= 4 THEN i + n ELSE 4]]

AdvanceState(e) ==
    LET c == AdvanceCounter(e.counter)
    IN  [e EXCEPT !.counter = c, !.result = NRounds(c, e.key), !.position = 0]

Skip(e, offset) ==
    LET sum    == e.position + (offset % 4)
        blocks == (IF sum < 4 THEN offset ELSE offset + 4) \div 4
    IN  [e EXCEPT !.position = sum % 4,
                  !.result   = ShiftedBy(@, sum % 4),
                  !.counter  = Skip4(@, blocks)]

\* seed, subsequence and offset are values of two words.
NewSingle(seed, subsequence, offset) ==
    LET zero  == <<0, 0, 0, 0>>
        fresh == [counter |-> SkipSubsequence(zero, subsequence),
                  key |-> <<Low(seed), High(seed)>>, result |-> zero, position |-> 0]
    IN  AdvanceState(Skip(fresh, offset))

\* The offset of a vector engine counts blocks; its first block is dropped.
NewVector(seed, subsequence, offset) ==
    [counter |-> AdvanceCounter(Skip4(SkipSubsequence(<<0, 0, 0, 0>>, subsequence), offset)),
     key |-> <<Low(seed), High(seed)>>]

NewEngine(variant, seed, subsequence, offset) ==
    IF variant = "single" THEN NewSingle(seed, subsequence, offset)
                          ELSE NewVector(seed, subsequence, offset)

\* What a call of the engine returns, as a sequence of numbers, and the engine
\* after the call.
NextNumber(e) ==
    [numbers |-> <<e.result[1]>>,
     engine  |-> LET position == e.position + 1
                 IN  IF position = 4
                     THEN AdvanceState([e EXCEPT !.position = position])
                     ELSE [e EXCEPT !.position = position, !.result = Shifted(@)]]

NextVector(e) ==
    LET c == AdvanceCounter(e.counter)
    IN  [numbers |-> NRounds(c, e.key), engine |-> [e EXCEPT !.counter = c]]

NextCall(variant, e) == IF variant = "single" THEN NextNumber(e) ELSE NextVector(e)
=============================================================================
