--------------------------- MODULE RandomNumbers ---------------------------
(***************************************************************************)
(* A thread draws from its engine: plain numbers, uniform reals            *)
(* (rand/distribution/UniformReal.hpp) or normal deviates                  *)
(* (NormalReal.hpp).                                                       *)
(***************************************************************************)
EXTENDS RandomEngine, FloatingPoint, FiniteSets

CONSTANTS Jobs,           \* what a thread does
          Significands,   \* [{"float", "double"} -> Nat] (2^24 and 2^53)
          MaxDraws,       \* calls of the engine that TLC looks at
          Nothing

VARIABLES job,
          engine,
          first,          \* the counter the engine was constructed with
          drawn,          \* sequence of the numbers the engine has returned
          calls,          \* calls of the engine
          deviates,       \* what the distribution has returned
          cached          \* BoxMuller::m_secondRngNumber, m_hasSecondRngNumber

vars == <<job, engine, first, drawn, calls, deviates, cached>>

----------------------------------------------------------------------------
\* Values of the integer that is converted, and its bins.
Values(type) == IF type = "float" THEN Radix ELSE Radix * Radix

Largest(type)  == RoundTo(Significands[type], Values(type) - 1)
PrevOne(type)  == PerUnit - PerUnit \div Significands[type]
Bin(type)      == PerUnit \div Largest(type)
OpenBin(type)  == PrevOne(type) \div Largest(type)
HalfBin(type)  == Bin(type) \div 2

IntervalAwareConversion(type, interval, fused, i) ==
    LET q    == Significands[type]
        real == RoundTo(q, i) * PerUnit
        bin  == IF interval \in {"co", "oo"} THEN OpenBin(type) ELSE Bin(type)
    IN  IF interval \in {"oc", "oo"} THEN MulAdd(q, fused, real, bin, HalfBin(type))
                                     ELSE Mul(q, real, bin)

\* Mutant: the value is not moved off an open end after scaling.
ScaleIntervalOnly(type, interval, fused, min, max, normalized) ==
    MulAdd(Significands[type], fused, normalized, RoundTo(Significands[type], max - min), min)

ScaleInterval(type, interval, fused, min, max, normalized) ==
    LET q      == Significands[type]
        res    == MulAdd(q, fused, normalized, RoundTo(q, max - min), min)
        raised == IF interval \in {"oc", "oo"} /\ res = min THEN NextAfter(q, min, max) ELSE res
    IN  IF interval \in {"co", "oo"} /\ raised = max THEN NextAfter(q, max, min) ELSE raised

\* Reals are binary, and no type has room for every number that is converted to it.
IsReal(type, x) == x \in Int /\ RoundTo(Significands[type], x) = x
LegalReals ==
    /\ PerUnit \in Nat \ {0} /\ Ulp(2, PerUnit) = PerUnit
    /\ \A type \in {"float", "double"} :
          /\ Significands[type] \in Nat \ {0} /\ Significands[type] % 2 = 0
          /\ Significands[type] < Values(type)

\* Seed, subsequence and offset have two words. The bounds of a real and their
\* distance can be represented, and leave room inside an open interval.
Legal(j) == /\ j.variant \in {"single", "vector"} /\ j.type \in {"float", "double"}
            /\ j.seed \in 0 .. Radix * Radix - 1 /\ j.subsequence \in 0 .. Radix * Radix - 1
            /\ j.offset \in 0 .. Radix * Radix - 1
            /\ j.interval \in {"co", "oc", "oo", "cc"} /\ j.fused \in BOOLEAN
            /\ IsReal(j.type, j.min) /\ IsReal(j.type, j.max) /\ IsReal(j.type, j.max - j.min)
            /\ j.min < j.max
            /\ j.interval = "oo" => NextAfter(Significands[j.type], j.min, j.max) # j.max

Uniform(i) ==
    ScaleInterval(job.type, job.interval, job.fused, job.min, job.max,
                  IntervalAwareConversion(job.type, job.interval, job.fused, i))

----------------------------------------------------------------------------
Init ==
    /\ job \in Jobs
    /\ engine = NewEngine(job.variant, job.seed, job.subsequence, job.offset)
    /\ first = engine.counter
    /\ drawn = <<>> /\ calls = 0 /\ deviates = <<>> /\ cached = Nothing

\* One call of the engine.
Draw ==
    /\ job.use = "number"
    /\ calls < MaxDraws
    /\ LET next == NextCall(job.variant, engine)
       IN  engine' = next.engine /\ drawn' = drawn \o next.numbers
    /\ calls' = calls + 1
    /\ UNCHANGED <<job, first, deviates, cached>>

\* The integer behind a uniform real, the places of its words in the stream,
\* and the engine after it.  A double takes two numbers: two of one vector, the
\* higher word first, or two calls of the single engine, whose order in the
\* expression that combines them C++ leaves open.
RandomBits(e, have) ==
    LET one == NextCall(job.variant, e)
        two == NextCall(job.variant, one.engine)
        At(high, low, new, after, count) ==
            [value |-> (IF job.type = "float" THEN new[high] ELSE Radix * new[high] + new[low]),
             from |-> IF job.type = "float" THEN <<have + high>> ELSE <<have + high, have + low>>,
             numbers |-> new, engine |-> after, calls |-> count]
    IN  IF job.type = "float" \/ job.variant = "vector"
        THEN {At(1, 2, one.numbers, one.engine, 1)}
        ELSE {At(h, 3 - h, one.numbers \o two.numbers, two.engine, 2) : h \in 1..2}

DrawUniform ==
    /\ job.use = "uniform"
    /\ calls < MaxDraws
    /\ \E i \in RandomBits(engine, Len(drawn)) :
          /\ engine' = i.engine
          /\ drawn' = drawn \o i.numbers
          /\ calls' = calls + i.calls
          /\ deviates' = Append(deviates, [part |-> "value", real |-> Uniform(i.value), from |-> i.from])
    /\ UNCHANGED <<job, first, cached>>

\* Two uniform reals of (0, 1) make two normal deviates; the second one is kept.
BoxMuller ==
    /\ job.use = "normal" /\ cached = Nothing
    /\ calls < MaxDraws
    /\ \E u1 \in RandomBits(engine, Len(drawn)) :
       \E u2 \in RandomBits(u1.engine, Len(drawn) + Len(u1.numbers)) :
          LET Deviate(part) == [part |-> part, real |-> <<Uniform(u1.value), Uniform(u2.value)>>,
                                from |-> u1.from \o u2.from]
          IN  /\ engine' = u2.engine
              /\ drawn' = drawn \o u1.numbers \o u2.numbers
              /\ calls' = calls + u1.calls + u2.calls
              /\ deviates' = Append(deviates, Deviate("cos"))
              /\ cached' = Deviate("sin")
    /\ UNCHANGED <<job, first>>

TakeCached ==
    /\ cached # Nothing
    /\ deviates' = Append(deviates, cached)
    /\ cached' = Nothing
    /\ UNCHANGED <<job, engine, first, drawn, calls>>

Next == Draw \/ DrawUniform \/ BoxMuller \/ TakeCached

Spec == Init /\ [][Next]_vars

----------------------------------------------------------------------------
Places(d) == {d.from[i] : i \in DOMAIN d.from}

\* The k-th number from the beginning of the blocks behind counter value v,
\* counted without words and carries.
Word4(v) == LET w2 == v \div Radix
                w3 == w2 \div Radix
                w4 == w3 \div Radix
            IN  <<v % Radix, w2 % Radix, w3 % Radix, w4 % Radix>>
NumberOf(v, k) == NRounds(Word4(v + (k - 1) \div 4), engine.key)[((k - 1) % 4) + 1]

\* An engine's numbers are those of consecutive blocks, none twice and none left
\* out, also where the counter's words wrap; and the blocks begin where the
\* constructor's arguments say for the first subsequence.
StreamIsConsecutive ==
    LET start == Value(first) + IF job.variant = "single" THEN 0 ELSE 1
    IN  /\ \A k \in 1 .. Len(drawn) : drawn[k] = NumberOf(start, k)
        /\ job.subsequence = 0 =>
              Value(first) = 1 + IF job.variant = "single" THEN job.offset \div 4 ELSE job.offset

\* Different counters give different blocks: the shuffle loses nothing.
BlocksAreDistinct ==
    job.use = "blocks" =>
        Cardinality({NRounds(c, engine.key) : c \in Counter}) = Cardinality(Counter)

\* A uniform real lies between the bounds and off the open ones, though the
\* conversion and the scaling round.
UniformStaysInInterval ==
    \A i \in DOMAIN deviates : deviates[i].part = "value" =>
        LET x == deviates[i].real
        IN  /\ IF job.interval \in {"oc", "oo"} THEN job.min < x ELSE job.min <= x
            /\ IF job.interval \in {"co", "oo"} THEN x < job.max ELSE x <= job.max
            /\ IsReal(job.type, x)

\* Deviates share no number of the engine, except the two of a Box-Muller
\* transform, which follow each other and are its two halves; and a single
\* engine's numbers are all used.
DrawsAreUsedOnce ==
    /\ \A i, k \in DOMAIN deviates :
          i < k /\ Places(deviates[i]) \cap Places(deviates[k]) # {} =>
              /\ k = i + 1 /\ deviates[i].from = deviates[k].from
              /\ deviates[i].part = "cos" /\ deviates[k].part = "sin"
    /\ job.variant = "single" /\ job.use \in {"uniform", "normal"} =>
          UNION {Places(deviates[i]) : i \in DOMAIN deviates} = DOMAIN drawn

\* An engine constructed with an offset continues the engine constructed
\* without one after that many numbers.
OffsetSkipsNumbers ==
    job.variant = "single" =>
        LET start == NewSingle(job.seed, job.subsequence, 0)
            after[n \in 0..job.offset] == IF n = 0 THEN start ELSE NextNumber(after[n - 1]).engine
        IN  drawn # <<>> => drawn[1] = after[job.offset].result[1]
=============================================================================
