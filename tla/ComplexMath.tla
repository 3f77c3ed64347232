---------------------------- MODULE ComplexMath ----------------------------
(***************************************************************************)
(* Complex numbers on a device (math/internal/Complex.hpp): the operators   *)
(* of the class and the functions that are built from real ones, since the  *)
(* device has no std::complex.  A short program computes on two complex     *)
(* variables and a real one; `exact` follows it with std::complex, what the *)
(* same program computes on the host.                                      *)
(*                                                                         *)
(* The value of a real variable is a power series in a small quantity, to   *)
(* its third power, and coefficients are numbers modulo a prime P with      *)
(* P % 4 = 3, where -1 has no root.  All operations are exact, and two      *)
(* functions that agree in the series agree near the point of expansion:   *)
(* the origin, or one for logarithms, roots and powers.                    *)
(***************************************************************************)
EXTENDS Integers, Sequences

CONSTANTS P,
          Positive,     \* of every two roots of a number, the positive one
          HalfPi, LogOf,\* constants that only name a number: pi / 2, logarithms
          ComplexJobs   \* initial values of z, w and r, and the length of the program

\* Every square has one positive root, -1 none.
FieldIsSound == /\ P % 4 = 3
                /\ \A a \in 1 .. P - 1 : \E b \in 1 .. P - 1 : (a * b) % P = 1
                /\ \A b \in 1 .. P - 1 : b \in Positive <=> P - b \notin Positive

VARIABLES cjob, regs, exact, done
vars == <<cjob, regs, exact, done>>

----------------------------------------------------------------------------
\* Numbers modulo P and series of them, to the third power.
Inverse1 == [a \in 1 .. P - 1 |-> CHOOSE b \in 1 .. P - 1 : (a * b) % P = 1]
Ratio(a, b) == ((a % P) * Inverse1[b % P]) % P
Series(F(_))   == <<F(1), F(2), F(3), F(4)>>
SumTo(n, F(_)) == LET G(i) == IF i <= n THEN F(i) ELSE 0 IN (G(1) + G(2) + G(3) + G(4)) % P

Const(a)  == <<a % P, 0, 0, 0>>
Add(s, t) == Series(LAMBDA k : (s[k] + t[k]) % P)
Neg(s)    == Series(LAMBDA k : (-s[k]) % P)
Sub(s, t) == Series(LAMBDA k : (s[k] - t[k]) % P)
Mul(s, t) == Series(LAMBDA k : SumTo(k, LAMBDA i : s[i] * t[k + 1 - i]))
Constant(s) == s[1]

\* The series with these Taylor coefficients; s has no constant term.
Taylor(c, s) == Add(Const(c[1]), Mul(s, Add(Const(c[2]), Mul(s, Add(Const(c[3]), Mul(s, Const(c[4])))))))
Geometric    == <<1, -1, 1, -1>>
Scaled(s)    == Sub(Mul(s, Const(Inverse1[Constant(s)])), Const(1))
Over(s, t)   == Mul(s, Mul(Const(Inverse1[Constant(t)]), Taylor(Geometric, Scaled(t))))

ExpCoefficients   == <<1, 1, Ratio(1, 2), Ratio(1, 6)>>
SinCoefficients   == <<0, 1, 0, Ratio(-1, 6)>>
CosCoefficients   == <<1, 0, Ratio(-1, 2), 0>>
SinhCoefficients  == <<0, 1, 0, Ratio(1, 6)>>
CoshCoefficients  == <<1, 0, Ratio(1, 2), 0>>
TanCoefficients   == <<0, 1, 0, Ratio(1, 3)>>
TanhCoefficients  == <<0, 1, 0, Ratio(-1, 3)>>
AsinCoefficients  == <<0, 1, 0, Ratio(1, 6)>>
AsinhCoefficients == <<0, 1, 0, Ratio(-1, 6)>>
AtanCoefficients  == <<0, 1, 0, Ratio(-1, 3)>>
AtanhCoefficients == <<0, 1, 0, Ratio(1, 3)>>
LogCoefficients   == <<0, 1, Ratio(-1, 2), Ratio(1, 3)>>
SqrtCoefficients  == <<1, Ratio(1, 2), Ratio(-1, 8), Ratio(1, 16)>>
RsqrtCoefficients == <<1, Ratio(-1, 2), Ratio(3, 8), Ratio(-5, 16)>>

----------------------------------------------------------------------------
\* Functions of real numbers, which the back-ends take from their vendors.
Root(a) == CHOOSE b \in Positive : (b * b) % P = a

RealExp(s)  == Taylor(ExpCoefficients, s)
RealSin(s)  == Taylor(SinCoefficients, s)
RealCos(s)  == Taylor(CosCoefficients, s)
RealSqrt(s) == Mul(Const(Root(Constant(s))), Taylor(SqrtCoefficients, Scaled(s)))
RealLog(s)  == Add(Const(LogOf[Constant(s)]), Taylor(LogCoefficients, Scaled(s)))

\* Near the positive real and the positive imaginary axis.
RealAtan2(y, x) == IF Constant(y) = 0 THEN Taylor(AtanCoefficients, Over(y, x))
                   ELSE Sub(Const(HalfPi), Taylor(AtanCoefficients, Over(x, y)))

----------------------------------------------------------------------------
\* The class and its operators; C stands for a complex operand, R for a real one.
Complex(re, im) == [re |-> re, im |-> im]
FromReal(r)     == Complex(r, Const(0))
Unit            == Complex(Const(0), Const(1))
MinusUnit       == Complex(Const(0), Const(-1))

Minus(z)   == Complex(Neg(z.re), Neg(z.im))
AddCC(a, b) == Complex(Add(a.re, b.re), Add(a.im, b.im))
AddCR(a, r) == Complex(Add(a.re, r), a.im)
AddRC(r, b) == Complex(Add(r, b.re), b.im)
SubCC(a, b) == Complex(Sub(a.re, b.re), Sub(a.im, b.im))
SubCR(a, r) == Complex(Sub(a.re, r), a.im)
SubRC(r, b) == Complex(Sub(r, b.re), Neg(b.im))
MulCC(a, b) == Complex(Sub(Mul(a.re, b.re), Mul(a.im, b.im)), Add(Mul(a.im, b.re), Mul(a.re, b.im)))
MulCR(a, r) == Complex(Mul(a.re, r), Mul(a.im, r))
MulRC(r, b) == Complex(Mul(r, b.re), Mul(r, b.im))
Norm(b)     == Add(Mul(b.re, b.re), Mul(b.im, b.im))
DivCC(a, b) == Complex(Over(Add(Mul(a.re, b.re), Mul(a.im, b.im)), Norm(b)),
                       Over(Sub(Mul(a.im, b.re), Mul(a.re, b.im)), Norm(b)))
DivCR(a, r) == Complex(Over(a.re, r), Over(a.im, r))
DivRC(r, b) == Complex(Over(Mul(r, b.re), Norm(b)), Over(Neg(Mul(r, b.im)), Norm(b)))

EqualCC(a, b) == a.re = b.re /\ a.im = b.im
EqualCR(a, r) == a.re = r /\ a.im = Const(0)
EqualRC(r, b) == r = b.re /\ Const(0) = b.im
NotEqualCC(a, b) == ~EqualCC(a, b)
NotEqualCR(a, r) == a.re # r \/ a.im # Const(0)
NotEqualRC(r, b) == r # b.re \/ Const(0) # b.im

(***************************************************************************)
(* The compound assignments of g[d].  The operand s may be the variable     *)
(* itself: sums are assigned part by part, products only when both parts    *)
(* are known.                                                              *)
(***************************************************************************)
AddTo(g, d, s) == LET half == [g EXCEPT ![d].re = Add(@, g[s].re)]
                  IN  [half EXCEPT ![d].im = Add(@, half[s].im)]
SubFrom(g, d, s) == LET half == [g EXCEPT ![d].re = Sub(@, g[s].re)]
                    IN  [half EXCEPT ![d].im = Sub(@, half[s].im)]
\* Mutant: the imaginary part is computed from the new real part.
MulToInPlace(g, d, other) ==
    LET half == [g EXCEPT ![d].re = Sub(Mul(@, other.re), Mul(g[d].im, other.im))]
    IN  [half EXCEPT ![d].im = Add(Mul(@, other.re), Mul(half[d].re, other.im))]
MulTo(g, d, other) == [g EXCEPT ![d] = Complex(Sub(Mul(@.re, other.re), Mul(@.im, other.im)),
                                               Add(Mul(@.im, other.re), Mul(@.re, other.im)))]
DivBy(g, d, other) == MulTo(g, d, Complex(Over(other.re, Norm(other)), Over(Neg(other.im), Norm(other))))

AddRealTo(g, d, r)   == [g EXCEPT ![d].re = Add(@, r)]
SubRealFrom(g, d, r) == [g EXCEPT ![d].re = Sub(@, r)]
MulRealTo(g, d, r)   == [g EXCEPT ![d] = Complex(Mul(@.re, r), Mul(@.im, r))]
DivRealBy(g, d, r)   == [g EXCEPT ![d] = Complex(Over(@.re, r), Over(@.im, r))]

----------------------------------------------------------------------------
\* The functions, each from functions before it.
Half == Const(Ratio(1, 2))
One  == Const(1)
Two  == Const(2)

CAbs(z)  == RealSqrt(Norm(z))
CArg(z)  == RealAtan2(z.im, z.re)
CConj(z) == Complex(z.re, Neg(z.im))
CExp(z)  == MulRC(RealExp(z.re), Complex(RealCos(z.im), RealSin(z.im)))
CLog(z)  == AddRC(RealLog(CAbs(z)), MulCR(Unit, CArg(z)))
CSqrt(z) == LET half == Mul(Half, CArg(z))
            IN  MulRC(RealSqrt(CAbs(z)), Complex(RealCos(half), RealSin(half)))
CRsqrt(z) == DivRC(One, CSqrt(z))
CLog2(z)  == DivCR(CLog(z), Const(LogOf[2]))
CLog10(z) == DivCR(CLog(z), Const(LogOf[10]))
CPow(z, y)  == CExp(MulCC(y, CLog(z)))
CPowR(z, r) == CPow(z, FromReal(r))
RPowC(r, y) == CPow(FromReal(r), y)
CAcos(z)  == MulCC(MinusUnit, CLog(AddCC(z, MulCC(Unit, CSqrt(SubRC(One, MulCC(z, z)))))))
CAcosh(z) == CLog(AddCC(z, MulCC(CSqrt(SubCR(z, One)), CSqrt(AddCR(z, One)))))
CAsin(z)  == MulCC(Unit, CLog(SubCC(CSqrt(SubRC(One, MulCC(z, z))), MulCC(Unit, z))))
CAsinh(z) == CLog(AddCC(z, CSqrt(AddCR(MulCC(z, z), One))))
CAtan(z)  == MulCC(Complex(Const(0), Neg(Half)), CLog(DivCC(SubCC(Unit, z), AddCC(Unit, z))))
CAtanh(z) == MulRC(Half, SubCC(CLog(AddRC(One, z)), CLog(SubRC(One, z))))
CCos(z)   == MulRC(Half, AddCC(CExp(MulCC(Unit, z)), CExp(MulCC(MinusUnit, z))))
CCosh(z)  == MulRC(Half, AddCC(CExp(z), CExp(MulRC(Const(-1), z))))
CSin(z)   == DivCC(SubCC(CExp(MulCC(Unit, z)), CExp(MulCC(MinusUnit, z))), Complex(Const(0), Two))
CSinh(z)  == DivCR(SubCC(CExp(z), CExp(MulRC(Const(-1), z))), Two)
CTan(z)   == LET e == CExp(MulCC(Complex(Const(0), Two), z))
             IN  DivCC(MulCC(Unit, SubRC(One, e)), AddRC(One, e))
CTanh(z)  == LET e == CExp(z)
                 f == CExp(MulRC(Const(-1), z))
             IN  DivCC(SubCC(e, f), AddCC(e, f))

----------------------------------------------------------------------------
(***************************************************************************)
(* std::complex, which the host uses: one series with complex coefficients, *)
(* functions by their Taylor series.                                       *)
(***************************************************************************)
Zero2 == <<0, 0>>
Plus2(x, y)  == <<(x[1] + y[1]) % P, (x[2] + y[2]) % P>>
Minus2(x)    == <<(-x[1]) % P, (-x[2]) % P>>
Times2(x, y) == <<(x[1] * y[1] - x[2] * y[2]) % P, (x[1] * y[2] + x[2] * y[1]) % P>>
Inverse2(x)  == Times2(<<Inverse1[(x[1] * x[1] + x[2] * x[2]) % P], 0>>, <<x[1], -x[2]>>)
SumTo2(n, F(_)) == LET G(i) == IF i <= n THEN F(i) ELSE Zero2 IN Plus2(Plus2(G(1), G(2)), Plus2(G(3), G(4)))

StdOf(z)       == Series(LAMBDA k : <<z.re[k], z.im[k]>>)
StdConst(x)    == <<x, Zero2, Zero2, Zero2>>
StdNumber(a)   == StdConst(<<a % P, 0>>)
StdReal(r)     == Series(LAMBDA k : <<r[k], 0>>)
StdAdd(a, b)   == Series(LAMBDA k : Plus2(a[k], b[k]))
StdNeg(a)      == Series(LAMBDA k : Minus2(a[k]))
StdSub(a, b)   == StdAdd(a, StdNeg(b))
StdMul(a, b)   == Series(LAMBDA k : SumTo2(k, LAMBDA i : Times2(a[i], b[k + 1 - i])))
StdTaylor(c, s) == StdAdd(StdNumber(c[1]), StdMul(s, StdAdd(StdNumber(c[2]), StdMul(s,
                   StdAdd(StdNumber(c[3]), StdMul(s, StdNumber(c[4])))))))
From(a, s)      == StdSub(s, StdNumber(a))
StdDiv(a, b)    == LET inverse == StdConst(Inverse2(b[1]))
                   IN  StdMul(a, StdMul(inverse, StdTaylor(Geometric, From(1, StdMul(b, inverse)))))

\* The area cosine near two, by integration of 1 / sqrt(3 + 4 * u + u * u).
AcoshCoefficients ==
    LET rsqrt == Taylor(RsqrtCoefficients, <<0, Ratio(4, 3), Ratio(1, 3), 0>>)
    IN  Series(LAMBDA k : IF k = 1 THEN LogOf[(2 + Root(3)) % P]
                          ELSE (rsqrt[k - 1] * Ratio(1, Root(3) * (k - 1))) % P)

StdLog(z) == StdTaylor(LogCoefficients, From(1, z))

\* The binomial series.
StdPow(z, y) ==
    LET Term(k, rest) == StdAdd(StdNumber(1), StdMul(StdMul(From(k - 1, y), StdNumber(Ratio(1, k))),
                                                     StdMul(From(1, z), rest)))
    IN  Term(1, Term(2, Term(3, StdNumber(1))))

StdArcFunction(f, z) ==
    CASE f = "asin"  -> StdTaylor(AsinCoefficients, z)
      [] f = "acos"  -> StdSub(StdNumber(HalfPi), StdTaylor(AsinCoefficients, z))
      [] f = "atan"  -> StdTaylor(AtanCoefficients, z)
      [] f = "asinh" -> StdTaylor(AsinhCoefficients, z)
      [] f = "acosh" -> StdTaylor(AcoshCoefficients, From(2, z))
      [] f = "atanh" -> StdTaylor(AtanhCoefficients, z)
StdSinOrRoot(f, z) ==
    CASE f = "sin"   -> StdTaylor(SinCoefficients, z)
      [] f = "sinh"  -> StdTaylor(SinhCoefficients, z)
      [] f = "sqrt"  -> StdTaylor(SqrtCoefficients, From(1, z))
      [] f = "tan"   -> StdTaylor(TanCoefficients, z)
      [] f = "tanh"  -> StdTaylor(TanhCoefficients, z)
StdExpOrLog(f, z) ==
    CASE f = "conj"  -> Series(LAMBDA k : <<z[k][1], (-z[k][2]) % P>>)
      [] f = "cos"   -> StdTaylor(CosCoefficients, z)
      [] f = "cosh"  -> StdTaylor(CoshCoefficients, z)
      [] f = "exp"   -> StdTaylor(ExpCoefficients, z)
      [] f = "log"   -> StdLog(z)
      [] f = "log10" -> StdDiv(StdLog(z), StdNumber(LogOf[10]))
StdRsqrt(z) == StdTaylor(RsqrtCoefficients, From(1, z))

\* std has no logarithm to the base two for complex numbers.
StdFunction(f, z) ==
    CASE f \in {"asin", "acos", "atan", "asinh", "acosh", "atanh"} -> StdArcFunction(f, z)
      [] f \in {"sin", "sinh", "sqrt", "tan", "tanh"}              -> StdSinOrRoot(f, z)
      [] f \in {"conj", "cos", "cosh", "exp", "log", "log10"}      -> StdExpOrLog(f, z)
      [] f = "rsqrt" -> StdRsqrt(z)
      [] f = "log2"  -> StdDiv(StdLog(z), StdNumber(LogOf[2]))
StdRealFunction(f, z) ==
    CASE f = "abs" -> LET log == StdLog(z) IN RealExp(Series(LAMBDA k : log[k][1]))
      [] f = "arg" -> LET log == StdLog(z) IN Series(LAMBDA k : log[k][2])

----------------------------------------------------------------------------
Names == {"z", "w"}
Operators == {"+", "-", "*", "/"}

AroundZero == {"exp", "sin", "cos", "tan", "sinh", "cosh", "tanh", "asin", "acos", "atan", "asinh", "atanh"}
AroundOne  == {"log", "log2", "log10", "sqrt", "rsqrt"}
RealOnes   == {"abs", "arg"}

At(s) == <<Constant(s.re), Constant(s.im)>>
Expands(f, z) == CASE f \in AroundZero -> At(z) = <<0, 0>>
                   [] f \in AroundOne \union RealOnes -> At(z) = <<1, 0>>
                   [] f = "acosh" -> At(z) = <<2, 0>>
                   [] f = "conj"  -> TRUE

\* What a call names, by groups.
SinOrArea(f, z) ==
    CASE f = "sin" -> CSin(z)     [] f = "acosh" -> CAcosh(z) [] f = "asinh" -> CAsinh(z)
      [] f = "sinh" -> CSinh(z)   [] f = "atan" -> CAtan(z)
AtanhOrTanh(f, z) == IF f = "atanh" THEN CAtanh(z) ELSE CTanh(z)
ExpOrRoot(f, z) ==
    CASE f = "exp" -> CExp(z)     [] f = "sqrt" -> CSqrt(z)   [] f = "rsqrt" -> CRsqrt(z)
      [] f = "cos" -> CCos(z)     [] f = "cosh" -> CCosh(z)
LogOrArc(f, z) ==
    CASE f = "log" -> CLog(z)     [] f = "log2" -> CLog2(z)   [] f = "log10" -> CLog10(z)
      [] f = "tan" -> CTan(z)     [] f = "acos" -> CAcos(z)   [] f = "asin" -> CAsin(z)
Device(f, z) ==
    CASE f \in {"sin", "acosh", "asinh", "sinh", "atan"}           -> SinOrArea(f, z)
      [] f \in {"atanh", "tanh"}                                   -> AtanhOrTanh(f, z)
      [] f \in {"exp", "sqrt", "rsqrt", "cos", "cosh"}             -> ExpOrRoot(f, z)
      [] f \in {"log", "log2", "log10", "tan", "acos", "asin"}     -> LogOrArc(f, z)
      [] f = "conj" -> CConj(z)
DeviceReal(f, z) == IF f = "abs" THEN CAbs(z) ELSE CArg(z)

\* A value of either kind as a complex operand of std.
Operand(n) == IF n = "r" THEN StdReal(exact.r) ELSE exact[n]
StdBinary(op, a, b) == CASE op = "+" -> StdAdd(a, b) [] op = "-" -> StdSub(a, b)
                         [] op = "*" -> StdMul(a, b) [] op = "/" -> StdDiv(a, b)
Divides(n) == IF n = "r" THEN Constant(regs.r) # 0 ELSE At(regs[n]) # <<0, 0>>

Init == /\ cjob \in ComplexJobs
        /\ regs = [z |-> cjob.z, w |-> cjob.w, r |-> cjob.r]
        /\ exact = [z |-> StdOf(cjob.z), w |-> StdOf(cjob.w), r |-> cjob.r]
        /\ done = 0

Step == done < cjob.length /\ done' = done + 1 /\ UNCHANGED cjob

\* d op= s
Compound(op, d, s) ==
    /\ Step
    /\ op = "/" => Divides(s)
    /\ regs' = CASE op = "+" /\ s # "r" -> AddTo(regs, d, s)
                 [] op = "-" /\ s # "r" -> SubFrom(regs, d, s)
                 [] op = "*" /\ s # "r" -> MulTo(regs, d, regs[s])
                 [] op = "/" /\ s # "r" -> DivBy(regs, d, regs[s])
                 [] op = "+" /\ s = "r" -> AddRealTo(regs, d, regs.r)
                 [] op = "-" /\ s = "r" -> SubRealFrom(regs, d, regs.r)
                 [] op = "*" /\ s = "r" -> MulRealTo(regs, d, regs.r)
                 [] op = "/" /\ s = "r" -> DivRealBy(regs, d, regs.r)
    /\ exact' = [exact EXCEPT ![d] = StdBinary(op, @, Operand(s))]

\* d = a op b
Binary(op, d, a, b) ==
    /\ Step
    /\ op = "/" => Divides(b)
    /\ regs' = [regs EXCEPT ![d] =
         CASE a # "r" /\ b # "r" -> (CASE op = "+" -> AddCC(regs[a], regs[b]) [] op = "-" -> SubCC(regs[a], regs[b])
                                       [] op = "*" -> MulCC(regs[a], regs[b]) [] op = "/" -> DivCC(regs[a], regs[b]))
           [] a # "r" /\ b = "r" -> (CASE op = "+" -> AddCR(regs[a], regs.r) [] op = "-" -> SubCR(regs[a], regs.r)
                                       [] op = "*" -> MulCR(regs[a], regs.r) [] op = "/" -> DivCR(regs[a], regs.r))
           [] a = "r" -> (CASE op = "+" -> AddRC(regs.r, regs[b]) [] op = "-" -> SubRC(regs.r, regs[b])
                            [] op = "*" -> MulRC(regs.r, regs[b]) [] op = "/" -> DivRC(regs.r, regs[b]))]
    /\ exact' = [exact EXCEPT ![d] = StdBinary(op, Operand(a), Operand(b))]

\* d = -a
Negate(d, a) == /\ Step
                /\ regs' = [regs EXCEPT ![d] = Minus(regs[a])]
                /\ exact' = [exact EXCEPT ![d] = StdNeg(exact[a])]

\* d = f(a), or r = f(a) where the result is real.
Call(f, d, a) == /\ Step /\ Expands(f, regs[a])
                 /\ regs' = [regs EXCEPT ![d] = Device(f, regs[a])]
                 /\ exact' = [exact EXCEPT ![d] = StdFunction(f, exact[a])]
CallReal(f, a) == /\ Step /\ Expands(f, regs[a])
                  /\ regs' = [regs EXCEPT !.r = DeviceReal(f, regs[a])]
                  /\ exact' = [exact EXCEPT !.r = StdRealFunction(f, exact[a])]

\* d = pow(a, b)
Power(d, a, b) ==
    /\ Step
    /\ IF a = "r" THEN Constant(regs.r) = 1 ELSE At(regs[a]) = <<1, 0>>
    /\ regs' = [regs EXCEPT ![d] = CASE a # "r" /\ b # "r" -> CPow(regs[a], regs[b])
                                     [] a # "r" /\ b = "r" -> CPowR(regs[a], regs.r)
                                     [] a = "r" -> RPowC(regs.r, regs[b])]
    /\ exact' = [exact EXCEPT ![d] = StdPow(Operand(a), Operand(b))]

(***************************************************************************)
(* sincos(a, s, c): the sine is stored before the cosine is computed.       *)
(* Precondition: the sine does not overwrite the argument.                 *)
(***************************************************************************)
SinCos(a, s, c) ==
    /\ Step /\ Expands("sin", regs[a]) /\ s # a /\ s # c
    /\ regs' = LET stored == [regs EXCEPT ![s] = CSin(regs[a])]
               IN  [stored EXCEPT ![c] = CCos(stored[a])]
    /\ exact' = [exact EXCEPT ![s] = StdFunction("sin", exact[a]), ![c] = StdFunction("cos", exact[a])]

\* d.real(r) and d.imag(r)
SetPart(part, d) ==
    /\ Step
    /\ regs' = [regs EXCEPT ![d] = IF part = 1 THEN Complex(regs.r, @.im) ELSE Complex(@.re, regs.r)]
    /\ exact' = [exact EXCEPT ![d] = Series(LAMBDA k : [exact[d][k] EXCEPT ![part] = exact.r[k]])]

Next == \/ \E op \in Operators, d \in Names, s \in Names \union {"r"} : Compound(op, d, s)
        \/ \E op \in Operators, a, b \in Names \union {"r"} : ~(a = "r" /\ b = "r") /\ Binary(op, "z", a, b)
        \/ \E a \in Names : Negate("z", a)
        \/ \E f \in AroundZero \union AroundOne \union {"acosh", "conj"}, a \in Names : Call(f, "z", a)
        \/ \E f \in RealOnes, a \in Names : CallReal(f, a)
        \/ \E a, b \in Names \union {"r"} : ~(a = "r" /\ b = "r") /\ Power("z", a, b)
        \/ \E a, s, c \in Names : SinCos(a, s, c)
        \/ \E part \in {1, 2}, d \in Names : SetPart(part, d)

Spec == Init /\ [][Next]_vars

----------------------------------------------------------------------------
\* A program that computes with complex numbers has the same results on a device
\* as on the host, also when an operand is assigned to, and comparisons of every
\* form tell the same.
DeviceAgreesWithHost ==
    /\ \A n \in Names : StdOf(regs[n]) = exact[n]
    /\ regs.r = exact.r
    /\ EqualCC(regs.z, regs.w) = (exact.z = exact.w) /\ NotEqualCC(regs.z, regs.w) = (exact.z # exact.w)
    /\ \A n \in Names : LET same == exact[n] = StdReal(exact.r) IN
          /\ EqualCR(regs[n], regs.r) = same /\ EqualRC(regs.r, regs[n]) = same
          /\ NotEqualCR(regs[n], regs.r) # same /\ NotEqualRC(regs.r, regs[n]) # same
=============================================================================
