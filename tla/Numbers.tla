------------------------------ MODULE Numbers ------------------------------
(***************************************************************************)
(* Arithmetic on numbers (vmexec_inst_unopbinop_INCLUDE.c): an int64_t, or *)
(* a double when it has to be.  An integer is a Width-bit one here and a   *)
(* double has Precision bits; doubles are counted in 1/Scale, the smallest *)
(* step they have.  Operations give the set of their outcomes, since the   *)
(* conversion of a double that is no int64_t is undefined.                 *)
(***************************************************************************)
EXTENDS Integers

CONSTANTS Width, Precision, Scale

OverflowError == [type |-> "OverflowError", v |-> 0]
MathError     == [type |-> "MathError", v |-> 0]
Crash         == [type |-> "crash", v |-> 0]  \* the division instruction traps
Whole(v)        == [type |-> "int", v |-> v]
Fraction(v)      == [type |-> "float", v |-> v]
IsNumber(x)   == x.type \in {"int", "float"}

MaxInt  == 2^(Width - 1) - 1
MinInt  == -(2^(Width - 1))
Wrap(v) == MinInt + ((v - MinInt) % 2^Width)
Abs(v)  == IF v < 0 THEN -v ELSE v
Trunc(n, d) == IF (n < 0) # (d < 0) THEN -(Abs(n) \div Abs(d)) ELSE Abs(n) \div Abs(d)

\* The double nearest to n / d, an even last bit deciding ties; d > 0.
NearestEven(n, d) ==
    LET q == n \div d
        r == 2 * (n - q * d)
    IN  IF r < d \/ (r = d /\ q % 2 = 0) THEN q ELSE q + 1
Rounded(n, d) ==
    LET Fits(e) == Abs(NearestEven(n, d * 2^e)) <= 2^Precision
        e == CHOOSE x \in 0..(3 * Width) : Fits(x) /\ \A y \in 0..(x - 1) : ~Fits(y)
    IN  NearestEven(n, d * 2^e) * 2^e
Quotient(n, d) == IF d < 0 THEN Rounded(-n, -d) ELSE Rounded(n, d)

Double(x) == IF x.type = "float" THEN x.v ELSE Rounded(x.v * Scale, 1)
MaxDouble == Double(Whole(MaxInt))   \* 2^63: no int64_t has this value

\* clamped_round: to the nearest integer, halves away from zero.
ClampedRound(f) ==
    LET r == IF f < 0 THEN -((Scale - 2 * f) \div (2 * Scale))
                      ELSE (2 * f + Scale) \div (2 * Scale)
    IN  IF r > MaxInt THEN MaxInt ELSE IF r < MinInt THEN MinInt ELSE r

\* Back to an integer if that is what the double is.
BackToInt(f) ==
    IF f = MaxDouble THEN {Fraction(f), Whole(MaxInt)}
    ELSE IF f % Scale = 0 THEN {Whole(f \div Scale)} ELSE {Fraction(f)}

TooLarge(f) == f > MaxDouble \/ f < MinInt * Scale

Divide(a, b) ==
    LET f == Quotient(Double(a) * Scale, Double(b))
    IN  IF a.type = "int" /\ b.type = "int" /\ b.v = -1 /\ a.v = MinInt THEN {Crash}
        ELSE IF Double(b) = 0 THEN {MathError}
        ELSE IF a.type = "int" /\ b.type = "int" /\ Trunc(a.v, b.v) * b.v = a.v
             THEN {Whole(Trunc(a.v, b.v))}
        ELSE IF TooLarge(f) THEN {OverflowError}
        ELSE BackToInt(f)

AddInts(a, b) ==
    IF (b >= 0 /\ a > MaxInt - b) \/ (b < 0 /\ a < MinInt - b) THEN OverflowError ELSE Whole(a + b)
\* "Avoid unexpected jumps in the opposite direction of the operation": i is the
\* integer operand, g the double, f their sum.
AddClamped(i, g, f) ==
    IF (g < 0 /\ ClampedRound(f) > i) \/ (g > 0 /\ ClampedRound(f) < i)
    THEN {Whole(i)} ELSE BackToInt(f)
Add(a, b) ==
    LET f == Rounded(Double(a) + Double(b), 1)
    IN  IF a.type = "int" /\ b.type = "int" THEN {AddInts(a.v, b.v)}
        ELSE IF f >= MaxDouble \/ f < MinInt * Scale THEN {OverflowError}
        ELSE IF a.type = b.type THEN BackToInt(f)
        ELSE IF a.type = "int" THEN AddClamped(a.v, b.v, f) ELSE AddClamped(b.v, a.v, f)

SubtractIntsUnchecked(a, b) == Whole(Wrap(a - b))
SubtractInts(a, b) ==
    IF (b < 0 /\ a > MaxInt + b) \/ (b >= 0 /\ a < MinInt + b) THEN OverflowError ELSE Whole(a - b)
Subtract(a, b) ==
    LET f == Rounded(Double(a) - Double(b), 1)
        \* for an integer on the right the comparison is the one of the addition
        Jumps == IF a.type = "int"
                 THEN (b.v < 0 /\ ClampedRound(f) < a.v) \/ (b.v > 0 /\ ClampedRound(f) > a.v)
                 ELSE (a.v < 0 /\ ClampedRound(f) > b.v) \/ (a.v > 0 /\ ClampedRound(f) < b.v)
    IN  IF a.type = "int" /\ b.type = "int" THEN {SubtractInts(a.v, b.v)}
        ELSE IF TooLarge(f) THEN {OverflowError}
        ELSE IF a.type = b.type \/ ~Jumps THEN {Fraction(f)}
        ELSE {Whole(IF a.type = "int" THEN a.v ELSE b.v)}

MultiplyInts(a, b) ==
    IF a = -1 /\ Wrap(a * b) = MinInt THEN Crash
    ELSE IF a # 0 /\ Trunc(Wrap(a * b), a) # b THEN OverflowError
    ELSE Whole(Wrap(a * b))
Multiply(a, b) ==
    LET f == Rounded(Double(a) * Double(b), Scale)
    IN  IF a.type = "int" /\ b.type = "int" THEN {MultiplyInts(a.v, b.v)}
        ELSE IF TooLarge(f) THEN {OverflowError} ELSE {Fraction(f)}

\* Integers keep the sign of the left operand, doubles take that of the right one.
Modulo(a, b) ==
    LET x == Double(a)  y == Double(b)
    IN  IF a.type = "int" /\ b.type = "int" /\ b.v = -1 /\ a.v = MinInt THEN {Crash}
        ELSE IF y = 0 THEN {MathError}
        ELSE IF a.type = "int" /\ b.type = "int" THEN {Whole(a.v - b.v * Trunc(a.v, b.v))}
        ELSE {Fraction(CASE x >= 0 /\ y >= 0 -> x % y
                      [] x >= 0 /\ y < 0  -> -((-y) - (x % (-y)))
                      [] x < 0 /\ y >= 0  -> y - ((-x) % y)
                      [] OTHER            -> -((-x) % (-y)))}

\* The unary minus. The check of a double reads its bits as an integer: it is true
\* of -0.0 alone, and zero has no sign here.
Negate(a) == IF a.type = "float" THEN {Fraction(-a.v)}
             ELSE IF a.v = MinInt THEN {OverflowError} ELSE {Whole(-a.v)}

Apply(op, a, b) ==
    CASE op = "+" -> Add(a, b)      [] op = "-" -> Subtract(a, b)
      [] op = "*" -> Multiply(a, b) [] op = "/" -> Divide(a, b)
      [] op = "%" -> Modulo(a, b)

------------------------------------------------------------------------------
\* What the language reference says of integers (docs/Specification/Horse64.md:
\* 684-701): the exact result, or OverflowError when that is out of range.
\* The two operand pairs for which the division instruction traps are left out.
Traps(op, a, b) ==
    \/ op \in {"/", "%"} /\ a = MinInt /\ b = -1
    \/ op = "*" /\ a = -1 /\ b = MinInt
InRange(v) == IF v \in MinInt..MaxInt THEN Whole(v) ELSE OverflowError
ExactInteger(op, a, b) ==
    CASE op = "+" -> InRange(a + b)
      [] op = "-" -> InRange(a - b)
      [] op = "*" -> InRange(a * b)
      [] OTHER    -> CHOOSE r \in {Whole(v) : v \in MinInt..MaxInt} :
                        IF op = "/" THEN r.v * b = a
                        ELSE \E q \in MinInt..MaxInt : a = q * b + r.v /\ Abs(q * b) <= Abs(a) /\ Abs(r.v) < Abs(b)
==============================================================================
