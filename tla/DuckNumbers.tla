---------------------------- MODULE DuckNumbers ----------------------------
(***************************************************************************)
(* The arithmetic of DuckVM on its three types of numbers: bytes that      *)
(* serve as booleans, integers, and floats.  A float is a fraction         *)
(* <<numerator, denominator>>, and every operation that makes one rounds   *)
(* its exact result to another fraction, in a way that is left open.       *)
(* Infinities and what is not a number are left out: nothing is said of    *)
(* the instructions that make them.  Integers wrap at IntegerLimit, which  *)
(* is 2^31 on the LPC1769.                                                 *)
(***************************************************************************)
EXTENDS Integers

CONSTANTS
  IntegerLimit,  \* integers are -IntegerLimit .. IntegerLimit - 1
  Rounded(_, _)  \* the float, a fraction, that stands for an exact result n / d

\* Every byte is an integer.
ASSUME IntegerLimitAssumption == IntegerLimit \in Nat /\ IntegerLimit > 255

Integer(n) == [type |-> "integer", integer |-> n]
Bool(n)    == [type |-> "bool", boolean |-> n]
Float(n, d) == [type |-> "float", floatingPoint |-> << n, d >>]
Nearest(n, d) == [type |-> "float", floatingPoint |-> Rounded(n, d)]
Truth(p)   == Bool(IF p THEN 1 ELSE 0)

IsNumber(o) == o.type \in {"bool", "integer", "float"}

Numerator(o) ==
  CASE o.type = "integer" -> o.integer
    [] o.type = "bool" -> o.boolean
    [] o.type = "float" -> o.floatingPoint[1]
Denominator(o) == IF o.type = "float" THEN o.floatingPoint[2] ELSE 1

\* Mutant: an integer and a boolean make a boolean.
WidestFloatOnly(x, y) == IF "float" \in {x.type, y.type} THEN "float" ELSE x.type

\* The type of a sum, difference, product or quotient.
Widest(x, y) ==
  CASE "float" \in {x.type, y.type} -> "float"
    [] "float" \notin {x.type, y.type} /\ "integer" \in {x.type, y.type} -> "integer"
    [] OTHER -> "bool"

Wrap(n) == ((n + IntegerLimit) % (2 * IntegerLimit)) - IntegerLimit

\* An exact result n / d as the union holds it in the given type; d is
\* positive, and it is 1 unless the type is float.
Stored(type, n, d) ==
  CASE type = "float" -> Nearest(n, d)
    [] type = "integer" -> Integer(Wrap(n))
    [] type = "bool" -> Bool(n % 256)

Product(x, y) ==
  Stored(Widest(x, y), Numerator(x) * Numerator(y), Denominator(x) * Denominator(y))

Sum(x, y) ==
  Stored(Widest(x, y), (Numerator(x) * Denominator(y)) + (Numerator(y) * Denominator(x)),
         Denominator(x) * Denominator(y))

\* Mutant: the operands of a subtraction in the wrong order.
DifferenceSwapped(x, y) ==
  Stored(Widest(x, y), (Numerator(y) * Denominator(x)) - (Numerator(x) * Denominator(y)),
         Denominator(x) * Denominator(y))

Difference(x, y) ==
  Stored(Widest(x, y), (Numerator(x) * Denominator(y)) - (Numerator(y) * Denominator(x)),
         Denominator(x) * Denominator(y))

Magnitude(n) == IF n < 0 THEN - n ELSE n

\* Division of integers in C rounds towards zero; the processor's SDIV gives
\* zero for a zero divisor.
IntegerQuotient(n, d) ==
  CASE d = 0 -> 0
    [] d # 0 /\ (n < 0) = (d < 0) -> Magnitude(n) \div Magnitude(d)
    [] OTHER -> - (Magnitude(n) \div Magnitude(d))

Quotient(x, y) ==
  LET n == Numerator(x) * Denominator(y)
      d == Denominator(x) * Numerator(y)
  IN  IF Widest(x, y) # "float"
      THEN Stored(Widest(x, y), IntegerQuotient(Numerator(x), Numerator(y)), 1)
      ELSE Nearest(IF d < 0 THEN - n ELSE n, Magnitude(d))

Greater(x, y) ==
  Truth(Numerator(x) * Denominator(y) > Numerator(y) * Denominator(x))
Less(x, y) ==
  Truth(Numerator(x) * Denominator(y) < Numerator(y) * Denominator(x))

\* Numbers of different types are never equal.
NumbersEqual(x, y) ==
  Truth(x.type = y.type
          /\ Numerator(x) * Denominator(y) = Numerator(y) * Denominator(x))

\* The instruction "not" keeps the type of its operand.
Negated(x) ==
  LET zero == IF Numerator(x) = 0 THEN 1 ELSE 0
  IN  Stored(x.type, zero, 1)

Truthy(x) == Numerator(x) # 0

=============================================================================
