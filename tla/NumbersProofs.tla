---------------------------- MODULE NumbersProofs ----------------------------
(***************************************************************************)
(* DuckVM's arithmetic for every width of the integers, every integer of   *)
(* that width, every byte and every float, however floats are rounded.     *)
(***************************************************************************)
EXTENDS NumbersContract, TLAPS

-----------------------------------------------------------------------------
(* Division and remainder.                                                 *)

LEMMA DivisionUnique ==
  ASSUME NEW m \in Int, NEW k \in Nat \ {0}, NEW q \in Int, NEW r \in Int,
         m = (k * q) + r, 0 <= r, r < k
  PROVE  m \div k = q /\ m % k = r
<1> DEFINE e == m \div k
           s == m % k
<1>1. /\ e \in Int /\ s \in Int /\ m = (k * e) + s /\ 0 <= s /\ s < k
  OBVIOUS
<1> HIDE DEF e, s
<1>2. k * (q - e) = s - r
  BY <1>1
<1>3. q - e \in Int /\ s - r < k /\ - k < s - r
  BY <1>1
<1>4. ~(q - e >= 1)
  <2> SUFFICES ASSUME q - e >= 1 PROVE k * (q - e) >= k
    BY <1>2, <1>3
  <2> QED BY <1>3
<1>5. ~(q - e <= -1)
  <2> SUFFICES ASSUME q - e <= -1 PROVE k * (q - e) <= - k
    BY <1>2, <1>3
  <2> QED BY <1>3
<1>6. q = e
  BY <1>1, <1>3, <1>4, <1>5
<1>7. s = r
  BY <1>1, <1>6
<1> QED BY <1>6, <1>7 DEF e, s

\* An integer that fits is stored as it is.
LEMMA WrapInRange == ASSUME NEW n \in Int, InRange(n) PROVE Wrap(n) = n
<1>1. IntegerLimit \in Nat /\ IntegerLimit > 255
  BY IntegerLimitAssumption
<1>2. /\ n + IntegerLimit \in Int /\ 0 <= n + IntegerLimit /\ n + IntegerLimit < 2 * IntegerLimit
      /\ 2 * IntegerLimit \in Nat \ {0}
      /\ n + IntegerLimit = ((2 * IntegerLimit) * 0) + (n + IntegerLimit)
  BY <1>1 DEF InRange
<1>3. (n + IntegerLimit) % (2 * IntegerLimit) = n + IntegerLimit
  BY <1>2, DivisionUnique
<1> QED BY <1>1, <1>3 DEF Wrap

\* Dividing a product by one of its factors, with C's rounding.
LEMMA QuotientOfProduct ==
  ASSUME NEW n \in Int, NEW d \in Int, d # 0
  PROVE  IntegerQuotient(n * d, d) = n
<1> DEFINE mn == Magnitude(n)
           md == Magnitude(d)
<1>1. mn \in Nat /\ md \in Nat \ {0} /\ mn * md \in Int
  BY DEF Magnitude
<1>2. Magnitude(n * d) = mn * md
  <2>1. CASE n >= 0 /\ d > 0
    <3>1. n * d >= 0
      BY <2>1
    <3> QED BY <2>1, <3>1 DEF Magnitude
  <2>2. CASE n >= 0 /\ d < 0
    <3>1. n * d <= 0 /\ n * (- d) = - (n * d)
      BY <2>2
    <3> QED BY <2>2, <3>1 DEF Magnitude
  <2>3. CASE n < 0 /\ d > 0
    <3>1. n * d < 0 /\ (- n) * d = - (n * d)
      BY <2>3
    <3> QED BY <2>3, <3>1 DEF Magnitude
  <2>4. CASE n < 0 /\ d < 0
    <3>1. n * d > 0 /\ (- n) * (- d) = n * d
      BY <2>4
    <3> QED BY <2>4, <3>1 DEF Magnitude
  <2> QED BY <2>1, <2>2, <2>3, <2>4
<1>3. (mn * md) \div md = mn
  <2> HIDE DEF mn, md
  <2>1. mn * md = (md * mn) + 0
    BY <1>1
  <2> QED BY <1>1, <2>1, DivisionUnique
<1>4. (n * d < 0) = (d < 0) <=> (n > 0 \/ (n = 0 /\ d > 0))
  <2>1. CASE n > 0 /\ d > 0
    BY <2>1
  <2>2. CASE n > 0 /\ d < 0
    BY <2>2
  <2>3. CASE n < 0 /\ d > 0
    BY <2>3
  <2>4. CASE n < 0 /\ d < 0
    BY <2>4
  <2>5. CASE n = 0
    BY <2>5
  <2> QED BY <2>1, <2>2, <2>3, <2>4, <2>5
<1>5. IntegerQuotient(n * d, d) = IF (n * d < 0) = (d < 0) THEN mn ELSE - mn
  BY <1>2, <1>3 DEF IntegerQuotient
<1> HIDE DEF md
<1>6. mn = IF n < 0 THEN - n ELSE n
  BY DEF Magnitude
<1> QED BY <1>4, <1>5, <1>6

-----------------------------------------------------------------------------
(* The operands.                                                           *)

LEMMA OperandTypes ==
  ASSUME NEW o \in Numbers
  PROVE  /\ o.type \in {"integer", "bool", "float"}
         /\ Numerator(o) \in Int /\ Denominator(o) \in Nat \ {0}
         /\ o.type # "float" => Denominator(o) = 1 /\ InRange(Numerator(o))
         /\ o.type = "bool" => Numerator(o) \in 0 .. 255
BY NumbersAssumption, IntegerLimitAssumption DEF Numerator, Denominator, InRange

LEMMA StoredParts ==
  ASSUME NEW n, NEW d
  PROVE  /\ Numerator(Stored("float", n, d)) = Rounded(n, d)[1]
         /\ Numerator(Stored("integer", n, d)) = Wrap(n)
         /\ Denominator(Stored("integer", n, d)) = 1
         /\ Numerator(Stored("bool", n, d)) = n % 256
         /\ Denominator(Stored("bool", n, d)) = 1
         /\ \A type \in {"float", "integer", "bool"} : Stored(type, n, d).type = type
BY DEF Stored, Numerator, Denominator, Nearest, Integer, Bool

LEMMA WidestType ==
  ASSUME NEW o \in Numbers, NEW p \in Numbers
  PROVE  /\ Widest(o, p) \in {"float", "integer", "bool"}
         /\ Widest(o, p) = "float" <=> o.type = "float" \/ p.type = "float"
         /\ Widest(o, p) = "bool" <=> o.type = "bool" /\ p.type = "bool"
BY OperandTypes DEF Widest

LEMMA TruthOfOrder ==
  ASSUME NEW m \in Int, NEW n \in Int
  PROVE  /\ Truthy(Truth(m < n)) <=> m < n
         /\ Truthy(Truth(m > n)) <=> m > n
BY DEF Truthy, Truth, Numerator, Bool

LEMMA OperandsAlways == Spec => [](x \in Numbers /\ y \in Numbers)
<1>1. Init => x \in Numbers /\ y \in Numbers
  BY DEF Init
<1>2. x \in Numbers /\ y \in Numbers /\ [Load]_operands => (x \in Numbers /\ y \in Numbers)'
  BY DEF Load, operands
<1> QED BY <1>1, <1>2, PTL DEF Spec

-----------------------------------------------------------------------------
LEMMA DifferenceSigned ==
  ASSUME x \in Numbers, y \in Numbers PROVE DifferenceOrders
<1> DEFINE left  == Numerator(x) * Denominator(y)
           right == Numerator(y) * Denominator(x)
           d == Difference(x, y)
           rounded == Rounded(left - right, Denominator(x) * Denominator(y))[1]
<1>1. left \in Int /\ right \in Int
  BY OperandTypes
<1>2. /\ Truthy(Less(x, y)) <=> left < right
      /\ Truthy(Greater(x, y)) <=> left > right
  BY <1>1, TruthOfOrder DEF Less, Greater
<1>3. /\ d.type = Widest(x, y)
      /\ Widest(x, y) = "float" => Numerator(d) = rounded
      /\ Widest(x, y) = "integer" => Numerator(d) = Wrap(left - right)
  BY StoredParts, WidestType DEF Difference
<1>4. CASE d.type = "float"
  <2>1. /\ rounded \in Int
        /\ rounded < 0 <=> left - right < 0
        /\ rounded > 0 <=> left - right > 0
    BY RoundingAssumption DEF ExactDifference
  <2> HIDE DEF left, right, rounded
  <2>2. /\ left < right <=> rounded < 0
        /\ left > right <=> rounded > 0
    BY <1>1, <2>1
  <2> QED BY <1>2, <1>3, <1>4, <2>2 DEF DifferenceOrders
<1>5. CASE d.type = "integer" /\ InRange(Numerator(x) - Numerator(y))
  <2>1. Denominator(x) = 1 /\ Denominator(y) = 1
    BY <1>3, <1>5, OperandTypes, WidestType
  <2>2. left = Numerator(x) /\ right = Numerator(y)
    BY <2>1, OperandTypes
  <2>3. left - right \in Int /\ InRange(left - right)
    BY <1>1, <1>5, <2>2
  <2>4. Numerator(d) = left - right
    BY <1>3, <1>5, <2>3, WrapInRange
  <2> HIDE DEF left, right
  <2>5. /\ left < right <=> Numerator(d) < 0
        /\ left > right <=> Numerator(d) > 0
    BY <1>1, <2>4
  <2> QED BY <1>2, <2>5 DEF DifferenceOrders
<1> QED BY <1>4, <1>5 DEF DifferenceOrders

LEMMA ProductParts ==
  ASSUME x \in Numbers, y \in Numbers, Widest(x, y) # "float",
         Product(x, y).type = "integer" => InRange(Numerator(x) * Numerator(y)),
         Product(x, y).type = "bool" => Numerator(x) * Numerator(y) < 256
  PROVE  /\ Product(x, y).type = Widest(x, y)
         /\ Numerator(Product(x, y)) = Numerator(x) * Numerator(y)
<1> DEFINE n == Numerator(x) * Numerator(y)
<1>1. n \in Int
  BY OperandTypes
<1>2. Product(x, y).type = Widest(x, y)
  BY StoredParts, WidestType DEF Product
<1>3. CASE Widest(x, y) = "integer"
  <2>1. Wrap(n) = n
    BY <1>1, <1>2, <1>3, WrapInRange
  <2> QED BY <1>2, <1>3, <2>1, StoredParts DEF Product
<1>4. CASE Widest(x, y) = "bool"
  <2>1. Numerator(x) \in Nat /\ Numerator(y) \in Nat
    BY <1>4, OperandTypes, WidestType
  <2>2. n \in Nat /\ n < 256
    BY <1>2, <1>4, <2>1
  <2> HIDE DEF n
  <2>3. n % 256 = n
    BY <2>2
  <2> QED BY <1>2, <1>4, <2>3, StoredParts DEF Product, n
<1> QED BY <1>3, <1>4, WidestType

LEMMA QuotientInverts ==
  ASSUME x \in Numbers, y \in Numbers PROVE QuotientUndoesProduct
<1> DEFINE p == Product(x, y)
           nx == Numerator(x)
           ny == Numerator(y)
<1> SUFFICES ASSUME Truthy(y), p.type # "float", p.type = "integer" => InRange(nx * ny),
                    p.type = "bool" => nx * ny < 256
             PROVE  Numerator(Quotient(p, y)) = nx
  BY DEF QuotientUndoesProduct
<1>1. nx \in Int /\ ny \in Int /\ ny # 0
  BY OperandTypes DEF Truthy
<1>2. Widest(x, y) # "float"
  BY StoredParts, WidestType DEF Product
<1>3. p.type = Widest(x, y) /\ Numerator(p) = nx * ny
  BY <1>2, ProductParts
<1>4. Widest(p, y) = Widest(x, y)
  BY <1>3, WidestType, OperandTypes DEF Widest
<1>5. Quotient(p, y) = Stored(Widest(x, y), nx, 1)
  BY <1>1, <1>2, <1>3, <1>4, QuotientOfProduct DEF Quotient
<1>6. InRange(nx) /\ (Widest(x, y) = "bool" => nx \in 0 .. 255)
  BY <1>2, OperandTypes, WidestType
<1>7. Wrap(nx) = nx /\ (Widest(x, y) = "bool" => nx % 256 = nx)
  BY <1>1, <1>6, WrapInRange
<1> QED BY <1>2, <1>5, <1>7, StoredParts, WidestType

(* Subtraction orders as the comparisons do: for integers of every width,  *)
(* bytes and floats in every mix, the instruction "-" leaves a negative    *)
(* number exactly when "less" is true, unless the difference wraps.  Of    *)
(* rounding it is assumed that no difference changes its sign or vanishes. *)
THEOREM DifferenceOrdersAlways == Spec => []DifferenceOrders
BY OperandsAlways, DifferenceSigned, PTL

(* Division gives back the factor of a product, for integers of every      *)
(* width and booleans in every mix, with C's rounding towards zero, unless *)
(* the product does not fit.                                               *)
THEOREM QuotientUndoesProductAlways == Spec => []QuotientUndoesProduct
BY OperandsAlways, QuotientInverts, PTL

=============================================================================
