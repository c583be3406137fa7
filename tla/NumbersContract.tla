-------------------------- MODULE NumbersContract --------------------------
(***************************************************************************)
(* DuckVM's arithmetic instructions against arithmetic.  A state is one    *)
(* pair of operands; a step loads another first operand.                   *)
(***************************************************************************)
EXTENDS DuckNumbers

CONSTANT Numbers  \* the operands

ASSUME NumbersAssumption ==
  \A o \in Numbers :
    \/ o.type = "integer" /\ o.integer \in - IntegerLimit .. IntegerLimit - 1
    \/ o.type = "bool" /\ o.boolean \in 0 .. 255
    \/ /\ o.type = "float"
       /\ o.floatingPoint[1] \in Int /\ o.floatingPoint[2] \in Nat \ {0}

\* The difference of two numbers, as a fraction, before it is rounded.
ExactDifference(o, p) ==
  << (Numerator(o) * Denominator(p)) - (Numerator(p) * Denominator(o)),
     Denominator(o) * Denominator(p) >>

\* What doubles have by gradual underflow: no difference rounds to zero, or
\* to the other side of it, unless it is zero.
ASSUME RoundingAssumption ==
  \A o, p \in Numbers :
    LET exact == ExactDifference(o, p)
        rounded == Rounded(exact[1], exact[2])
    IN  /\ rounded[1] \in Int
        /\ rounded[1] < 0 <=> exact[1] < 0
        /\ rounded[1] > 0 <=> exact[1] > 0

VARIABLES x, y
operands == << x, y >>

Init == x \in Numbers /\ y \in Numbers
Load == \E number \in Numbers : x' = number /\ UNCHANGED y
Spec == Init /\ [][Load]_operands

InRange(n) == - IntegerLimit <= n /\ n < IntegerLimit

(* Subtracting decides the order as "greater" and "less" do, for every mix *)
(* of the three types and however differences are rounded, unless the      *)
(* difference wraps or is the unsigned byte that two booleans leave.       *)
DifferenceOrders ==
  LET d == Difference(x, y)
      exact == d.type = "float"
                 \/ (d.type = "integer" /\ InRange(Numerator(x) - Numerator(y)))
  IN  exact => /\ Truthy(Less(x, y)) <=> Numerator(d) < 0
               /\ Truthy(Greater(x, y)) <=> Numerator(d) > 0

(* Division undoes multiplication of integers and booleans, in every mix   *)
(* of the two, unless the product is too large for its type or the divisor *)
(* is zero.  Floats are rounded, and division undoes nothing there.        *)
QuotientUndoesProduct ==
  LET p == Product(x, y)
      n == Numerator(x) * Numerator(y)
      exact == /\ Truthy(y) /\ p.type # "float"
               /\ p.type = "integer" => InRange(n)
               /\ p.type = "bool" => n < 256
  IN  exact => Numerator(Quotient(p, y)) = Numerator(x)

=============================================================================
