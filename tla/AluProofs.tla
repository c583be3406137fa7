----------------------------- MODULE AluProofs -----------------------------
(***************************************************************************)
(* The contracts of the arithmetic unit for every operand and flag byte,   *)
(* not only for those that a run enumerates.                               *)
(***************************************************************************)
EXTENDS AluContract, AluLemmas

\* The inputs of the contracts are always bytes.
InputsOK == x \in Byte /\ y \in Byte /\ f \in Byte /\ select \in 0 .. 7

LEMMA InputsInvariant == Spec => []InputsOK
<1>1. Init => InputsOK
  BY OperandsAssumption, FlagBytesAssumption DEF Init, InputsOK
<1>2. InputsOK /\ [LoadA]_inputs => InputsOK'
  BY OperandsAssumption DEF InputsOK, LoadA, inputs
<1> QED BY <1>1, <1>2, PTL DEF Spec

\* The S flag and the shifter together keep all nine bits.
LEMMA ShiftContract == InputsOK => ShiftKeepsBits
<1> SUFFICES ASSUME InputsOK PROVE ShiftKeepsBits
  OBVIOUS
<1>1. select \in Byte
  BY DEF InputsOK, Byte
<1>2. Bit(Flags, 6) = Bit(x, 0)
  BY <1>1, FlagBits DEF InputsOK, Flags
<1>3. Bit(f, 6) \in {0, 1}
  BY BitType DEF InputsOK, Byte
<1>4. x = (2 * (x \div 2)) + Bit(x, 0) /\ Bit(x, 0) \in Int /\ x \div 2 \in Int
  BY DEF InputsOK, Bit, Byte
<1> QED BY <1>2, <1>3, <1>4 DEF ShiftKeepsBits, Shifted

(* Whatever byte is shifted and whatever the flag register holds, SHR's    *)
(* shifter and S flag lose no bit: the emulator's shift lines.             *)
THEOREM ShiftKeepsBitsAlways == Spec => []ShiftKeepsBits
BY InputsInvariant, ShiftContract, PTL

\* Only minus one wraps around to the largest byte.
LEMMA WrapsToTop == \A d \in -256 .. 254 : d % 256 = 255 <=> d = -1
OBVIOUS

LEMMA CompareContract == InputsOK => CompareEqual
<1> SUFFICES ASSUME InputsOK, select \in {1, 2}, CarryIn(f) = 0
             PROVE  BranchTaken(123, Flags) <=> x = y
  BY DEF CompareEqual
<1>1. select \in Byte
  BY DEF InputsOK, Byte
<1>2. Bit(Flags, 3) = AsBit(Result # 255)
  BY <1>1, FlagBits DEF InputsOK, Flags, Result
<1>3. /\ select = 1 => Result = (((y - x) - 1) + CarryIn(f)) % 256
      /\ select = 2 => Result = (((x - y) - 1) + CarryIn(f)) % 256
  BY DEF Result, AluResult, Select
<1>4. Result = 255 <=> x = y
  <2>1. x \in 0 .. 255 /\ y \in 0 .. 255
    BY DEF InputsOK, Byte
  <2>2. CASE select = 1
    <3>1. Result = ((y - x) - 1) % 256
      BY <1>3, <2>1, <2>2
    <3>2. (y - x) - 1 \in -256 .. 254 /\ ((y - x) - 1 = -1 <=> x = y)
      BY <2>1
    <3> QED BY <3>1, <3>2, WrapsToTop
  <2>3. CASE select = 2
    <3>1. Result = ((x - y) - 1) % 256
      BY <1>3, <2>1, <2>3
    <3>2. (x - y) - 1 \in -256 .. 254 /\ ((x - y) - 1 = -1 <=> x = y)
      BY <2>1
    <3> QED BY <3>1, <3>2, WrapsToTop
  <2> QED BY <2>2, <2>3
<1>5. Select(123) = 3 /\ Bit(123, 3) = 1
  BY DEF Select, Bit
<1> QED BY <1>2, <1>4, <1>5 DEF BranchTaken, FlagSelected, AsBit

(* The comparison idiom of the reference is right for every two bytes: a   *)
(* subtraction with the carry clear, then BR.Z.                            *)
THEOREM CompareEqualAlways == Spec => []CompareEqual
BY InputsInvariant, CompareContract, PTL

LEMMA OverflowContract == InputsOK => OverflowIsSigned
<1> SUFFICES ASSUME InputsOK, select \in {1, 2, 3}
             PROVE  Bit(Flags, 2) = 1
                      <=> (Exact(Signed(x), Signed(y)) < 0) # (Signed(Result) < 0)
  BY DEF OverflowIsSigned, ArithmeticSelect
<1>1. select \in Byte /\ Select(select) = select
  BY DEF Byte, Select
<1>2. Bit(Flags, 2) = Overflow(select, x, y, f)
  BY <1>1, FlagBits DEF InputsOK, Flags
<1>3. Result \in 0 .. 255
  BY <1>1, AluResultByte DEF Result, InputsOK, Byte
<1>4. Signed(Result) < 0 <=> Result > 127
  BY <1>3 DEF Signed
<1> DEFINE exact == Exact(Signed(x), Signed(y))
<1>5. /\ select = 1 => exact = (Signed(y) - Signed(x)) - (1 - CarryIn(f))
      /\ select = 2 => exact = (Signed(x) - Signed(y)) - (1 - CarryIn(f))
      /\ select = 3 => exact = (Signed(x) + Signed(y)) + CarryIn(f)
  BY DEF Exact
<1>6. /\ Signed(x) = IF x > 127 THEN x - 256 ELSE x
      /\ Signed(y) = IF y > 127 THEN y - 256 ELSE y
  BY DEF Signed
<1>7. x \in Byte /\ y \in Byte /\ f \in Byte
  BY DEF InputsOK
<1> HIDE DEF exact
<1>8. Overflow(select, x, y, f) = 1 <=> (exact < 0) # (Result > 127)
  BY <1>1, <1>5, <1>6, <1>7, OverflowSign DEF Result
<1> QED BY <1>2, <1>4, <1>8 DEF exact

(* The overflow flag of every addition and subtraction, borrow or carry in *)
(* included, says exactly that the sign of the byte is wrong.              *)
THEOREM OverflowIsSignedAlways == Spec => []OverflowIsSigned
BY InputsInvariant, OverflowContract, PTL

(* The carry of the emulator is not the carry of the sum: 1 + 255 exceeds  *)
(* a byte and leaves C clear, where the reference says that C is set when  *)
(* a carry occurs.                                                         *)
LEMMA CarryIsLost == 1 + 255 > 255 /\ Bit(AluFlags(3, 1, 255, 0), 0) = 0
<1>1. CarryIn(0) = 0 /\ Select(3) = 3
  BY DEF CarryIn, Bit, Select
<1>2. BitAnd(1, 255) = 1
  BY DEF BitAnd, Common
<1>3. BitOr(1, 255) = 255 /\ BitOr(2, 255) = 255
  <2>1. BitAnd(2, 255) = 2
    BY DEF BitAnd, Common
  <2>2. QED BY <1>2, <2>1 DEF BitOr
<1>4. CarryOut(3, 1, 255, 0) = 0
  <2>1. CarryChain(3, 1, 255, 0, 255) = 255
    BY <1>1, <1>2, <1>3 DEF CarryChain
  <2>2. Bit(255, 8) = 0
    BY DEF Bit
  <2>3. QED BY <1>1, <2>1, <2>2 DEF CarryOut
<1>5. Bit(AluFlags(3, 1, 255, 0), 0) = CarryOut(3, 1, 255, 0)
  <2>1. 3 \in Byte /\ 1 \in Byte /\ 255 \in Byte /\ 0 \in Byte
    BY DEF Byte
  <2>2. \A ir1, x1, y1, f1 \in Byte :
          Bit(AluFlags(ir1, x1, y1, f1), 0) = CarryOut(ir1, x1, y1, f1)
    BY FlagBits
  <2>3. QED BY <2>1, <2>2
<1>6. QED BY <1>4, <1>5

=============================================================================
