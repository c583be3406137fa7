----------------------------- MODULE AluLemmas -----------------------------
(***************************************************************************)
(* What the bitwise operators and those of the arithmetic unit return, for *)
(* every operand: the facts that the proofs about the unit and about the   *)
(* emulator rest on.                                                       *)
(***************************************************************************)
EXTENDS Alu, TLAPS

\* A bit is zero or one.
LEMMA BitType == ASSUME NEW w \in Int, NEW i \in 0 .. 8 PROVE Bit(w, i) \in {0, 1}
BY DEF Bit

LEMMA CommonType ==
  ASSUME NEW x1 \in Nat, NEW y1 \in Nat, NEW weight \in Nat \ {0}
  PROVE  Common(x1, y1, weight) \in {0, weight}
<1> DEFINE p == (x1 \div weight) % 2
           q == (y1 \div weight) % 2
<1>1. p \in {0, 1} /\ q \in {0, 1}
  OBVIOUS
<1>2. Common(x1, y1, weight) = (p * q) * weight
  BY DEF Common
<1> HIDE DEF p, q
<1> QED BY <1>1, <1>2

LEMMA BitAndByte ==
  ASSUME NEW x1 \in Byte, NEW y1 \in Byte PROVE BitAnd(x1, y1) \in Byte
<1>1. x1 \in Nat /\ y1 \in Nat
  BY DEF Byte
<1>2. /\ Common(x1, y1, 1) \in {0, 1} /\ Common(x1, y1, 2) \in {0, 2}
      /\ Common(x1, y1, 4) \in {0, 4} /\ Common(x1, y1, 8) \in {0, 8}
      /\ Common(x1, y1, 16) \in {0, 16} /\ Common(x1, y1, 32) \in {0, 32}
      /\ Common(x1, y1, 64) \in {0, 64} /\ Common(x1, y1, 128) \in {0, 128}
  BY <1>1, CommonType
<1>3. Common(x1, y1, 256) = 0
  BY DEF Common, Byte
<1> QED BY <1>2, <1>3 DEF BitAnd, Byte

\* Two bits at one weight: what their product leaves to their sum.
LEMMA BitProduct ==
  ASSUME NEW p \in {0, 1}, NEW q \in {0, 1}, NEW weight \in Nat
  PROVE  /\ (p * q) * weight \in Int
         /\ (p * q) * weight >= 0
         /\ (p * q) * weight <= p * weight /\ (p * q) * weight <= q * weight
         /\ (p * weight + q * weight) - ((p * q) * weight) <= weight
<1>1. CASE p = 0
  BY <1>1
<1>2. CASE p = 1
  BY <1>2
<1> QED BY <1>1, <1>2

\* The other bitwise operators of two bytes, from sums of their common bits.
LEMMA CommonBelow ==
  ASSUME NEW x1 \in Byte, NEW y1 \in Byte
  PROVE  BitAnd(x1, y1) <= x1 /\ BitAnd(x1, y1) <= y1
         /\ (x1 + y1) - BitAnd(x1, y1) <= 255
<1> DEFINE p(i) == (x1 \div i) % 2
           q(i) == (y1 \div i) % 2
<1>1. x1 = p(1) + 2*p(2) + 4*p(4) + 8*p(8) + 16*p(16) + 32*p(32) + 64*p(64) + 128*p(128)
  BY DEF Byte
<1>2. y1 = q(1) + 2*q(2) + 4*q(4) + 8*q(8) + 16*q(16) + 32*q(32) + 64*q(64) + 128*q(128)
  BY DEF Byte
<1>3. Common(x1, y1, 256) = 0
  BY DEF Common, Byte
<1>4. \A i \in {1, 2, 4, 8, 16, 32, 64, 128} :
        /\ p(i) \in {0, 1} /\ q(i) \in {0, 1} /\ Common(x1, y1, i) = (p(i) * q(i)) * i
  BY DEF Byte, Common
<1> HIDE DEF p, q
<1>5. \A i \in {1, 2, 4, 8, 16, 32, 64, 128} :
        /\ Common(x1, y1, i) <= p(i) * i /\ Common(x1, y1, i) <= q(i) * i
        /\ Common(x1, y1, i) >= 0
        /\ (p(i) * i + q(i) * i) - Common(x1, y1, i) <= i
        /\ Common(x1, y1, i) \in Int /\ p(i) \in Int /\ q(i) \in Int
  <2> SUFFICES ASSUME NEW i \in {1, 2, 4, 8, 16, 32, 64, 128}
               PROVE  /\ Common(x1, y1, i) <= p(i) * i /\ Common(x1, y1, i) <= q(i) * i
                      /\ Common(x1, y1, i) >= 0
                      /\ (p(i) * i + q(i) * i) - Common(x1, y1, i) <= i
                      /\ Common(x1, y1, i) \in Int /\ p(i) \in Int /\ q(i) \in Int
    OBVIOUS
  <2>1. p(i) \in {0, 1} /\ q(i) \in {0, 1} /\ i \in Nat
    BY <1>4
  <2>2. Common(x1, y1, i) = (p(i) * q(i)) * i
    BY <1>4
  <2> QED BY <2>1, <2>2, BitProduct
<1> QED BY <1>1, <1>2, <1>3, <1>5 DEF BitAnd

LEMMA BitwiseByte ==
  ASSUME NEW x1 \in Byte, NEW y1 \in Byte
  PROVE  BitOr(x1, y1) \in Byte /\ BitXor(x1, y1) \in Byte
<1>1. /\ BitAnd(x1, y1) \in Byte
      /\ BitAnd(x1, y1) <= x1 /\ BitAnd(x1, y1) <= y1
      /\ (x1 + y1) - BitAnd(x1, y1) <= 255
  BY CommonBelow, BitAndByte
<1> DEFINE n == BitAnd(x1, y1)
<1>2. n \in 0 .. 255 /\ x1 \in 0 .. 255 /\ y1 \in 0 .. 255
  BY <1>1 DEF Byte
<1>3. BitOr(x1, y1) = (x1 + y1) - n /\ BitXor(x1, y1) = (x1 + y1) - (2 * n)
  BY DEF BitOr, BitXor
<1>4. n <= x1 /\ n <= y1 /\ (x1 + y1) - n <= 255
  BY <1>1
<1> HIDE DEF n
<1>5. (x1 + y1) - n \in 0 .. 255 /\ (x1 + y1) - (2 * n) \in 0 .. 255
  BY <1>2, <1>4
<1> QED BY <1>3, <1>5 DEF Byte

\* A bus with one driver carries what it drives.
LEMMA BitAndTop ==
  ASSUME NEW x1 \in Byte PROVE BitAnd(x1, 255) = x1 /\ BitAnd(255, x1) = x1
<1> DEFINE p(i) == (x1 \div i) % 2
<1>1. x1 = p(1) + 2*p(2) + 4*p(4) + 8*p(8) + 16*p(16) + 32*p(32) + 64*p(64) + 128*p(128)
  BY DEF Byte
<1>2. \A i \in {1, 2, 4, 8, 16, 32, 64, 128} :
        Common(x1, 255, i) = p(i) * i /\ Common(255, x1, i) = p(i) * i /\ p(i) \in Int
  BY DEF Common, Byte
<1>3. Common(x1, 255, 256) = 0 /\ Common(255, x1, 256) = 0
  BY DEF Common, Byte
<1> HIDE DEF p
<1> QED BY <1>1, <1>2, <1>3 DEF BitAnd

-----------------------------------------------------------------------------
\* The unit puts a byte on its output.
LEMMA AluResultByte ==
  ASSUME NEW ir1 \in Byte, NEW x1 \in Byte, NEW y1 \in Byte, NEW f1 \in Byte
  PROVE  AluResult(ir1, x1, y1, f1) \in Byte
<1>1. CarryIn(f1) \in {0, 1}
  BY BitType DEF CarryIn, Byte
<1>2. Select(ir1) \in 0 .. 7
  BY DEF Select, Byte
<1>3. \A k \in Int : k % 256 \in Byte
  BY DEF Byte
<1>4. /\ ((y1 - x1) - 1) + CarryIn(f1) \in Int /\ ((x1 - y1) - 1) + CarryIn(f1) \in Int
      /\ (x1 + y1) + CarryIn(f1) \in Int /\ 0 \in Byte /\ 255 \in Byte
  BY <1>1 DEF Byte
<1> QED BY <1>2, <1>3, <1>4, BitwiseByte, BitAndByte DEF AluResult

LEMMA Xor1Type ==
  ASSUME NEW p \in {0, 1}, NEW q \in {0, 1} PROVE Xor1(p, q) \in {0, 1}
BY DEF Xor1

LEMMA ParityType == \A byte \in Byte : Parity(byte) \in {0, 1}
<1> SUFFICES ASSUME NEW byte \in Byte PROVE Parity(byte) \in {0, 1}
  OBVIOUS
<1>1. \A i \in 0 .. 8 : Bit(byte, i) \in Int
  BY BitType DEF Byte
<1> QED BY <1>1 DEF Parity

\* The bitwise operators of two integers are integers.
LEMMA BitwiseInt ==
  ASSUME NEW p \in Int, NEW q \in Int PROVE BitAnd(p, q) \in Int /\ BitOr(p, q) \in Int
<1>1. \A w \in {1, 2, 4, 8, 16, 32, 64, 128, 256} : Common(p, q, w) \in Int
  BY DEF Common
<1>2. BitAnd(p, q) \in Int
  BY <1>1 DEF BitAnd
<1> QED BY <1>2 DEF BitOr

\* The carry chain is an integer, so that its bits are bits.
LEMMA ChainType ==
  ASSUME NEW ir1 \in Byte, NEW x1 \in Byte, NEW y1 \in Byte, NEW cin \in {0, 1},
         NEW top \in {15, 255}
  PROVE  CarryChain(ir1, x1, y1, cin, top) \in Int
<1>1. /\ top \in Int /\ x1 \in Int /\ y1 \in Int /\ cin \in Int
      /\ top - x1 \in Int /\ top - y1 \in Int /\ x1 + cin \in Int
  BY DEF Byte
<1>2. /\ BitAnd(x1, y1) \in Int /\ BitOr(x1, y1) \in Int
      /\ BitAnd(top - x1, y1) \in Int /\ BitOr(top - x1, y1) \in Int
      /\ BitAnd(x1, top - y1) \in Int /\ BitOr(x1, top - y1) \in Int
  BY <1>1, BitwiseInt
<1>3. /\ BitAnd(top - x1, y1) + 1 \in Int /\ BitOr(top - x1, y1) + cin \in Int
      /\ BitAnd(x1, top - y1) + 1 \in Int /\ BitOr(x1, top - y1) + cin \in Int
      /\ BitAnd(x1, y1) + 1 \in Int /\ BitOr(x1, y1) + cin \in Int
      /\ (top - y1) + 1 \in Int /\ BitAnd(x1, y1) + cin \in Int /\ top + 1 \in Int
  BY <1>1, <1>2
<1>4. /\ BitOr(BitAnd(top - x1, y1) + 1, BitOr(top - x1, y1) + cin) \in Int
      /\ BitOr(BitAnd(x1, top - y1) + 1, BitOr(x1, top - y1) + cin) \in Int
      /\ BitOr(BitAnd(x1, y1) + 1, BitOr(x1, y1) + cin) \in Int
      /\ BitOr(BitAnd(x1, y1) + 1, x1 + cin) \in Int
      /\ BitOr((top - y1) + 1, BitOr(x1, top - y1) + cin) \in Int
  BY <1>1, <1>3, BitwiseInt
<1> QED BY <1>3, <1>4 DEF CarryChain

\* Each bit of the flag byte is the signal that the emulator puts there.
LEMMA FlagBits ==
  ASSUME NEW ir1 \in Byte, NEW x1 \in Byte, NEW y1 \in Byte, NEW f1 \in Byte
  PROVE  LET flags == AluFlags(ir1, x1, y1, f1) IN
         /\ flags \in Byte
         /\ Bit(flags, 0) = CarryOut(ir1, x1, y1, f1)
         /\ Bit(flags, 2) = Overflow(ir1, x1, y1, f1)
         /\ Bit(flags, 3) = AsBit(AluResult(ir1, x1, y1, f1) # 255)
         /\ Bit(flags, 6) = Bit(x1, 0) /\ Bit(flags, 7) = 1
<1> DEFINE s == Bit(x1, 0)
           p == Parity(AluResult(ir1, x1, y1, f1))
           h == HalfCarry(ir1, x1, y1, f1)
           z == AsBit(AluResult(ir1, x1, y1, f1) # 255)
           o == Overflow(ir1, x1, y1, f1)
           n == Xor1(Overflow(ir1, x1, y1, f1), Bit(y1, 7))
           k == CarryOut(ir1, x1, y1, f1)
<1>1. AluFlags(ir1, x1, y1, f1) = 128 + (64 * s) + (32 * p) + (16 * h) + (8 * z) + (4 * o) + (2 * n) + k
  BY DEF AluFlags
<1>2. CarryIn(f1) \in {0, 1}
  BY BitType DEF CarryIn, Byte
<1>3. s \in {0, 1} /\ p \in {0, 1} /\ z \in {0, 1}
  <2>1. s \in {0, 1}
    BY BitType DEF Byte
  <2>2. p \in {0, 1}
    BY ParityType, AluResultByte
  <2>3. z \in {0, 1}
    BY DEF AsBit
  <2> QED BY <2>1, <2>2, <2>3
<1>4. h \in {0, 1}
  <2>1. LowNibble(x1) \in Byte /\ LowNibble(y1) \in Byte
    BY DEF LowNibble, Byte
  <2>2. CarryChain(ir1, LowNibble(x1), LowNibble(y1), CarryIn(f1), 15) \in Int
    BY <2>1, <1>2, ChainType
  <2> QED BY <2>2, BitType DEF HalfCarry
<1>5. k \in {0, 1}
  <2>1. CarryChain(ir1, x1, y1, CarryIn(f1), 255) \in Int
    BY <1>2, ChainType
  <2> QED BY <2>1, BitType DEF CarryOut
<1>6. o \in {0, 1}
  BY DEF Overflow, AsBit
<1>7. n \in {0, 1}
  BY <1>6, BitType, Xor1Type DEF Byte
<1> HIDE DEF s, p, h, z, o, n, k
<1>8. DEFINE flags == 128 + (64 * s) + (32 * p) + (16 * h) + (8 * z) + (4 * o) + (2 * n) + k
<1>9. /\ flags \in Byte /\ Bit(flags, 0) = k /\ Bit(flags, 2) = o
      /\ Bit(flags, 3) = z /\ Bit(flags, 6) = s /\ Bit(flags, 7) = 1
  BY <1>3, <1>4, <1>5, <1>6, <1>7 DEF Bit, Byte
<1> QED BY <1>1, <1>9 DEF s, o, z, k

\* A shifted byte is a byte.
LEMMA ShiftedByte ==
  ASSUME NEW x1 \in Byte, NEW f1 \in Byte PROVE Shifted(x1, f1) \in Byte
<1>1. Bit(f1, 6) \in {0, 1}
  BY BitType DEF Byte
<1> QED BY <1>1 DEF Shifted, Byte

\* V of a sum or a difference: the sign of the byte is not that of the number.
LEMMA OverflowSign ==
  ASSUME NEW ir1 \in Byte, Select(ir1) \in {1, 2, 3},
         NEW x1 \in Byte, NEW y1 \in Byte, NEW f1 \in Byte,
         NEW p, p = IF x1 > 127 THEN x1 - 256 ELSE x1,
         NEW q, q = IF y1 > 127 THEN y1 - 256 ELSE y1,
         NEW exact,
         Select(ir1) = 1 => exact = (q - p) - (1 - CarryIn(f1)),
         Select(ir1) = 2 => exact = (p - q) - (1 - CarryIn(f1)),
         Select(ir1) = 3 => exact = (p + q) + CarryIn(f1)
  PROVE  Overflow(ir1, x1, y1, f1) = 1
           <=> (exact < 0) # (AluResult(ir1, x1, y1, f1) > 127)
<1> DEFINE cin == CarryIn(f1)
           xs == Bit(x1, 7)
           ys == Bit(y1, 7)
           result == AluResult(ir1, x1, y1, f1)
           rs == Bit(result, 7)
           sel == Select(ir1)
<1>1. cin \in {0, 1}
  BY BitType DEF CarryIn, Byte
<1>2. result \in 0 .. 255
  BY AluResultByte DEF Byte
<1>3. /\ xs \in {0, 1} /\ (xs = 1 <=> x1 > 127)
      /\ ys \in {0, 1} /\ (ys = 1 <=> y1 > 127)
      /\ rs \in {0, 1} /\ (rs = 1 <=> result > 127)
  <2>1. \A w \in 0 .. 255 : Bit(w, 7) \in {0, 1} /\ (Bit(w, 7) = 1 <=> w > 127)
    BY DEF Bit
  <2> QED BY <1>2, <2>1 DEF Byte
<1>4. Overflow(ir1, x1, y1, f1) =
        1 - AsBit(\/ Xor1(Xor1(Bit(ir1, 0), Bit(ir1, 1)), Xor1(ys, xs)) = 1
                  \/ Xor1(Xor1(rs, xs), Bit(ir1, 1)) = 1)
  BY DEF Overflow
<1>5. /\ sel = 1 => Bit(ir1, 0) = 1 /\ Bit(ir1, 1) = 0
      /\ sel = 2 => Bit(ir1, 0) = 0 /\ Bit(ir1, 1) = 1
      /\ sel = 3 => Bit(ir1, 0) = 1 /\ Bit(ir1, 1) = 1
  BY DEF Bit, Select, Byte
<1>6. /\ sel = 1 => result = (((y1 - x1) - 1) + cin) % 256
      /\ sel = 2 => result = (((x1 - y1) - 1) + cin) % 256
      /\ sel = 3 => result = ((x1 + y1) + cin) % 256
  BY DEF AluResult
<1>7. /\ p = x1 - (256 * xs) /\ q = y1 - (256 * ys)
      /\ x1 \in 0 .. 255 /\ y1 \in 0 .. 255
  BY <1>3 DEF Byte
<1>8. sel \in {1, 2, 3}
  OBVIOUS
<1> HIDE DEF cin, xs, ys, rs, result, sel
\* The emulator's two exclusive-or terms, read as a condition on three signs.
<1>9. /\ sel = 1 => (Overflow(ir1, x1, y1, f1) = 1 <=> xs # ys /\ rs = xs)
      /\ sel = 2 => (Overflow(ir1, x1, y1, f1) = 1 <=> xs # ys /\ rs # xs)
      /\ sel = 3 => (Overflow(ir1, x1, y1, f1) = 1 <=> xs = ys /\ rs # xs)
  BY <1>3, <1>4, <1>5 DEF AsBit, Xor1
<1>10. CASE sel = 1
  <2>1. exact = (q - p) - (1 - cin)
    BY <1>10 DEF sel, cin
  <2>2. (xs # ys /\ rs = xs) <=> (exact < 0) # (rs = 1)
    BY <1>1, <1>3, <1>6, <1>7, <1>10, <2>1
  <2> QED BY <1>3, <1>9, <1>10, <2>2 DEF result
<1>11. CASE sel = 2
  <2>1. exact = (p - q) - (1 - cin)
    BY <1>11 DEF sel, cin
  <2>2. (xs # ys /\ rs # xs) <=> (exact < 0) # (rs = 1)
    BY <1>1, <1>3, <1>6, <1>7, <1>11, <2>1
  <2> QED BY <1>3, <1>9, <1>11, <2>2 DEF result
<1>12. CASE sel = 3
  <2>1. exact = (p + q) + cin
    BY <1>12 DEF sel, cin
  <2>2. (xs = ys /\ rs # xs) <=> (exact < 0) # (rs = 1)
    BY <1>1, <1>3, <1>6, <1>7, <1>12, <2>1
  <2> QED BY <1>3, <1>9, <1>12, <2>2 DEF result
<1> QED BY <1>8, <1>10, <1>11, <1>12

=============================================================================
