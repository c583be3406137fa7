---------------------------- MODULE UploadProofs ----------------------------
(***************************************************************************)
(* For all programs, sizes of the buffer and the FIFO, and faults: as long *)
(* as the line is sound, what is on it and in the FIFO continues what the  *)
(* firmware has read to the uploads that were submitted.                   *)
(***************************************************************************)
EXTENDS Upload, SequenceTheorems, TLAPS

\* The uploads of at most two programs, one after the other.
Wire(programs) ==
  IF programs = << >> THEN << >>
  ELSE IF Len(programs) = 1 THEN Encode(programs[1])
  ELSE Encode(programs[1]) \o Encode(programs[2])

\* What the firmware has still to read.
Stream == fifo \o line

ReadingLength ==
  sound /\ phase = "length" => lengthBuffer \o Stream = Wire(submitted)
ReadingPayload ==
  sound /\ phase = "payload" =>
    /\ submitted # << >> /\ count = Len(Head(submitted))
    /\ \A i \in 1 .. count : i <= at => bytecode[i] = Head(submitted)[i]
    /\ Stream = SubSeq(Head(submitted), at + 1, count) \o Wire(Tail(submitted))
Running ==
  sound /\ phase = "run" => Stream = Wire(submitted)
Cleared == phase # "length" => lengthBuffer = << >>
Warnings == warned => ~sound

InStep == ReadingLength /\ ReadingPayload /\ Running /\ Cleared /\ Warnings
IInv == TypeOK /\ InStep

-----------------------------------------------------------------------------
(* Sequences.                                                              *)

LEMMA SmallLengths ==
  \A n \in Nat \ {0} : (n < 2 => n = 1) /\ (n <= 2 => n = 1 \/ n = 2)
OBVIOUS

\* Uploads are sequences of bytes: the library's facts for them.
LEMMA BytesConcat ==
  /\ \A a, b \in Seq(Byte) : a \o b \in Seq(Byte)
  /\ \A a, b, c \in Seq(Byte) : (a \o b) \o c = a \o (b \o c)
  /\ << >> \in Seq(Byte) /\ Len(<< >>) = 0
BY ConcatProperties, ConcatAssociative, EmptySeq

LEMMA PrefixesCancel ==
  ASSUME NEW S, NEW a \in Seq(S), NEW b \in Seq(S), NEW s \in Seq(S), NEW t \in Seq(S),
         Len(a) = Len(b), a \o s = b \o t
  PROVE  a = b /\ s = t
<1>1. \A i \in 1 .. Len(a) : a[i] = b[i]
  <2> SUFFICES ASSUME NEW i \in 1 .. Len(a) PROVE a[i] = b[i]
    OBVIOUS
  <2>1. Len(a) \in Nat /\ Len(s) \in Nat /\ Len(t) \in Nat
    BY LenProperties
  <2>2. (a \o s)[i] = a[i]
    BY <2>1, ConcatProperties
  <2>3. (b \o t)[i] = b[i]
    BY <2>1, ConcatProperties
  <2> QED BY <2>2, <2>3
<1>2. a = b
  BY <1>1, SeqEqual
<1>3. s = t
  BY <1>2, ConcatSimplifications
<1> QED BY <1>2, <1>3

LEMMA HeadAndTail ==
  ASSUME NEW S, NEW s \in Seq(S), s # << >>
  PROVE  s = << Head(s) >> \o Tail(s)
<1>1. Len(s) \in Nat \ {0}
  BY EmptySeq
<1>2. SubSeq(s, 1, Len(s)) = << s[1] >> \o SubSeq(s, 2, Len(s))
  BY <1>1, SubSeqRecursiveFirst
<1>3. SubSeq(s, 1, Len(s)) = s /\ SubSeq(s, 2, Len(s)) = Tail(s) /\ s[1] = Head(s)
  BY <1>1, SubSeqFull, TailIsSubSeq
<1> QED BY <1>2, <1>3

\* A byte moves from the line to the FIFO.
LEMMA TransmitKeeps ==
  ASSUME NEW f \in Seq(Byte), NEW l \in Seq(Byte), l # << >>
  PROVE  Append(f, Head(l)) \o Tail(l) = f \o l
<1>1. Head(l) \in Byte /\ Tail(l) \in Seq(Byte) /\ << Head(l) >> \in Seq(Byte)
  BY HeadTailProperties
<1>2. Append(f, Head(l)) = f \o << Head(l) >>
  BY <1>1, AppendIsConcat
<1>3. (f \o << Head(l) >>) \o Tail(l) = f \o (<< Head(l) >> \o Tail(l))
  BY <1>1, ConcatAssociative
<1> QED BY <1>2, <1>3, HeadAndTail

\* The firmware takes a byte from the FIFO.
LEMMA ReadSplits ==
  ASSUME NEW f \in Seq(Byte), NEW l \in Seq(Byte), f # << >>
  PROVE  f \o l = << Head(f) >> \o (Tail(f) \o l)
<1>1. Head(f) \in Byte /\ Tail(f) \in Seq(Byte) /\ << Head(f) >> \in Seq(Byte)
  BY HeadTailProperties
<1>2. (<< Head(f) >> \o Tail(f)) \o l = << Head(f) >> \o (Tail(f) \o l)
  BY <1>1, ConcatAssociative
<1> QED BY <1>2, HeadAndTail

-----------------------------------------------------------------------------
(* Uploads.                                                                *)

LEMMA ProgramTypes ==
  ASSUME NEW p \in Programs
  PROVE  p \in Seq(Byte) /\ Len(p) \in Nat /\ p # << >>
BY ProgramsAssumption, LenProperties DEF SelfEnding

\* Four bytes hold the length of every program.
LEMMA DigitsOfLength ==
  ASSUME NEW n \in Nat, n \div 65536 < 65536
  PROVE  /\ Digits(n) \in Seq(Byte) /\ Len(Digits(n)) = LengthBytes
         /\ Length(Digits(n)) = n
<1> DEFINE a == n \div 256
           b == a \div 256
           c == b \div 256
<1>1. a \in Nat /\ n = (256 * a) + (n % 256) /\ n % 256 \in Byte
  BY DEF Byte
<1>2. b \in Nat /\ a = (256 * b) + (a % 256) /\ a % 256 \in Byte
  BY <1>1 DEF Byte
<1>3. c \in Nat /\ b = (256 * c) + (b % 256) /\ b % 256 \in Byte
  BY <1>2 DEF Byte
<1>4. n < 65536 * 65536
  OBVIOUS
<1>5. c < 256
  BY <1>1, <1>2, <1>3, <1>4 DEF Byte
<1>6. c % 256 = c /\ c % 256 \in Byte
  BY <1>3, <1>5 DEF Byte
<1>7. Digits(n) = << n % 256, a % 256, b % 256, c % 256 >>
  BY DEF Digits
<1> HIDE DEF a, b, c
<1>8. Digits(n) \in Seq(Byte) /\ Len(Digits(n)) = LengthBytes
  BY <1>1, <1>2, <1>3, <1>6, <1>7 DEF LengthBytes
<1>9. Length(Digits(n)) = n
  BY <1>1, <1>2, <1>3, <1>6, <1>7 DEF Length, Byte
<1> QED BY <1>8, <1>9

LEMMA EncodeTypes ==
  ASSUME NEW p \in Programs
  PROVE  /\ Digits(Len(p)) \in Seq(Byte) /\ Len(Digits(Len(p))) = LengthBytes
         /\ Length(Digits(Len(p))) = Len(p)
         /\ Encode(p) \in Seq(Byte)
<1>1. p \in Seq(Byte) /\ Len(p) \in Nat /\ Len(p) \div 65536 < 65536
  BY ProgramTypes, ProgramsAssumption
<1>2. /\ Digits(Len(p)) \in Seq(Byte) /\ Len(Digits(Len(p))) = LengthBytes
      /\ Length(Digits(Len(p))) = Len(p)
  BY <1>1, DigitsOfLength
<1>3. Encode(p) \in Seq(Byte)
  BY <1>1, <1>2, ConcatProperties DEF Encode
<1> QED BY <1>2, <1>3

LEMMA WireTypes ==
  ASSUME NEW s \in Seq(Programs), Len(s) <= 2
  PROVE  Wire(s) \in Seq(Byte)
<1>1. CASE s = << >>
  BY <1>1, EmptySeq DEF Wire
<1>2. CASE Len(s) = 1
  <2>1. s # << >>
    BY <1>2, EmptySeq
  <2>2. s \in [1 .. 1 -> Programs]
    BY <1>2, LenProperties
  <2>3. s[1] \in Programs
    BY <2>2
  <2> QED BY <1>2, <2>1, <2>3, EncodeTypes DEF Wire
<1>3. CASE Len(s) = 2
  <2>1. s # << >>
    BY <1>3, EmptySeq
  <2>2. s \in [1 .. 2 -> Programs]
    BY <1>3, LenProperties
  <2>3. s[1] \in Programs /\ s[2] \in Programs
    BY <2>2
  <2>4. Encode(s[1]) \in Seq(Byte) /\ Encode(s[2]) \in Seq(Byte)
    BY <2>3, EncodeTypes
  <2>5. Encode(s[1]) \o Encode(s[2]) \in Seq(Byte)
    BY <2>4, ConcatProperties
  <2> QED BY <1>3, <2>1, <2>5 DEF Wire
<1>4. s = << >> \/ Len(s) \in Nat \ {0}
  BY EmptySeq
<1>5. s = << >> \/ Len(s) = 1 \/ Len(s) = 2
  BY <1>4, SmallLengths
<1> QED BY <1>1, <1>2, <1>3, <1>5

LEMMA WireOfSubmit ==
  ASSUME NEW s \in Seq(Programs), Len(s) < 2, NEW p \in Programs
  PROVE  Wire(Append(s, p)) = Wire(s) \o Encode(p)
<1>1. /\ Append(s, p) # << >> /\ Len(Append(s, p)) = Len(s) + 1
      /\ \A i \in 1 .. Len(s) : Append(s, p)[i] = s[i]
      /\ Append(s, p)[Len(s) + 1] = p
  BY AppendProperties
<1>2. Encode(p) \in Seq(Byte)
  BY EncodeTypes
<1>3. CASE s = << >>
  <2>1. Len(s) = 0
    BY <1>3, EmptySeq
  <2>2. Wire(Append(s, p)) = Encode(p)
    BY <1>1, <2>1 DEF Wire
  <2>3. Wire(s) \o Encode(p) = Encode(p)
    BY <1>2, <1>3, ConcatEmptySeq DEF Wire
  <2> QED BY <2>2, <2>3
<1>4. CASE s # << >>
  <2>1. Len(s) \in Nat \ {0}
    BY <1>4, EmptySeq
  <2>2. Len(s) = 1
    BY <2>1, SmallLengths
  <2>3. Append(s, p)[1] = s[1] /\ Append(s, p)[2] = p /\ Len(Append(s, p)) = 2
    BY <1>1, <2>2
  <2> QED BY <1>1, <1>4, <2>2, <2>3 DEF Wire
<1> QED BY <1>3, <1>4

LEMMA WireOfFirst ==
  ASSUME NEW s \in Seq(Programs), s # << >>, Len(s) <= 2,
         NEW t \in Seq(Programs), Len(t) = Len(s) - 1,
         \A i \in 1 .. Len(t) : t[i] = s[i + 1]
  PROVE  s[1] \in Programs /\ Len(t) <= 2 /\ Wire(s) = Encode(s[1]) \o Wire(t)
<1>1. Len(s) \in Nat \ {0}
  BY EmptySeq
<1>2. Len(s) = 1 \/ Len(s) = 2
  BY <1>1, SmallLengths
<1>3. s[1] \in Programs
  BY <1>1, <1>2, LenProperties
<1>4. CASE Len(s) = 1
  <2>1. Len(t) = 0
    BY <1>4
  <2>2. t = << >>
    BY <2>1, EmptySeq
  <2>3. Encode(s[1]) \o << >> = Encode(s[1])
    BY <1>3, EncodeTypes, ConcatEmptySeq
  <2> QED BY <1>3, <1>4, <2>1, <2>2, <2>3 DEF Wire
<1>5. CASE Len(s) = 2
  <2>1. Len(t) = 1
    BY <1>5
  <2>2. t[1] = s[2] /\ t # << >>
    BY <2>1, EmptySeq
  <2> QED BY <1>3, <1>5, <2>1, <2>2 DEF Wire
<1> QED BY <1>2, <1>4, <1>5

LEMMA WireOfHead ==
  ASSUME NEW s \in Seq(Programs), s # << >>, Len(s) <= 2
  PROVE  /\ Head(s) \in Programs /\ Tail(s) \in Seq(Programs) /\ Len(Tail(s)) <= 2
         /\ Wire(s) = Encode(Head(s)) \o Wire(Tail(s))
<1>1. /\ Tail(s) \in Seq(Programs) /\ Len(Tail(s)) = Len(s) - 1
      /\ \A i \in 1 .. Len(Tail(s)) : Tail(s)[i] = s[i + 1]
  BY HeadTailProperties
<1>2. s[1] \in Programs /\ Len(Tail(s)) <= 2 /\ Wire(s) = Encode(s[1]) \o Wire(Tail(s))
  BY <1>1, WireOfFirst
<1>3. Head(s) = s[1]
  OBVIOUS
<1> QED BY <1>1, <1>2, <1>3

\* What runs of a buffer that starts with a program is the program.
LEMMA ExecutedIsProgram ==
  ASSUME NEW p \in Programs, Fits(Len(p)), NEW buffer \in [Code -> Byte],
         \A i \in 1 .. Len(p) : buffer[i] = p[i]
  PROVE  Executed(buffer) = p
<1> DEFINE reached == { i \in Code : \A j \in Code : j < i => buffer[j] # End }
<1>1. /\ p \in Seq(Byte) /\ Len(p) \in Nat /\ p # << >>
      /\ \A i \in 1 .. Len(p) : p[i] = End <=> i = Len(p)
  BY ProgramTypes, ProgramsAssumption DEF SelfEnding
<1>2. Len(p) >= 1 /\ Len(p) < BufferSize /\ BufferSize \in Nat
  BY <1>1, EmptySeq, SizesAssumption DEF Fits
<1>3. \A i \in 1 .. Len(p) : i \in reached
  BY <1>1, <1>2 DEF Code
<1>4. \A i \in reached : i \in 1 .. Len(p)
  BY <1>1, <1>2 DEF Code
<1>5. reached = 1 .. Len(p)
  BY <1>3, <1>4
<1>6. Executed(buffer) = [i \in reached |-> buffer[i]]
  BY DEF Executed
<1>7. p = [i \in 1 .. Len(p) |-> p[i]]
  BY <1>1, LenProperties
<1> QED BY <1>5, <1>6, <1>7

-----------------------------------------------------------------------------
(* The steps.  Each lemma is about one action, from the invariant: the      *)
(* types, what is on the line, and the contract.                           *)

\* What an action must keep, and what it may do in the contract.
Kept == IInv' /\ [Contract!Next]_<< submitted, last, sound >>

LEMMA StreamTypes ==
  ASSUME TypeOK
  PROVE  /\ Stream \in Seq(Byte) /\ Wire(submitted) \in Seq(Byte)
         /\ Len(submitted) <= 2
<1>1. fifo \in Seq(Byte) /\ line \in Seq(Byte)
  BY DEF TypeOK
<1>2. submitted \in Seq(Programs) /\ Len(submitted) <= 2
  BY SizesAssumption DEF TypeOK
<1> QED BY <1>1, <1>2, ConcatProperties, WireTypes DEF Stream

LEMMA InitIInv == Init => IInv /\ Contract!Init
<1> SUFFICES ASSUME Init PROVE IInv /\ Contract!Init
  OBVIOUS
<1>1. TypeOK
  <2>1. bytecode \in [Code -> Byte]
    BY SizesAssumption DEF Init
  <2>2. << >> \in Seq(Byte) /\ << >> \in Seq(Programs) /\ Len(<< >>) = 0
    BY EmptySeq
  <2>3. 0 <= Ahead /\ 0 <= MaxFaults /\ Fits(0)
    BY SizesAssumption DEF Fits
  <2>4. submitted \in Seq(Programs) /\ Len(submitted) = 0
    BY <2>2 DEF Init
  <2>0. last = << >> /\ DOMAIN last = {}
    BY DEF Init
  <2>5. /\ line \in Seq(Byte) /\ fifo \in Seq(Byte)
        /\ lengthBuffer \in Seq(Byte) /\ Len(lengthBuffer) = 0
    BY <2>2 DEF Init
  <2>6. /\ count = 0 /\ at = 0 /\ faults = 0 /\ phase = "length"
        /\ sound = TRUE /\ warned = FALSE
    BY DEF Init
  <2>7. DOMAIN last \subseteq Code /\ last \in [DOMAIN last -> Byte]
    BY <2>0
  <2>8. sound \in BOOLEAN /\ warned \in BOOLEAN
    BY <2>6
  <2>9. /\ count \in Nat /\ Fits(count) /\ at \in Nat /\ at <= count
        /\ faults \in Nat /\ faults <= MaxFaults
        /\ Len(submitted) <= Ahead /\ Len(lengthBuffer) <= LengthBytes
    BY <2>3, <2>4, <2>5, <2>6 DEF LengthBytes
  <2>10. phase \in {"length", "payload", "run"}
    BY <2>6
  <2> QED BY <2>1, <2>4, <2>5, <2>7, <2>8, <2>9, <2>10 DEF TypeOK, Fits
<1>2. lengthBuffer \o Stream = Wire(submitted)
  <2>1. << >> \o << >> = << >>
    BY EmptySeq, ConcatEmptySeq
  <2> QED BY <2>1 DEF Init, Stream, Wire
<1>3. InStep
  BY <1>2 DEF Init, InStep, ReadingLength, ReadingPayload, Running, Cleared, Warnings
<1> QED BY <1>1, <1>3 DEF IInv, Init, Contract!Init

LEMMA SubmitKept == IInv /\ Submit => Kept
<1> SUFFICES ASSUME IInv, Submit PROVE Kept
  OBVIOUS
<1> USE DEF IInv
<1>1. PICK p \in Programs : submitted' = Append(submitted, p) /\ line' = line \o Encode(p)
  BY DEF Submit
<1>0. Len(submitted) < 2 /\ Encode(p) \in Seq(Byte)
  <2>1. Len(submitted) < Ahead /\ submitted \in Seq(Programs)
    BY DEF TypeOK, Submit
  <2>2. Len(submitted) \in Nat
    BY <2>1, LenProperties
  <2>3. Len(submitted) < 2
    BY <2>1, <2>2, SizesAssumption
  <2> QED BY <2>3, EncodeTypes
<1>2. /\ submitted \in Seq(Programs)
      /\ fifo \in Seq(Byte) /\ line \in Seq(Byte) /\ lengthBuffer \in Seq(Byte)
      /\ fifo' = fifo /\ lengthBuffer' = lengthBuffer /\ phase' = phase /\ sound' = sound
      /\ count' = count /\ at' = at /\ bytecode' = bytecode /\ warned' = warned
      /\ last' = last /\ faults' = faults
  BY DEF TypeOK, Submit, firmware
<1>3. TypeOK'
  <2>1. submitted' \in Seq(Programs) /\ Len(submitted') = Len(submitted) + 1
    BY <1>1, <1>2, AppendProperties
  <2>2. line' \in Seq(Byte)
    BY <1>0, <1>1, <1>2, BytesConcat
  <2>3. Len(submitted') <= Ahead
    BY <2>1, <1>2, LenProperties, SizesAssumption DEF Submit
  <2> QED BY <1>2, <2>1, <2>2, <2>3 DEF TypeOK
<1>4. Stream' = Stream \o Encode(p)
  <2>1. (fifo \o line) \o Encode(p) = fifo \o (line \o Encode(p))
    BY <1>0, <1>2, BytesConcat
  <2> QED BY <1>1, <1>2, <2>1 DEF Stream
<1>5. Wire(submitted') = Wire(submitted) \o Encode(p)
  BY <1>0, <1>1, <1>2, WireOfSubmit
<1>6. Stream \in Seq(Byte) /\ Wire(submitted) \in Seq(Byte)
  BY StreamTypes
<1>7. ReadingLength'
  <2>1. lengthBuffer \o (Stream \o Encode(p)) = (lengthBuffer \o Stream) \o Encode(p)
    <3>1. lengthBuffer \in Seq(Byte)
      BY <1>2
    <3> QED BY <1>0, <1>6, <3>1, BytesConcat
  <2> QED BY <1>2, <1>4, <1>5, <2>1 DEF InStep, ReadingLength
<1>8. ReadingPayload'
  <2> SUFFICES ASSUME sound, phase = "payload"
      PROVE  /\ submitted' # << >> /\ count = Len(Head(submitted'))
             /\ \A i \in 1 .. count : i <= at => bytecode[i] = Head(submitted')[i]
             /\ Stream' = SubSeq(Head(submitted'), at + 1, count) \o Wire(Tail(submitted'))
    BY <1>2 DEF ReadingPayload
  <2>1. /\ submitted # << >> /\ count = Len(Head(submitted))
        /\ \A i \in 1 .. count : i <= at => bytecode[i] = Head(submitted)[i]
        /\ Stream = SubSeq(Head(submitted), at + 1, count) \o Wire(Tail(submitted))
    BY DEF InStep, ReadingPayload
  <2>2. submitted' # << >> /\ Head(submitted') = Head(submitted)
        /\ Tail(submitted') = Append(Tail(submitted), p)
    BY <1>1, <1>2, <2>1, HeadTailAppend, AppendProperties
  <2>3. Tail(submitted) \in Seq(Programs) /\ Len(Tail(submitted)) = Len(submitted) - 1
    BY <1>2, <2>1, HeadTailProperties
  <2>4. Len(submitted) \in Nat
    BY <1>2, LenProperties
  <2>5. Len(Tail(submitted)) < 2
    BY <1>0, <2>3, <2>4
  <2>6. Wire(Tail(submitted')) = Wire(Tail(submitted)) \o Encode(p)
    BY <2>2, <2>3, <2>5, WireOfSubmit
  <2>7. Wire(Tail(submitted)) \in Seq(Byte)
    <3>1. Len(Tail(submitted)) <= 2 /\ Tail(submitted) \in Seq(Programs)
      <4>1. submitted \in Seq(Programs) /\ Len(submitted) <= 2
        BY <1>2, StreamTypes
      <4> QED BY <2>1, <4>1, WireOfHead
    <3> QED BY <3>1, WireTypes
  <2>8. SubSeq(Head(submitted), at + 1, count) \in Seq(Byte)
    <3>1. Head(submitted) \in Programs
      BY <1>2, <2>1, HeadTailProperties
    <3>2. Head(submitted) \in Seq(Byte) /\ count \in Nat /\ at \in Nat
      BY <3>1, ProgramTypes DEF TypeOK
    <3>3. \A i \in at + 1 .. count : Head(submitted)[i] \in Byte
      BY <2>1, <3>2, ElementOfSeq
    <3> QED BY <3>2, <3>3, SubSeqProperties
  <2>9. Stream' = SubSeq(Head(submitted), at + 1, count) \o (Wire(Tail(submitted)) \o Encode(p))
    BY <1>0, <1>4, <2>1, <2>7, <2>8, BytesConcat
  <2> QED BY <2>1, <2>2, <2>6, <2>9
<1>9. Running' /\ Cleared' /\ Warnings'
  BY <1>2, <1>4, <1>5 DEF InStep, Running, Cleared, Warnings
<1>10. Contract!Submit
  BY <1>1, <1>2 DEF Contract!Submit
<1> QED BY <1>3, <1>7, <1>8, <1>9, <1>10 DEF Kept, InStep, Contract!Next

LEMMA TransmitKept == IInv /\ Transmit => Kept
<1> SUFFICES ASSUME IInv, Transmit PROVE Kept
  OBVIOUS
<1> USE DEF IInv
<1>1. /\ fifo \in Seq(Byte) /\ line \in Seq(Byte) /\ line # << >>
      /\ fifo' = Append(fifo, Head(line)) /\ line' = Tail(line)
      /\ UNCHANGED << submitted, last, sound, phase, lengthBuffer, count, at, bytecode,
                      warned, faults >>
  BY DEF TypeOK, Transmit, firmware
<1>2. Stream' = Stream
  BY <1>1, TransmitKeeps DEF Stream
<1>3. Head(line) \in Byte /\ Tail(line) \in Seq(Byte) /\ Append(fifo, Head(line)) \in Seq(Byte)
  BY <1>1, HeadTailProperties, AppendProperties
<1>4. TypeOK'
  BY <1>1, <1>3 DEF TypeOK
<1>5. InStep'
  BY <1>1, <1>2 DEF InStep, ReadingLength, ReadingPayload, Running, Cleared, Warnings
<1> QED BY <1>1, <1>4, <1>5 DEF Kept

LEMMA OverrunKept == IInv /\ Overrun => Kept
<1> SUFFICES ASSUME IInv, Overrun PROVE Kept
  OBVIOUS
<1> USE DEF IInv
<1>1. /\ line \in Seq(Byte) /\ line # << >> /\ line' = Tail(line) /\ sound' = FALSE
      /\ UNCHANGED << submitted, last, fifo, phase, lengthBuffer, count, at, bytecode,
                      warned, faults >>
  BY DEF TypeOK, Overrun, firmware
<1>2. TypeOK'
  <2>1. Tail(line) \in Seq(Byte)
    BY <1>1, HeadTailProperties
  <2> QED BY <1>1, <2>1 DEF TypeOK
<1>3. InStep'
  BY <1>1 DEF InStep, ReadingLength, ReadingPayload, Running, Cleared, Warnings
<1>4. Contract!Break
  BY <1>1 DEF Contract!Break
<1> QED BY <1>2, <1>3, <1>4 DEF Kept, Contract!Next

LEMMA DisturbKept == IInv /\ Disturb => Kept
<1> SUFFICES ASSUME IInv, Disturb PROVE Kept
  OBVIOUS
<1> USE DEF IInv
<1>1. /\ line \in Seq(Byte) /\ sound' = FALSE /\ faults < MaxFaults /\ faults' = faults + 1
      /\ UNCHANGED << submitted, last, fifo, phase, lengthBuffer, count, at, bytecode, warned >>
  BY DEF TypeOK, Disturb, firmware
<1>2. line' \in Seq(Byte)
  <2>1. CASE line # << >> /\ line' = Tail(line)
    BY <1>1, <2>1, HeadTailProperties
  <2>2. CASE line # << >> /\ \E b \in Litter : line' = << b >> \o Tail(line)
    <3>1. PICK b \in Byte : line' = << b >> \o Tail(line)
      BY <2>2, SizesAssumption
    <3>2. Tail(line) \in Seq(Byte) /\ << b >> \in Seq(Byte)
      BY <1>1, <2>2, HeadTailProperties
    <3> QED BY <3>1, <3>2, ConcatProperties
  <2>3. CASE \E b \in Litter : line' = << b >> \o line
    <3>1. PICK b \in Byte : line' = << b >> \o line
      BY <2>3, SizesAssumption
    <3>2. << b >> \in Seq(Byte)
      OBVIOUS
    <3> QED BY <1>1, <3>1, <3>2, ConcatProperties
  <2> QED BY <2>1, <2>2, <2>3 DEF Disturb
<1>3. TypeOK'
  <2>1. faults + 1 \in Nat /\ faults + 1 <= MaxFaults
    BY <1>1, SizesAssumption DEF TypeOK
  <2> QED BY <1>1, <1>2, <2>1 DEF TypeOK
<1>4. InStep'
  BY <1>1 DEF InStep, ReadingLength, ReadingPayload, Running, Cleared, Warnings
<1>5. Contract!Break
  BY <1>1 DEF Contract!Break
<1> QED BY <1>3, <1>4, <1>5 DEF Kept, Contract!Next

LEMMA ReadLengthKept == IInv /\ ReadLength => Kept
<1> SUFFICES ASSUME IInv, ReadLength PROVE Kept
  OBVIOUS
<1> USE DEF IInv
<1>1. /\ fifo \in Seq(Byte) /\ line \in Seq(Byte) /\ lengthBuffer \in Seq(Byte)
      /\ fifo # << >> /\ phase = "length" /\ Len(lengthBuffer) < LengthBytes
      /\ lengthBuffer' = Append(lengthBuffer, Head(fifo)) /\ fifo' = Tail(fifo)
      /\ UNCHANGED << submitted, last, sound, line, phase, count, at, bytecode, warned, faults >>
  BY DEF TypeOK, ReadLength, TakesByte
<1>2. Head(fifo) \in Byte /\ Tail(fifo) \in Seq(Byte) /\ << Head(fifo) >> \in Seq(Byte)
  BY <1>1, HeadTailProperties
<1>3. lengthBuffer' \in Seq(Byte) /\ Len(lengthBuffer') = Len(lengthBuffer) + 1
  BY <1>1, <1>2, AppendProperties
<1>4. Len(lengthBuffer) \in Nat
  BY <1>1, LenProperties
<1>5. TypeOK'
  BY <1>1, <1>2, <1>3, <1>4 DEF TypeOK, LengthBytes
<1>6. lengthBuffer' \o Stream' = lengthBuffer \o Stream
  <2>1. Stream = << Head(fifo) >> \o Stream' /\ Stream' \in Seq(Byte)
    BY <1>1, <1>2, ReadSplits, ConcatProperties DEF Stream
  <2>2. lengthBuffer' = lengthBuffer \o << Head(fifo) >>
    BY <1>1, <1>2, AppendIsConcat
  <2> QED BY <1>1, <1>2, <2>1, <2>2, ConcatAssociative
<1>7. InStep'
  BY <1>1, <1>6 DEF InStep, ReadingLength, ReadingPayload, Running, Cleared, Warnings
<1> QED BY <1>1, <1>5, <1>7 DEF Kept

LEMMA AcceptKept == IInv /\ Accept => Kept
<1> SUFFICES ASSUME IInv, Accept PROVE Kept
  OBVIOUS
<1> USE DEF IInv
<1>1. /\ phase = "length" /\ Len(lengthBuffer) = LengthBytes /\ Fits(Length(lengthBuffer))
      /\ phase' = "payload" /\ count' = Length(lengthBuffer) /\ at' = 0
      /\ lengthBuffer' = << >>
      /\ UNCHANGED << submitted, last, sound, line, fifo, bytecode, warned, faults >>
      /\ lengthBuffer \in Seq(Byte) /\ submitted \in Seq(Programs)
  BY DEF TypeOK, Accept
<1>2. Length(lengthBuffer) \in Nat
  <2>1. lengthBuffer \in [1 .. 4 -> Byte]
    BY <1>1, LenProperties DEF LengthBytes
  <2>2. \A i \in 1 .. 4 : lengthBuffer[i] \in Nat
    BY <2>1 DEF Byte
  <2>3. /\ lengthBuffer[1] \in Nat /\ lengthBuffer[2] \in Nat
        /\ lengthBuffer[3] \in Nat /\ lengthBuffer[4] \in Nat
    BY <2>2
  <2> QED BY <2>3 DEF Length
<1>3. TypeOK'
  <2>1. << >> \in Seq(Byte) /\ Len(<< >>) = 0
    BY EmptySeq
  <2> QED BY <1>1, <1>2, <2>1 DEF TypeOK, LengthBytes, Fits
<1>4. Stream' = Stream /\ Stream \in Seq(Byte) /\ Wire(submitted) \in Seq(Byte)
      /\ Len(submitted) <= 2
  BY <1>1, StreamTypes DEF Stream
<1>5. ReadingPayload'
  <2> SUFFICES ASSUME sound
      PROVE  /\ submitted # << >> /\ count' = Len(Head(submitted))
             /\ Stream = SubSeq(Head(submitted), 1, count') \o Wire(Tail(submitted))
    <3>1. ~(1 <= 0) /\ 0 + 1 = 1 /\ \A i \in 1 .. count' : ~(i <= at')
      BY <1>1, <1>2
    <3> QED BY <1>1, <1>4, <3>1 DEF ReadingPayload
  <2>1. lengthBuffer \o Stream = Wire(submitted)
    BY <1>1 DEF InStep, ReadingLength
  <2>2. submitted # << >>
    <3> SUFFICES ASSUME submitted = << >> PROVE FALSE
      OBVIOUS
    <3>1. lengthBuffer \o Stream = << >>
      BY <2>1 DEF Wire
    <3>2. lengthBuffer = << >>
      BY <1>1, <1>4, <3>1, ConcatEqualIffEmpty
    <3> QED BY <1>1, <3>2, EmptySeq DEF LengthBytes
  <2> DEFINE p == Head(submitted)
             w == Wire(Tail(submitted))
  <2>3. p \in Programs /\ w \in Seq(Byte) /\ Wire(submitted) = Encode(p) \o w
    BY <1>1, <1>4, <2>2, WireOfHead, WireTypes
  <2>4. p \in Seq(Byte)
    BY <2>3, ProgramTypes
  <2> HIDE DEF p, w
  <2>5. /\ Digits(Len(p)) \in Seq(Byte) /\ Len(Digits(Len(p))) = LengthBytes
        /\ Length(Digits(Len(p))) = Len(p)
    BY <2>3, EncodeTypes
  <2>6. Wire(submitted) = Digits(Len(p)) \o (p \o w) /\ p \o w \in Seq(Byte)
    BY <2>3, <2>4, <2>5, BytesConcat DEF Encode
  <2>7. lengthBuffer = Digits(Len(p)) /\ Stream = p \o w
    <3>1. lengthBuffer \o Stream = Digits(Len(p)) \o (p \o w)
      BY <2>1, <2>6
    <3>2. Len(lengthBuffer) = Len(Digits(Len(p)))
      BY <1>1, <2>5
    <3>3. /\ lengthBuffer \in Seq(Byte) /\ Stream \in Seq(Byte)
          /\ Digits(Len(p)) \in Seq(Byte) /\ p \o w \in Seq(Byte)
      BY <1>1, <1>4, <2>5, <2>6
    <3> QED BY <3>1, <3>2, <3>3, PrefixesCancel
  <2>8. SubSeq(p, 1, Len(p)) = p
    BY <2>4, SubSeqFull
  <2> QED BY <1>1, <2>2, <2>5, <2>7, <2>8 DEF p, w
<1>6. InStep'
  BY <1>1, <1>5 DEF InStep, ReadingLength, Running, Cleared, Warnings
<1> QED BY <1>1, <1>3, <1>6 DEF Kept

LEMMA RefuseKept == IInv /\ Refuse => Kept
<1> SUFFICES ASSUME IInv, Refuse PROVE Kept
  OBVIOUS
<1> USE DEF IInv
<1>1. /\ phase = "length" /\ warned' = TRUE /\ sound' = FALSE /\ lengthBuffer' = << >>
      /\ UNCHANGED << submitted, last, line, fifo, phase, count, at, bytecode, faults >>
  BY DEF Refuse
<1>2. TypeOK'
  <2>1. << >> \in Seq(Byte) /\ Len(<< >>) = 0
    BY EmptySeq
  <2>2. lengthBuffer' \in Seq(Byte) /\ Len(lengthBuffer') <= LengthBytes
    BY <1>1, <2>1 DEF LengthBytes
  <2> QED BY <1>1, <2>2 DEF TypeOK
<1>3. InStep'
  BY <1>1 DEF InStep, ReadingLength, ReadingPayload, Running, Cleared, Warnings
<1>4. Contract!Break
  BY <1>1 DEF Contract!Break
<1> QED BY <1>2, <1>3, <1>4 DEF Kept, Contract!Next

LEMMA ReadPayloadKept == IInv /\ ReadPayload => Kept
<1> SUFFICES ASSUME IInv, ReadPayload PROVE Kept
  OBVIOUS
<1> USE DEF IInv
<1>1. /\ phase = "payload" /\ at < count /\ fifo # << >>
      /\ bytecode' = [bytecode EXCEPT ![at + 1] = Head(fifo)]
      /\ fifo' = Tail(fifo) /\ at' = at + 1
      /\ UNCHANGED << submitted, last, sound, line, phase, lengthBuffer, count, warned, faults >>
      /\ fifo \in Seq(Byte) /\ line \in Seq(Byte) /\ submitted \in Seq(Programs)
      /\ bytecode \in [Code -> Byte] /\ at \in Nat /\ count \in Nat /\ count < BufferSize
  BY DEF TypeOK, ReadPayload, TakesByte, Fits
<1>2. Head(fifo) \in Byte /\ Tail(fifo) \in Seq(Byte) /\ << Head(fifo) >> \in Seq(Byte)
  BY <1>1, HeadTailProperties
<1>3. at + 1 \in Nat /\ at + 1 <= count /\ at + 1 \in Code
  BY <1>1, SizesAssumption DEF Code
<1>4. TypeOK'
  <2>1. bytecode' \in [Code -> Byte]
    BY <1>1, <1>2, <1>3
  <2> QED BY <1>1, <1>2, <1>3, <2>1 DEF TypeOK
<1>5. ReadingPayload'
  <2> SUFFICES ASSUME sound
      PROVE  /\ submitted # << >> /\ count = Len(Head(submitted))
             /\ \A i \in 1 .. count : i <= at + 1 => bytecode'[i] = Head(submitted)[i]
             /\ Stream' = SubSeq(Head(submitted), (at + 1) + 1, count) \o Wire(Tail(submitted))
    BY <1>1 DEF ReadingPayload
  <2> DEFINE p == Head(submitted)
             w == Wire(Tail(submitted))
             rest == SubSeq(p, (at + 1) + 1, count)
  <2>1. /\ submitted # << >> /\ count = Len(p)
        /\ \A i \in 1 .. count : i <= at => bytecode[i] = p[i]
        /\ Stream = SubSeq(p, at + 1, count) \o w
    BY <1>1 DEF InStep, ReadingPayload
  <2>2. p \in Programs /\ w \in Seq(Byte)
    <3>1. Len(submitted) <= 2
      BY StreamTypes
    <3> QED BY <1>1, <2>1, <3>1, WireOfHead, WireTypes
  <2>3. p \in Seq(Byte) /\ Len(p) \in Nat
    BY <2>2, ProgramTypes
  <2> HIDE DEF p, w
  <2>4. at + 1 \in 1 .. Len(p) /\ count \in at + 1 .. Len(p)
    BY <1>1, <1>3, <2>1, <2>3
  <2>5. SubSeq(p, at + 1, count) = << p[at + 1] >> \o rest
    BY <2>3, <2>4, SubSeqRecursiveFirst
  <2>6. p[at + 1] \in Byte /\ << p[at + 1] >> \in Seq(Byte) /\ Len(<< p[at + 1] >>) = 1
    BY <2>3, <2>4, ElementOfSeq
  <2>7. rest \in Seq(Byte)
    <3>1. \A i \in (at + 1) + 1 .. count : p[i] \in Byte
      BY <1>1, <2>1, <2>3, ElementOfSeq
    <3>2. (at + 1) + 1 \in Int /\ count \in Int
      BY <1>1
    <3> QED BY <3>1, <3>2, SubSeqProperties
  <2> HIDE DEF rest
  <2>8. Stream = << p[at + 1] >> \o (rest \o w) /\ rest \o w \in Seq(Byte)
    <3>1. Stream = (<< p[at + 1] >> \o rest) \o w
      BY <2>1, <2>5
    <3> QED BY <2>2, <2>6, <2>7, <3>1, BytesConcat
  <2>9. Stream = << Head(fifo) >> \o Stream' /\ Stream' \in Seq(Byte)
    <3>1. Tail(fifo) \o line \in Seq(Byte)
      BY <1>1, <1>2, BytesConcat
    <3> QED BY <1>1, <3>1, ReadSplits DEF Stream
  <2>10. << p[at + 1] >> = << Head(fifo) >> /\ rest \o w = Stream'
    <3>1. << p[at + 1] >> \o (rest \o w) = << Head(fifo) >> \o Stream'
      BY <2>8, <2>9
    <3>2. Len(<< p[at + 1] >>) = Len(<< Head(fifo) >>)
      OBVIOUS
    <3> QED BY <1>2, <2>6, <2>8, <2>9, <3>1, <3>2, PrefixesCancel
  <2>11. p[at + 1] = Head(fifo)
    BY <2>10
  <2>12. \A i \in 1 .. count : i <= at + 1 => bytecode'[i] = p[i]
    <3> SUFFICES ASSUME NEW i \in 1 .. count, i <= at + 1 PROVE bytecode'[i] = p[i]
      OBVIOUS
    <3>1. i \in Code
      BY <1>1, SizesAssumption DEF Code
    <3>2. CASE i = at + 1
      BY <1>1, <1>3, <2>11, <3>2
    <3>3. CASE i # at + 1
      <4>1. i <= at
        BY <1>1, <3>3
      <4>2. bytecode'[i] = bytecode[i]
        BY <1>1, <3>1, <3>3
      <4> QED BY <2>1, <4>1, <4>2
    <3> QED BY <3>2, <3>3
  <2> QED BY <2>1, <2>10, <2>12 DEF p, w, rest
<1>6. InStep'
  BY <1>1, <1>5 DEF InStep, ReadingLength, Running, Cleared, Warnings
<1> QED BY <1>1, <1>4, <1>6 DEF Kept

LEMMA ExecuteKept == IInv /\ Execute => Kept
<1> SUFFICES ASSUME IInv, Execute PROVE Kept
  OBVIOUS
<1> USE DEF IInv
<1>1. /\ phase = "payload" /\ at = count /\ phase' = "run"
      /\ last' = Executed(bytecode)
      /\ submitted' = IF sound THEN Tail(submitted) ELSE submitted
      /\ UNCHANGED << sound, line, fifo, lengthBuffer, count, at, bytecode, warned, faults >>
      /\ submitted \in Seq(Programs) /\ bytecode \in [Code -> Byte]
      /\ count \in Nat /\ Fits(count) /\ lengthBuffer = << >>
  BY DEF TypeOK, Execute, InStep, Cleared, Fits
<1>2. /\ DOMAIN Executed(bytecode) \subseteq Code
      /\ Executed(bytecode) \in [DOMAIN Executed(bytecode) -> Byte]
  BY <1>1 DEF Executed
<1>3. CASE ~sound
  <2>1. TypeOK'
    BY <1>1, <1>2, <1>3 DEF TypeOK
  <2>2. InStep'
    BY <1>1, <1>3 DEF InStep, ReadingLength, ReadingPayload, Running, Cleared, Warnings
  <2>3. Contract!RunAnything
    BY <1>1, <1>3 DEF Contract!RunAnything
  <2> QED BY <2>1, <2>2, <2>3 DEF Kept, Contract!Next
<1>4. CASE sound
  <2> DEFINE p == Head(submitted)
             w == Wire(Tail(submitted))
  <2>1. /\ submitted # << >> /\ count = Len(p)
        /\ \A i \in 1 .. count : i <= at => bytecode[i] = p[i]
        /\ Stream = SubSeq(p, at + 1, count) \o w
    BY <1>1, <1>4 DEF InStep, ReadingPayload
  <2>2. /\ p \in Programs /\ w \in Seq(Byte)
        /\ Tail(submitted) \in Seq(Programs) /\ Len(Tail(submitted)) = Len(submitted) - 1
    <3>1. Len(submitted) <= 2
      BY StreamTypes
    <3> QED BY <1>1, <2>1, <3>1, WireOfHead, WireTypes, HeadTailProperties
  <2> HIDE DEF p, w
  <2>3. Executed(bytecode) = p
    <3>1. Fits(Len(p)) /\ \A i \in 1 .. Len(p) : bytecode[i] = p[i]
      BY <1>1, <2>1
    <3> QED BY <1>1, <2>2, <3>1, ExecutedIsProgram
  <2>4. Stream' = Wire(submitted')
    <3>1. SubSeq(p, at + 1, count) = << >>
      BY <1>1, SubSeqEmpty
    <3>2. << >> \o w = w
      BY <2>2, ConcatEmptySeq
    <3> QED BY <1>1, <1>4, <2>1, <3>1, <3>2 DEF w, Stream
  <2>5. TypeOK'
    <3>1. Len(submitted) \in Nat /\ Len(submitted) <= Ahead
      BY <1>1, LenProperties DEF TypeOK
    <3>2. Len(Tail(submitted)) <= Ahead
      BY <2>2, <3>1, SizesAssumption
    <3> QED BY <1>1, <1>2, <1>4, <2>2, <3>2 DEF TypeOK
  <2>6. InStep'
    BY <1>1, <1>4, <2>4 DEF InStep, ReadingLength, ReadingPayload, Running, Cleared, Warnings
  <2>7. Contract!Run
    BY <1>1, <1>4, <2>1, <2>3 DEF Contract!Run, p
  <2> QED BY <2>5, <2>6, <2>7 DEF Kept, Contract!Next
<1> QED BY <1>3, <1>4

LEMMA FinishKept == IInv /\ Finish => Kept
<1> SUFFICES ASSUME IInv, Finish PROVE Kept
  OBVIOUS
<1> USE DEF IInv
<1>1. /\ phase = "run" /\ phase' = "length"
      /\ UNCHANGED << submitted, last, sound, line, fifo, lengthBuffer, count, at,
                      bytecode, warned, faults >>
  BY DEF Finish
<1>2. TypeOK'
  BY <1>1 DEF TypeOK
<1>3. lengthBuffer \o Stream = Stream /\ Stream' = Stream
  <2>1. Stream \in Seq(Byte) /\ lengthBuffer = << >>
    BY <1>1, StreamTypes DEF InStep, Cleared
  <2>2. << >> \o Stream = Stream
    BY <2>1, ConcatEmptySeq
  <2> QED BY <1>1, <2>1, <2>2 DEF Stream
<1>4. InStep'
  BY <1>1, <1>3 DEF InStep, ReadingLength, ReadingPayload, Running, Cleared, Warnings
<1> QED BY <1>1, <1>2, <1>4 DEF Kept

LEMMA ResetKept == IInv /\ Reset => Kept
<1> SUFFICES ASSUME IInv, Reset PROVE Kept
  OBVIOUS
<1> USE DEF IInv
<1>1. /\ warned /\ warned' = FALSE /\ sound' = TRUE
      /\ line' = IF submitted' = << >> THEN << >> ELSE Encode(Head(submitted'))
      /\ fifo' = << >> /\ phase' = "length" /\ lengthBuffer' = << >> /\ count' = 0 /\ at' = 0
      /\ UNCHANGED << last, faults >> /\ submitted \in Seq(Programs)
      /\ faults \in Nat /\ faults <= MaxFaults
  BY DEF Reset, TypeOK
<1>2. bytecode' \in [Code -> Byte]
  BY SizesAssumption DEF Reset, TypeOK
<1>3. \/ submitted' = << >>
      \/ submitted # << >> /\ submitted' = << Head(submitted) >>
  BY DEF Reset
<1>4. << >> \in Seq(Byte) /\ << >> \o << >> = << >> /\ Len(<< >>) = 0
  BY EmptySeq, ConcatEmptySeq
<1>5. /\ submitted' \in Seq(Programs) /\ Len(submitted') <= 1 /\ line' \in Seq(Byte)
      /\ Stream' = Wire(submitted')
  <2>1. CASE submitted' = << >>
    <3>1. << >> \in Seq(Programs)
      BY EmptySeq
    <3> QED BY <1>1, <1>4, <2>1, <3>1 DEF Stream, Wire
  <2>2. CASE submitted # << >> /\ submitted' = << Head(submitted) >>
    <3>1. Head(submitted) \in Programs
      BY <1>1, <2>2, HeadTailProperties
    <3>2. Encode(Head(submitted)) \in Seq(Byte)
      BY <3>1, EncodeTypes
    <3>3. line' = Encode(Head(submitted))
      BY <1>1, <2>2
    <3>4. Stream' = Encode(Head(submitted))
      BY <1>1, <3>2, <3>3, ConcatEmptySeq DEF Stream
    <3>5. /\ << Head(submitted) >> \in Seq(Programs) /\ Len(<< Head(submitted) >>) = 1
          /\ << Head(submitted) >> # << >> /\ << Head(submitted) >>[1] = Head(submitted)
      BY <3>1
    <3> QED BY <2>2, <3>2, <3>3, <3>4, <3>5 DEF Wire
  <2> QED BY <1>3, <2>1, <2>2
<1>6. TypeOK'
  <2>1. Len(submitted') <= Ahead
    BY <1>5, LenProperties, SizesAssumption
  <2>2. Fits(0)
    BY SizesAssumption DEF Fits
  <2>3. fifo' \in Seq(Byte) /\ lengthBuffer' \in Seq(Byte) /\ Len(lengthBuffer') <= LengthBytes
    BY <1>1, <1>4 DEF LengthBytes
  <2>4. DOMAIN last' \subseteq Code /\ last' \in [DOMAIN last' -> Byte]
    BY <1>1 DEF TypeOK
  <2>5. sound' \in BOOLEAN /\ warned' \in BOOLEAN /\ phase' \in {"length", "payload", "run"}
    BY <1>1
  <2>6. /\ count' \in Nat /\ Fits(count') /\ at' \in Nat /\ at' <= count'
        /\ faults' \in Nat /\ faults' <= MaxFaults
    BY <1>1, <2>2
  <2> QED BY <1>2, <1>5, <2>1, <2>3, <2>4, <2>5, <2>6 DEF TypeOK, Fits
<1>7. InStep'
  <2>1. Stream' \in Seq(Byte)
    BY <1>5, BytesConcat, <1>1, <1>4 DEF Stream
  <2>2. lengthBuffer' \o Stream' = Stream'
    BY <1>1, <2>1, ConcatEmptySeq
  <2> QED BY <1>1, <1>5, <2>2 DEF InStep, ReadingLength, ReadingPayload, Running, Cleared, Warnings
<1>8. Contract!Reset
  BY <1>1, <1>3 DEF Contract!Reset, InStep, Warnings
<1> QED BY <1>6, <1>7, <1>8 DEF Kept, Contract!Next

LEMMA StutterKept == IInv /\ UNCHANGED vars => Kept
<1> SUFFICES ASSUME IInv, UNCHANGED vars PROVE Kept
  OBVIOUS
<1>1. TypeOK'
  BY DEF IInv, TypeOK, vars
<1>2. InStep'
  BY DEF IInv, vars, InStep, ReadingLength, ReadingPayload, Running, Cleared, Warnings, Stream
<1> QED BY <1>1, <1>2 DEF Kept, IInv, vars

LEMMA NextKept == IInv /\ [Next]_vars => Kept
BY SubmitKept, TransmitKept, OverrunKept, DisturbKept, ReadLengthKept, AcceptKept, RefuseKept,
   ReadPayloadKept, ExecuteKept, FinishKept, ResetKept, StutterKept
   DEF Next, Receives, Reads

-----------------------------------------------------------------------------
(* Whatever the programs, the buffer, the FIFO and the faults are, the code *)
(* that is read stays within the buffer (main's test of the length).       *)
THEOREM UploadTypesAlways == Spec => []TypeOK
<1>1. Init => IInv
  BY InitIInv
<1>2. IInv /\ [Next]_vars => IInv'
  BY NextKept DEF Kept
<1>3. IInv => TypeOK
  BY DEF IInv
<1> QED BY <1>1, <1>2, <1>3, PTL DEF Spec

(* On a sound line, and after every reset, the programs run as they were    *)
(* sent, in order, each once (main's loop implements the contract).        *)
THEOREM ImplementsContractAlways == Spec => ImplementsContract
<1>1. Init => IInv /\ Contract!Init
  BY InitIInv
<1>2. IInv /\ [Next]_vars => IInv' /\ [Contract!Next]_<< submitted, last, sound >>
  BY NextKept DEF Kept
<1> QED BY <1>1, <1>2, PTL DEF Spec, ImplementsContract, Contract!Spec

=============================================================================
