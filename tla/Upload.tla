------------------------------- MODULE Upload -------------------------------
(***************************************************************************)
(* The serial line between the operator and the debugger's main loop: a    *)
(* length of four bytes, that many bytes of code, and then the code runs.  *)
(* The firmware polls one receiver whose FIFO goes on filling while a      *)
(* program runs.  Nothing on the line marks where an upload begins.        *)
(***************************************************************************)
EXTENDS Naturals, Sequences

CONSTANTS
  Programs,    \* what the operator may send
  End,         \* the byte of the instruction that ends a program
  Litter,      \* the bytes that faults and uninitialised memory may show
  BufferSize,  \* BYTECODE_BUFFER_SIZE
  FifoSize,    \* the bytes that the receiver holds
  MaxFaults,   \* a bound on the faults of the line
  Ahead        \* programs that the operator sends before the first has run

Byte == { b \in Nat : b < 256 }
Code == 1 .. BufferSize

\* A program ends itself: no byte before its last one is the end.
SelfEnding(p) ==
  p # << >> /\ \A i \in 1 .. Len(p) : p[i] = End <=> i = Len(p)

ASSUME ProgramsAssumption ==
  \A p \in Programs : p \in Seq(Byte) /\ Len(p) \div 65536 < 65536 /\ SelfEnding(p)
ASSUME SizesAssumption ==
  /\ BufferSize \in Nat \ {0} /\ FifoSize \in Nat \ {0} /\ MaxFaults \in Nat
  /\ End \in Byte /\ Litter \subseteq Byte /\ Ahead \in {1, 2}

VARIABLES
  submitted,     \* the programs sent that have not run yet
  last,          \* what ran last
  sound,         \* nothing lost and nothing refused since the last reset
  line,          \* the bytes on their way
  fifo,          \* the bytes received and not read
  phase,         \* "length", "payload", or "run"
  lengthBuffer,  \* the bytes of the length read so far
  count,         \* bytecode_length
  at,            \* how much of the code has been read
  bytecode,      \* the buffer
  warned,        \* "Bytecode too long" has been shown
  faults         \* how many faults the line has had

vars == << submitted, last, sound, line, fifo, phase, lengthBuffer, count, at,
           bytecode, warned, faults >>
firmware == << phase, lengthBuffer, count, at, bytecode, warned >>

-----------------------------------------------------------------------------
(* The format of an upload.                                                *)

\* Mutant: the firmware takes a byte too many for the length.
LengthBytesFive == 5
LengthBytes == 4

\* The length in four bytes, the lowest first.
Digits(n) ==
  << n % 256, (n \div 256) % 256, ((n \div 256) \div 256) % 256,
     (((n \div 256) \div 256) \div 256) % 256 >>
Encode(p) == Digits(Len(p)) \o p

\* The sum in main's loop over the four bytes.
Length(b) == b[1] + (256 * (b[2] + (256 * (b[3] + (256 * b[4])))))

\* Mutant: no test against the size of the buffer.
FitsAlways(length) == TRUE
Fits(length) == length < BufferSize

\* What runs of a buffer: the bytes that no end comes before.
Executed(buffer) ==
  LET reached == { i \in Code : \A j \in Code : j < i => buffer[j] # End }
  IN  [i \in reached |-> buffer[i]]

-----------------------------------------------------------------------------
(* The operator and the line.                                              *)

Init ==
  /\ submitted = << >> /\ last = << >> /\ sound = TRUE
  /\ line = << >> /\ fifo = << >>
  /\ phase = "length" /\ lengthBuffer = << >> /\ count = 0 /\ at = 0
  /\ bytecode \in [Code -> Litter]
  /\ warned = FALSE /\ faults = 0

Submit ==
  /\ Len(submitted) < Ahead
  /\ \E p \in Programs :
       submitted' = Append(submitted, p) /\ line' = line \o Encode(p)
  /\ UNCHANGED << last, sound, fifo, firmware, faults >>

Transmit ==
  /\ line # << >> /\ Len(fifo) < FifoSize
  /\ fifo' = Append(fifo, Head(line)) /\ line' = Tail(line)
  /\ UNCHANGED << submitted, last, sound, firmware, faults >>

\* A byte that finds the FIFO full is lost.  This happens while a program runs
\* or has something printed: in its reading loops the firmware is much
\* faster than the line.
Overrun ==
  /\ line # << >> /\ Len(fifo) = FifoSize /\ phase = "run"
  /\ line' = Tail(line) /\ sound' = FALSE
  /\ UNCHANGED << submitted, last, fifo, firmware, faults >>

\* The line loses, changes or invents a byte.  The firmware does not look at
\* the parity that it configures.
Disturb ==
  /\ faults < MaxFaults /\ faults' = faults + 1
  /\ sound' = FALSE
  /\ \/ line # << >> /\ line' = Tail(line)
     \/ line # << >> /\ \E b \in Litter : line' = << b >> \o Tail(line)
     \/ \E b \in Litter : line' = << b >> \o line
  /\ UNCHANGED << submitted, last, fifo, firmware >>

-----------------------------------------------------------------------------
(* The main loop.                                                          *)

\* One turn of Chip_UART_ReadBlocking that finds a byte.
TakesByte == fifo # << >> /\ fifo' = Tail(fifo)

ReadLength ==
  /\ phase = "length" /\ Len(lengthBuffer) < LengthBytes /\ TakesByte
  /\ lengthBuffer' = Append(lengthBuffer, Head(fifo))
  /\ UNCHANGED << submitted, last, sound, line, phase, count, at, bytecode, warned, faults >>

\* Mutant: the place in the buffer is that of the upload before.
AcceptGoesOn ==
  /\ phase = "length" /\ Len(lengthBuffer) = LengthBytes /\ Fits(Length(lengthBuffer))
  /\ phase' = "payload" /\ count' = Length(lengthBuffer) /\ lengthBuffer' = << >>
  /\ at' = IF at < count' THEN at ELSE count'
  /\ UNCHANGED << submitted, last, sound, line, fifo, bytecode, warned, faults >>

Accept ==
  /\ phase = "length" /\ Len(lengthBuffer) = LengthBytes /\ Fits(Length(lengthBuffer))
  /\ phase' = "payload" /\ count' = Length(lengthBuffer) /\ at' = 0
  /\ lengthBuffer' = << >>
  /\ UNCHANGED << submitted, last, sound, line, fifo, bytecode, warned, faults >>

\* The code stays unread, to be taken for the next lengths.
Refuse ==
  /\ phase = "length" /\ Len(lengthBuffer) = LengthBytes /\ ~Fits(Length(lengthBuffer))
  /\ warned' = TRUE /\ sound' = FALSE /\ lengthBuffer' = << >>
  /\ UNCHANGED << submitted, last, line, fifo, phase, count, at, bytecode, faults >>

ReadPayload ==
  /\ phase = "payload" /\ at < count /\ TakesByte
  /\ bytecode' = [bytecode EXCEPT ![at + 1] = Head(fifo)] /\ at' = at + 1
  /\ UNCHANGED << submitted, last, sound, line, phase, lengthBuffer, count, warned, faults >>

\* duckVM_execute is given the whole buffer.
Execute ==
  /\ phase = "payload" /\ at = count /\ phase' = "run"
  /\ last' = Executed(bytecode)
  /\ submitted' = IF sound THEN Tail(submitted) ELSE submitted
  /\ UNCHANGED << sound, line, fifo, lengthBuffer, count, at, bytecode, warned, faults >>

\* The program ends; the machine is reset and its heap collected.
Finish ==
  /\ phase = "run" /\ phase' = "length"
  /\ UNCHANGED << submitted, last, sound, line, fifo, lengthBuffer, count, at,
                  bytecode, warned, faults >>

\* The operator does as the instructions say of the message: resets the board
\* and tries again, unless the program is too long indeed.
Reset ==
  /\ warned /\ warned' = FALSE /\ sound' = TRUE
  /\ submitted' = IF submitted # << >> /\ Fits(Len(Head(submitted)))
                  THEN << Head(submitted) >> ELSE << >>
  /\ line' = IF submitted' = << >> THEN << >> ELSE Encode(Head(submitted'))
  /\ fifo' = << >>
  /\ phase' = "length" /\ lengthBuffer' = << >> /\ count' = 0 /\ at' = 0
  /\ bytecode' \in {bytecode} \cup [Code -> Litter]
  /\ UNCHANGED << last, faults >>

-----------------------------------------------------------------------------
Receives == Transmit \/ Overrun
Reads == ReadLength \/ Accept \/ Refuse \/ ReadPayload \/ Execute

Next == Submit \/ Receives \/ Disturb \/ Reads \/ Finish \/ Reset

\* The line does not stand still; the firmware is a single loop that polls;
\* programs end; and the operator follows the instructions.
Fairness ==
  WF_vars(Receives) /\ WF_vars(Reads) /\ WF_vars(Finish) /\ WF_vars(Reset)

Spec == Init /\ [][Next]_vars /\ Fairness

-----------------------------------------------------------------------------
(* The type invariant.  Whatever the line makes of an upload, the code that *)
(* is read stays within the buffer.                                        *)
TypeOK ==
  /\ submitted \in Seq(Programs) /\ Len(submitted) <= Ahead
  /\ DOMAIN last \subseteq Code /\ last \in [DOMAIN last -> Byte] /\ sound \in BOOLEAN
  /\ line \in Seq(Byte) /\ fifo \in Seq(Byte)
  /\ phase \in {"length", "payload", "run"}
  /\ lengthBuffer \in Seq(Byte) /\ Len(lengthBuffer) <= LengthBytes
  /\ count \in Nat /\ count < BufferSize /\ at \in Nat /\ at <= count
  /\ bytecode \in [Code -> Byte]
  /\ warned \in BOOLEAN /\ faults \in Nat /\ faults <= MaxFaults

(* Programs run as sent, in order and once each, whatever has been in the  *)
(* buffer before and whatever runs ahead on the line; and after a fault, or *)
(* a program refused, once the operator has reset the board.               *)
Contract == INSTANCE UploadContract
ImplementsContract == Contract!Spec

(* A program that was sent is run, unless the line fails it.               *)
UploadsRun ==
  (sound /\ submitted # << >> /\ phase # "run") ~> (phase = "run" \/ ~sound)

=============================================================================
