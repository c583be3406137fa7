--------------------------- MODULE EmulatorProofs ---------------------------
(***************************************************************************)
(* The emulated machine for every program, every power-on state and every  *)
(* number of steps: its types, its sequencer, who drives its buses and who *)
(* writes program memory, that it implements its instruction set, and what *)
(* the two sample programs compute on it.                                  *)
(***************************************************************************)
EXTENDS Retire, Software, AluLemmas

-----------------------------------------------------------------------------
(* The microprogram.                                                       *)

\* A microprogram whose first two words read the instruction, and whose last
\* word, and no other, resets the microprogram counter.
WellFormed(words) ==
  /\ words \in Seq(SUBSET Signals)
  /\ Len(words) >= 2 /\ Len(words) <= 8
  /\ words[1] = {"rdp", "pcoe"}
  /\ words[2] \subseteq {"rdp", "pcoe", "pcck", "upcrst"}
  /\ \A k \in 1 .. Len(words) : "upcrst" \in words[k] <=> k = Len(words)

\* A source or a destination: signals that do not end the microprogram.
Inner == SUBSET (Signals \ {"upcrst"})

Clocks == {"fclk", "aclk", "bclk", "cclk"}

LEMMA TransferWellFormed ==
  ASSUME NEW drive \in Inner, NEW latch \in Inner
  PROVE  WellFormed(Transfer(drive, latch))
BY DEF WellFormed, Transfer, ReadByte, StepPc, Inner, Signals, ActiveLow, ActiveHigh

LEMMA NoOperationWellFormed == WellFormed(NoOperation)
BY DEF WellFormed, NoOperation, ReadByte, StepPc, Signals, ActiveLow, ActiveHigh

LEMMA SwapWellFormed == WellFormed(Swap)
BY DEF WellFormed, Swap, ReadByte, StepPc, Signals, ActiveLow, ActiveHigh

LEMMA BranchWellFormed == WellFormed(Branch)
BY DEF WellFormed, Branch, ReadByte, StepPc, Signals, ActiveLow, ActiveHigh

LEMMA StoreProgramWellFormed ==
  ASSUME NEW source \in {"foe", "aoe"} PROVE WellFormed(StoreProgram(source))
BY DEF WellFormed, StoreProgram, ReadByte, StepPc, Signals, ActiveLow, ActiveHigh

LEMMA ImmediateWellFormed ==
  ASSUME NEW clk \in Clocks PROVE WellFormed(Immediate(clk))
BY DEF WellFormed, Immediate, ReadByte, StepPc, OperandByte, Clocks,
       Signals, ActiveLow, ActiveHigh

LEMMA AddressWellFormed == WellFormed(ImmediateAddress)
BY DEF WellFormed, ImmediateAddress, ReadByte, StepPc, OperandByte,
       Signals, ActiveLow, ActiveHigh

\* Every opcode has a well-formed microprogram.
LEMMA UopsWellFormed == \A op \in Opcodes : WellFormed(Uops(op))
<1> SUFFICES ASSUME NEW op \in Opcodes PROVE WellFormed(Uops(op))
  OBVIOUS
<1>1. ClockOf(op % 4) \in Clocks
  BY DEF ClockOf, Clocks
<1>2. CASE op \in 0 .. 3
  BY <1>1, <1>2, ImmediateWellFormed DEF Uops
<1>3. CASE op \in 4 .. 15
  <2>1. MoveSource(op) \in Inner /\ MoveTarget(op) \in Inner
    BY DEF MoveSource, MoveTarget, Inner, Signals, ActiveLow, ActiveHigh
  <2> QED BY <1>3, <2>1, TransferWellFormed DEF Uops
<1>4. CASE op \in 16 .. 23
  <2>1. {"rdd"} \in Inner /\ {"rdp", "dtoe", "bcoe"} \in Inner /\ {ClockOf(op % 4)} \in Inner
    BY <1>1 DEF Clocks, Inner, Signals, ActiveLow, ActiveHigh
  <2> QED BY <1>4, <2>1, TransferWellFormed DEF Uops
<1>5. CASE op \in 24 .. 25
  <2>1. {"foe"} \in Inner /\ {"aoe"} \in Inner /\ {"wrd"} \in Inner
    BY DEF Inner, Signals, ActiveLow, ActiveHigh
  <2> QED BY <1>5, <2>1, TransferWellFormed DEF Uops
<1>6. CASE op \in 26 .. 27
  BY <1>6, StoreProgramWellFormed DEF Uops
<1>7. CASE op \in 28 .. 31
  BY <1>7, BranchWellFormed DEF Uops
<1>8. CASE op \in 32 .. 39
  <2>1. /\ {"aluoe"} \in Inner /\ {"fsors", "aluoe"} \in Inner /\ {"fclk"} \in Inner
        /\ {"fclk", "aclk"} \in Inner /\ {"fclk", "bclk"} \in Inner
        /\ {"fclk", "cclk"} \in Inner
    BY DEF Inner, Signals, ActiveLow, ActiveHigh
  <2> QED BY <1>8, <2>1, TransferWellFormed DEF Uops
<1>9. CASE op \in (40 .. 59) \cup {63}
  BY <1>9, NoOperationWellFormed DEF Uops
<1>10. CASE op \in 60 .. 62
  <2>1. {"fsors", "ashoe"} \in Inner /\ {"fclk", "aclk"} \in Inner
    BY DEF Inner, Signals, ActiveLow, ActiveHigh
  <2> QED BY <1>10, <2>1, AddressWellFormed, TransferWellFormed, SwapWellFormed DEF Uops
<1> QED BY <1>2, <1>3, <1>4, <1>5, <1>6, <1>7, <1>8, <1>9, <1>10 DEF Opcodes

\* What the ROM holds at each offset below sixteen.
LEMMA RomWordFacts ==
  ASSUME NEW op \in Opcodes, NEW k \in Nat
  PROVE  /\ RomWord(op, k) \subseteq Signals
         /\ Len(Uops(op)) \in Nat /\ Len(Uops(op)) >= 2 /\ Len(Uops(op)) <= 8
         /\ RomWord(op, 0) = {"rdp", "pcoe"}
         /\ RomWord(op, 1) \subseteq {"rdp", "pcoe", "pcck", "upcrst"}
         /\ k < Len(Uops(op)) => ("upcrst" \in RomWord(op, k) <=> k = Len(Uops(op)) - 1)
         /\ k >= Len(Uops(op)) => RomWord(op, k) = {"rdp", "pcoe", "upcrst"}
<1>1. WellFormed(Uops(op))
  BY UopsWellFormed
<1>2. /\ Len(Uops(op)) \in Nat /\ Len(Uops(op)) >= 2 /\ Len(Uops(op)) <= 8
      /\ Uops(op) \in Seq(SUBSET Signals)
  BY <1>1 DEF WellFormed
<1>3. CASE k < Len(Uops(op))
  <2>1. k + 1 \in 1 .. Len(Uops(op)) /\ RomWord(op, k) = Uops(op)[k + 1]
    BY <1>2, <1>3 DEF RomWord
  <2>2. Uops(op)[k + 1] \in SUBSET Signals
    BY <1>2, <2>1
  <2> QED BY <1>1, <1>2, <1>3, <2>1, <2>2 DEF WellFormed, RomWord
<1>4. CASE k >= Len(Uops(op))
  <2>1. RomWord(op, k) = Fill
    BY <1>2, <1>4 DEF RomWord
  <2>2. Fill \subseteq Signals
    BY DEF Fill, Signals, ActiveLow, ActiveHigh
  <2> QED BY <1>1, <1>2, <1>4, <2>1, <2>2 DEF WellFormed, RomWord, Fill
<1> QED BY <1>2, <1>3, <1>4

\* Below sixteen the counter does not touch the opcode's bits.
LEMMA AddressedWord ==
  ASSUME NEW op \in Opcodes, NEW k \in 0 .. 15
  PROVE  MicrocodeAt(op, k) = RomWord(op, k)
<1>1. k \div 16 = 0 /\ k % 16 = k
  OBVIOUS
<1>2. BitOr(op, 0) = op
  BY DEF BitOr, BitAnd, Common, Opcodes
<1>3. op % 64 = op
  BY DEF Opcodes
<1> QED BY <1>1, <1>2, <1>3 DEF MicrocodeAt

-----------------------------------------------------------------------------
(* Types.                                                                  *)

LEMMA OpcodeOfByte == \A byte \in Byte : byte \div 4 \in Opcodes
BY DEF Byte, Opcodes

LEMMA AddressOfType ==
  ASSUME NEW high \in Byte, NEW low \in Byte PROVE AddressOf(high, low) \in Address
<1>1. high \in Nat /\ high <= 255 /\ low \in Nat /\ low <= 255
  BY DEF Byte
<1>2. (256 * high) + low \in Nat /\ (256 * high) + low < 65536
  BY <1>1
<1> QED BY <1>2 DEF AddressOf, Address

LEMMA ReadType ==
  ASSUME NEW memory, IsMemory(memory), NEW address, NEW erased \in Byte
  PROVE  Read(memory, address, erased) \in Byte
BY DEF Read, IsMemory

LEMMA WriteType ==
  ASSUME NEW memory, IsMemory(memory), NEW address \in Address, NEW byte \in Byte
  PROVE  IsMemory(Write(memory, address, byte))
BY DEF Write, IsMemory

\* The buses carry bytes and the address lines addresses.
LEMMA BusTypes ==
  ASSUME TypeOK
  PROVE  /\ BC \in Address /\ ProgramAddress \in Address
         /\ FetchedByte \in Byte /\ DataBus \in Byte /\ ProgramData \in Byte
<1>1. 255 \in Byte /\ Erased \in Byte /\ Zeroed \in Byte /\ 65535 \in Address
  BY DEF Byte, Address, Erased, Zeroed
<1>2. BC \in Address
  BY AddressOfType DEF TypeOK, BC
<1>3. ProgramAddress \in Address
  <2>1. pc \div 256 \in Byte /\ pc % 256 \in Byte
    <3>1. pc \in Nat /\ pc < 65536
      BY DEF TypeOK, Address
    <3>2. pc \div 256 \in 0 .. 255 /\ pc % 256 \in 0 .. 255
      BY <3>1
    <3> QED BY <3>2 DEF Byte
  <2>2. BitAnd(pc \div 256, c) \in Byte /\ BitAnd(pc % 256, b) \in Byte
    BY <2>1, BitAndByte DEF TypeOK
  <2>3. (256 * BitAnd(pc \div 256, c)) + BitAnd(pc % 256, b) \in Address
    BY <2>2, AddressOfType DEF AddressOf
  <2> QED BY <1>1, <1>2, <2>3 DEF ProgramAddress, TypeOK
<1>4. ReadProgram(ProgramAddress) \in Byte /\ ReadData(BC) \in Byte
  BY <1>1, ReadType DEF TypeOK, ReadProgram, ReadData
<1>5. FetchedByte \in Byte
  BY <1>1, <1>4 DEF FetchedByte, Driven
<1>6. DataBus \in Byte
  <2>1. Alu8 \in Byte /\ Shifted(a, f) \in Byte
    BY AluResultByte, ShiftedByte DEF TypeOK, Alu8
  <2>2. /\ Driven("rdd", ReadData(BC)) \in Byte
        /\ (IF On("dtoe") /\ ~On("ddir") THEN FetchedByte ELSE 255) \in Byte
        /\ Driven("coe", c) \in Byte /\ Driven("aoe", a) \in Byte
        /\ Driven("boe", b) \in Byte /\ Driven("foe", f) \in Byte
        /\ Driven("ashoe", Shifted(a, f)) \in Byte /\ Driven("aluoe", Alu8) \in Byte
    BY <1>1, <1>4, <1>5, <2>1 DEF Driven, TypeOK
  <2> QED BY <2>2, BitAndByte DEF DataBus
<1>7. ProgramData \in Byte
  BY <1>5, <1>6, BitAndByte DEF ProgramData
<1> QED BY <1>2, <1>3, <1>5, <1>6, <1>7

\* Under the sequencer's invariant the counter stays within its microprogram.
LEMMA CounterBound == TypeOK /\ Sequenced => upc \in Nat /\ upc <= 8
<1> SUFFICES ASSUME TypeOK, Sequenced PROVE upc \in Nat /\ upc <= 8
  OBVIOUS
<1>1. Len(Uops(ir \div 4)) \in Nat /\ Len(Uops(ir \div 4)) <= 8
  BY OpcodeOfByte, RomWordFacts DEF TypeOK
<1>2. CASE phase = "run" /\ upc # 0
  BY <1>1, <1>2 DEF Sequenced
<1>3. CASE ~(phase = "run" /\ upc # 0)
  BY <1>3 DEF Sequenced, TypeOK
<1> QED BY <1>2, <1>3

\* What every clock does to the registers and the memories.
LEMMA ClockTypes ==
  ASSUME TypeOK, Sequenced, ClockRegisters
  PROVE  /\ a' \in Byte /\ b' \in Byte /\ c' \in Byte /\ f' \in Byte /\ ir' \in Byte
         /\ mcr' = RomWord(ir' \div 4, upc) /\ mcr' \subseteq Signals
         /\ IsMemory(prog') /\ IsMemory(data') /\ out' \in Seq(Byte)
<1>1. a' \in Byte /\ b' \in Byte /\ c' \in Byte
  BY BusTypes DEF ClockRegisters, Latch, TypeOK
<1>2. f' \in Byte
  BY BusTypes, FlagBits DEF ClockRegisters, NextF, Latch, TypeOK
<1>3. ir' \in Byte
  BY BusTypes DEF ClockRegisters, TypeOK
<1>4. mcr' = RomWord(ir' \div 4, upc) /\ mcr' \subseteq Signals
  <2>1. ir' \div 4 \in Opcodes
    BY <1>3, OpcodeOfByte
  <2>2. upc \in 0 .. 15 /\ upc \in Nat
    BY CounterBound
  <2>3. mcr' = RomWord(ir' \div 4, upc)
    BY <2>1, <2>2, AddressedWord DEF ClockRegisters
  <2> QED BY <2>1, <2>2, <2>3, RomWordFacts
<1>5. IsMemory(prog')
  BY BusTypes, WriteType DEF ClockRegisters, TypeOK
<1>6. IsMemory(data')
  BY BusTypes, WriteType DEF ClockRegisters, TypeOK, Stored
<1>7. out' \in Seq(Byte)
  BY BusTypes DEF ClockRegisters, TypeOK, Printed
<1> QED BY <1>1, <1>2, <1>3, <1>4, <1>5, <1>6, <1>7

LEMMA CounterTypes ==
  ASSUME TypeOK PROVE NextPc \in Address /\ NextUpc \in Byte
<1>1. pc \in Nat /\ upc \in Nat
  BY DEF TypeOK, Address, Byte
<1>2. (pc + 1) % 65536 \in Nat /\ (pc + 1) % 65536 < 65536
  BY <1>1
<1>3. (upc + 1) % 256 \in 0 .. 255
  BY <1>1
<1> QED BY <1>2, <1>3, BusTypes DEF NextPc, NextUpc, Address, Byte, TypeOK

\* Where a clock of the run leaves the sequencer.
LEMMA ClockSequenced ==
  ASSUME TypeOK, Sequenced, ClockRegisters, phase = "run", upc' = NextUpc
  PROVE  /\ upc' = 0 => mcr' \subseteq {"rdp", "pcoe", "pcck", "upcrst"}
         /\ upc' # 0 => /\ upc' \in 1 .. Len(Uops(ir' \div 4))
                        /\ mcr' = RomWord(ir' \div 4, upc' - 1)
<1>1. mcr' = RomWord(ir' \div 4, upc) /\ ir' \div 4 \in Opcodes /\ ir \div 4 \in Opcodes
  BY ClockTypes, OpcodeOfByte DEF TypeOK
<1>2. CASE upc = 0
  <2>1. upc' = 0 \/ upc' = 1
    BY <1>2 DEF NextUpc
  <2> QED BY <1>1, <1>2, <2>1, RomWordFacts
<1>3. CASE upc # 0
  <2>1. /\ upc \in 1 .. Len(Uops(ir \div 4)) /\ mcr = RomWord(ir \div 4, upc - 1)
        /\ Len(Uops(ir \div 4)) \in Nat /\ Len(Uops(ir \div 4)) <= 8
    BY <1>1, <1>3, RomWordFacts DEF Sequenced
  <2>2. On("upcrst") <=> upc = Len(Uops(ir \div 4))
    BY <1>1, <2>1, RomWordFacts DEF On
  <2>3. ir' = ir
    BY <1>3 DEF ClockRegisters
  <2>4. CASE On("upcrst")
    <3>1. upc' = 0 /\ mcr' = {"rdp", "pcoe", "upcrst"}
      BY <1>1, <2>1, <2>2, <2>3, <2>4, RomWordFacts DEF NextUpc
    <3> QED BY <3>1
  <2>5. CASE ~On("upcrst")
    <3>1. upc' = upc + 1 /\ upc' <= Len(Uops(ir \div 4))
      <4>1. upc \in Nat /\ upc < 255 /\ upc < Len(Uops(ir \div 4))
        BY <2>1, <2>2, <2>5
      <4> QED BY <2>1, <2>5, <4>1 DEF NextUpc
    <3>2. upc' # 0 /\ upc' \in 1 .. Len(Uops(ir \div 4)) /\ upc' - 1 = upc
      BY <2>1, <3>1
    <3>3. mcr' = RomWord(ir' \div 4, upc' - 1)
      BY <1>1, <3>2
    <3>4. upc' \in 1 .. Len(Uops(ir' \div 4))
      BY <2>3, <3>2
    <3> QED BY <3>2, <3>3, <3>4
  <2> QED BY <2>4, <2>5
<1> QED BY <1>2, <1>3

-----------------------------------------------------------------------------
(* The inductive invariant: the types hold only because the sequencer never *)
(* addresses a word outside its opcode, so the two are proved together.    *)
IInv == TypeOK /\ Sequenced

LEMMA InitIInv == Init => IInv
<1> SUFFICES ASSUME Init PROVE IInv
  OBVIOUS
<1>1. /\ a \in Byte /\ b \in Byte /\ c \in Byte /\ f \in Byte /\ ir \in Byte
      /\ mcr \subseteq Signals
  BY PowerOnAssumption DEF Init
<1>2. IsMemory(prog) /\ IsMemory(data) /\ out \in Seq(Byte)
  BY ProgramsAssumption DEF Init, IsMemory
<1>3. /\ pc \in Address /\ upc \in Byte /\ phase = "reset1" /\ upc = 0
      /\ steps \in 0 .. StepCalls
  BY StepCallsAssumption DEF Init, Address, Byte
<1> QED BY <1>1, <1>2, <1>3 DEF IInv, TypeOK, Sequenced

LEMMA NextIInv == IInv /\ [Next]_vars => IInv'
<1> SUFFICES ASSUME IInv, [Next]_vars PROVE IInv'
  OBVIOUS
<1> USE DEF IInv
<1>1. CASE ResetFirstClock
  <2>1. ClockRegisters /\ phase = "reset1" /\ phase' = "reset2" /\ steps' = steps
        /\ pc' = NextPc /\ upc' = NextUpc
    BY <1>1 DEF ResetFirstClock
  <2>2. TypeOK'
    BY <2>1, ClockTypes, CounterTypes DEF TypeOK
  <2>3. upc = 0
    BY <2>1 DEF Sequenced
  <2>4. upc' \in {0, 1}
    BY <2>1, <2>3 DEF NextUpc
  <2>5. mcr' = RomWord(ir' \div 4, 0)
    BY <2>1, <2>3, ClockTypes
  <2> QED BY <2>1, <2>2, <2>4, <2>5 DEF Sequenced
<1>2. CASE ResetSecondClock
  <2>1. ClockRegisters /\ phase = "reset2" /\ phase' = "run" /\ steps' = steps
        /\ pc' = 0 /\ upc' = 0
    BY <1>2 DEF ResetSecondClock
  <2>2. 0 \in Address /\ 0 \in Byte
    BY DEF Address, Byte
  <2>3. TypeOK'
    BY <2>1, <2>2, ClockTypes DEF TypeOK
  <2>4. upc \in {0, 1} /\ ir' \div 4 \in Opcodes /\ mcr' = RomWord(ir' \div 4, upc)
    BY <2>1, ClockTypes, OpcodeOfByte DEF Sequenced
  <2>5. mcr' \subseteq {"rdp", "pcoe", "pcck", "upcrst"}
    BY <2>4, RomWordFacts
  <2> QED BY <2>1, <2>3, <2>5 DEF Sequenced
<1>3. CASE Clock
  <2>1. /\ ClockRegisters /\ phase = "run" /\ phase' = "run" /\ steps < StepCalls
        /\ pc' = NextPc /\ upc' = NextUpc /\ steps' \in {steps, steps + 1}
    BY <1>3 DEF Clock
  <2>2. steps' \in 0 .. StepCalls
    BY <2>1, StepCallsAssumption DEF TypeOK
  <2>3. TypeOK'
    BY <2>1, <2>2, ClockTypes, CounterTypes DEF TypeOK
  <2>4. Sequenced'
    BY <2>1, ClockSequenced DEF Sequenced
  <2> QED BY <2>3, <2>4
<1>4. CASE UNCHANGED vars
  BY <1>4 DEF vars, TypeOK, Sequenced
<1> QED BY <1>1, <1>2, <1>3, <1>4 DEF Next

LEMMA IInvAlways == Spec => []IInv
BY InitIInv, NextIInv, PTL DEF Spec

(* The machine's registers are bytes, its counters words of their width,   *)
(* its memories map addresses to bytes: microcomp_emulator_clock keeps     *)
(* every field of the machine structure in its C type, for every program.  *)
THEOREM TypesAlways == Spec => []TypeOK
BY IInvAlways, PTL DEF IInv

(* Whatever garbage the machine structure held and whatever the program,   *)
(* once the reset's first clock is over the emulator runs whole            *)
(* microprograms, from their first word to their last, and nothing else.   *)
THEOREM SequencedAlways == Spec => []Sequenced
BY IInvAlways, PTL DEF IInv

-----------------------------------------------------------------------------
(* Program memory.                                                         *)

\* The only words that write program memory are the last ones of STP.
LEMMA WrpWords ==
  ASSUME NEW op \in Opcodes, NEW k \in Nat, "wrp" \in RomWord(op, k)
  PROVE  \/ op = 26 /\ RomWord(op, k) = {"wrp", "foe", "dtoe", "ddir", "bcoe", "upcrst"}
         \/ op = 27 /\ RomWord(op, k) = {"wrp", "aoe", "dtoe", "ddir", "bcoe", "upcrst"}
<1> DEFINE Free(words) == \A j \in 1 .. Len(words) : "wrp" \notin words[j]
<1>1. k + 1 \in 1 .. Len(Uops(op)) /\ "wrp" \in Uops(op)[k + 1]
  <2>1. Len(Uops(op)) \in Nat
    BY RomWordFacts
  <2> QED BY <2>1 DEF RomWord, Fill
<1>2. ~Free(Uops(op))
  BY <1>1
<1>3. ClockOf(op % 4) \in Clocks
  BY DEF ClockOf, Clocks
<1>4. /\ Free(Immediate(ClockOf(op % 4))) /\ Free(ImmediateAddress)
      /\ Free(Branch) /\ Free(Swap) /\ Free(NoOperation)
  BY <1>3 DEF Immediate, ImmediateAddress, Branch, Swap, NoOperation,
              ReadByte, StepPc, OperandByte, Clocks
<1>5. ASSUME NEW drive, NEW latch, "wrp" \notin drive, "wrp" \notin latch
      PROVE  Free(Transfer(drive, latch))
  BY <1>5 DEF Transfer, ReadByte, StepPc
<1>6. "wrp" \notin MoveSource(op) /\ "wrp" \notin MoveTarget(op) /\ "wrp" \notin {ClockOf(op % 4)}
  BY <1>3 DEF MoveSource, MoveTarget, Clocks
<1>7. op \in {26, 27}
  <2> HIDE DEF Free
  <2>1. /\ "wrp" \notin {"rdd"} /\ "wrp" \notin {"rdp", "dtoe", "bcoe"} /\ "wrp" \notin {"foe"}
        /\ "wrp" \notin {"aoe"} /\ "wrp" \notin {"wrd"} /\ "wrp" \notin {"aluoe"}
        /\ "wrp" \notin {"fclk"} /\ "wrp" \notin {"fsors", "aluoe"}
        /\ "wrp" \notin {"fclk", "aclk"} /\ "wrp" \notin {"fclk", "bclk"}
        /\ "wrp" \notin {"fclk", "cclk"} /\ "wrp" \notin {"fsors", "ashoe"}
    OBVIOUS
  <2>2. op \in 0 .. 25 => Free(Uops(op))
    BY <1>4, <1>5, <1>6, <2>1 DEF Uops
  <2>3. op \in 28 .. 63 => Free(Uops(op))
    BY <1>4, <1>5, <2>1 DEF Uops
  <2> QED BY <1>2, <2>2, <2>3 DEF Opcodes
<1>8. Uops(26) = StoreProgram("foe") /\ Uops(27) = StoreProgram("aoe")
  BY DEF Uops
<1>9. \A source \in {"foe", "aoe"} : \A j \in 1 .. Len(StoreProgram(source)) :
        "wrp" \in StoreProgram(source)[j] =>
          StoreProgram(source)[j] = {"wrp", source, "dtoe", "ddir", "bcoe", "upcrst"}
  BY DEF StoreProgram, ReadByte, StepPc
<1>10. RomWord(op, k) = Uops(op)[k + 1]
  BY <1>1, RomWordFacts DEF RomWord
<1> QED BY <1>1, <1>7, <1>8, <1>9, <1>10

\* What STP's last word puts on the buses.
LEMMA StoreBuses ==
  ASSUME TypeOK, NEW source \in {"foe", "aoe"},
         mcr = {"wrp", source, "dtoe", "ddir", "bcoe", "upcrst"}
  PROVE  ProgramAddress = BC /\ ProgramData = IF source = "foe" THEN f ELSE a
<1>1. /\ On("bcoe") /\ ~On("pcoe") /\ On("dtoe") /\ On("ddir") /\ ~On("rdp") /\ ~On("rdd")
      /\ ~On("coe") /\ ~On("boe") /\ ~On("ashoe") /\ ~On("aluoe")
      /\ (On("foe") <=> source = "foe") /\ (On("aoe") <=> source = "aoe")
  BY DEF On
<1>2. ProgramAddress = BC
  BY <1>1 DEF ProgramAddress
<1>3. FetchedByte = 255 /\ 255 \in Byte /\ a \in Byte /\ f \in Byte
  BY <1>1 DEF FetchedByte, Driven, TypeOK, Byte
<1>4. DataBus = IF source = "foe" THEN f ELSE a
  BY <1>1, <1>3, BitAndTop DEF DataBus, Driven
<1> QED BY <1>1, <1>2, <1>3, <1>4, BitAndTop DEF ProgramData

(* STP is the only instruction that writes program memory, and it writes   *)
(* F or A at the address in C and B: for every program, in every run.      *)
THEOREM ProgramStoresAlways == Spec => ProgramStoredBySTP
<1> DEFINE Store == phase = "run" /\ prog' # prog =>
                      /\ ir \div 4 \in {26, 27}
                      /\ prog' = Write(prog, BC, IF ir \div 4 = 26 THEN f ELSE a)
<1>1. ASSUME IInv, [Next]_vars PROVE [Store]_vars
  <2> SUFFICES ASSUME phase = "run", prog' # prog
               PROVE  /\ ir \div 4 \in {26, 27}
                      /\ prog' = Write(prog, BC, IF ir \div 4 = 26 THEN f ELSE a)
    OBVIOUS
  <2>1. ClockRegisters
    BY <1>1 DEF Next, Clock, ResetFirstClock, ResetSecondClock, vars
  <2>2. On("wrp") /\ prog' = Write(prog, ProgramAddress, ProgramData)
    BY <2>1 DEF ClockRegisters
  <2>3. upc # 0 /\ upc - 1 \in Nat /\ mcr = RomWord(ir \div 4, upc - 1)
    BY <1>1, <2>2 DEF IInv, Sequenced, On
  <2>4. ir \div 4 \in Opcodes
    BY <1>1, OpcodeOfByte DEF IInv, TypeOK
  <2>5. \/ ir \div 4 = 26 /\ mcr = {"wrp", "foe", "dtoe", "ddir", "bcoe", "upcrst"}
        \/ ir \div 4 = 27 /\ mcr = {"wrp", "aoe", "dtoe", "ddir", "bcoe", "upcrst"}
    BY <2>2, <2>3, <2>4, WrpWords DEF On
  <2>6. TypeOK
    BY <1>1 DEF IInv
  <2> QED BY <2>2, <2>5, <2>6, StoreBuses
<1> QED BY <1>1, IInvAlways, PTL DEF Spec, ProgramStoredBySTP

-----------------------------------------------------------------------------
(* The buses.                                                              *)

DataSignals == {"rdd", "coe", "aoe", "ashoe", "foe", "aluoe", "boe"}

\* A word that drives no bus twice, and every bus that it takes from: what
\* BusesDriven asks of the microcode register at any count but zero.
Clean(w) ==
  /\ \A s, t \in DataSignals : s \in w /\ t \in w => s = t
  /\ "dtoe" \in w /\ "ddir" \notin w => \A s \in DataSignals : s \notin w
  /\ ~("pcoe" \in w /\ "bcoe" \in w)
  /\ ~("rdp" \in w /\ "dtoe" \in w /\ "ddir" \in w)
  /\ ("aclk" \in w \/ "bclk" \in w \/ "cclk" \in w \/ "wrd" \in w
        \/ ("fclk" \in w /\ "fsors" \notin w))
       => (\E s \in DataSignals : s \in w) \/ ("dtoe" \in w /\ "ddir" \notin w)
  /\ "rdp" \in w \/ "wrp" \in w => "pcoe" \in w \/ "bcoe" \in w
  /\ "wrp" \in w => "rdp" \in w \/ ("dtoe" \in w /\ "ddir" \in w)

CleanWords(words) == \A k \in 1 .. Len(words) : Clean(words[k])

\* The sources of a transfer, and the destinations.
Drives == {{"foe"}, {"aoe"}, {"boe"}, {"coe"}, {"rdd"}, {"rdp", "dtoe", "bcoe"},
           {"aluoe"}, {"fsors", "aluoe"}, {"fsors", "ashoe"}}
Latches == SUBSET {"fclk", "aclk", "bclk", "cclk", "wrd"}

LEMMA ReadingClean == Clean(ReadByte) /\ Clean(StepPc) /\ Clean(StepPc \cup {"upcrst"}) /\ Clean(Fill)
BY DEF Clean, ReadByte, StepPc, Fill, DataSignals

LEMMA TransferClean ==
  ASSUME NEW drive \in Drives, NEW latch \in Latches
  PROVE  CleanWords(Transfer(drive, latch))
<1>1. Clean(drive)
  BY DEF Drives, Clean, DataSignals
<1>2. Clean(drive \cup latch \cup {"upcrst"})
  BY DEF Drives, Latches, Clean, DataSignals
<1>3. /\ Len(Transfer(drive, latch)) = 4
      /\ Transfer(drive, latch)[1] = ReadByte /\ Transfer(drive, latch)[2] = StepPc
      /\ Transfer(drive, latch)[3] = drive
      /\ Transfer(drive, latch)[4] = drive \cup latch \cup {"upcrst"}
  BY DEF Transfer
<1>4. \A k \in 1 .. 4 : k = 1 \/ k = 2 \/ k = 3 \/ k = 4
  OBVIOUS
<1> QED BY <1>1, <1>2, <1>3, <1>4, ReadingClean DEF CleanWords

LEMMA OthersClean ==
  /\ CleanWords(NoOperation) /\ CleanWords(Swap) /\ CleanWords(Branch)
  /\ CleanWords(ImmediateAddress)
  /\ \A clk \in Clocks : CleanWords(Immediate(clk))
  /\ CleanWords(StoreProgram("foe")) /\ CleanWords(StoreProgram("aoe"))
<1>1. CleanWords(NoOperation)
  <2>1. /\ Len(NoOperation) = 2 /\ NoOperation[1] = ReadByte
        /\ NoOperation[2] = StepPc \cup {"upcrst"}
    BY DEF NoOperation
  <2>2. \A k \in 1 .. 2 : k = 1 \/ k = 2
    OBVIOUS
  <2> QED BY <2>1, <2>2, ReadingClean DEF CleanWords
<1>2. CleanWords(Swap)
  <2>1. /\ Clean({"aluoe"}) /\ Clean({"aluoe", "aclk"}) /\ Clean({"aluoe", "bclk"})
        /\ Clean({"aluoe", "aclk", "upcrst"})
    BY DEF Clean, DataSignals
  <2> QED BY <2>1, ReadingClean DEF CleanWords, Swap
<1>3. CleanWords(Branch)
  <2>1. Clean({"jmp"}) /\ Clean({"jmp", "pcck", "upcrst"})
    BY DEF Clean, DataSignals
  <2> QED BY <2>1, ReadingClean DEF CleanWords, Branch
<1>4. Clean(OperandByte)
  BY DEF Clean, DataSignals, OperandByte
<1>5. CleanWords(ImmediateAddress)
  <2>1. /\ Clean(OperandByte \cup {"pcck", "bclk"})
        /\ Clean(OperandByte \cup {"pcck", "cclk", "upcrst"})
    BY DEF Clean, DataSignals, OperandByte
  <2> QED BY <1>4, <2>1, ReadingClean DEF CleanWords, ImmediateAddress
<1>6. ASSUME NEW clk \in Clocks PROVE CleanWords(Immediate(clk))
  <2>1. Clean(OperandByte \cup {"pcck", clk, "upcrst"})
    BY DEF Clean, DataSignals, OperandByte, Clocks
  <2>2. /\ Len(Immediate(clk)) = 4
        /\ Immediate(clk)[1] = ReadByte /\ Immediate(clk)[2] = StepPc
        /\ Immediate(clk)[3] = OperandByte
        /\ Immediate(clk)[4] = OperandByte \cup {"pcck", clk, "upcrst"}
    BY DEF Immediate
  <2>3. \A k \in 1 .. 4 : k = 1 \/ k = 2 \/ k = 3 \/ k = 4
    OBVIOUS
  <2> QED BY <1>4, <2>1, <2>2, <2>3, ReadingClean DEF CleanWords
<1>7. ASSUME NEW source \in {"foe", "aoe"} PROVE CleanWords(StoreProgram(source))
  <2>1. /\ Clean({"foe", "dtoe", "ddir", "bcoe"})
        /\ Clean({"wrp", source, "dtoe", "ddir", "bcoe", "upcrst"})
    BY DEF Clean, DataSignals
  <2> QED BY <2>1, ReadingClean DEF CleanWords, StoreProgram
<1> QED BY <1>1, <1>2, <1>3, <1>5, <1>6, <1>7

\* Every word of the ROM is clean.
LEMMA RomClean == ASSUME NEW op \in Opcodes, NEW k \in Nat PROVE Clean(RomWord(op, k))
<1>1. ClockOf(op % 4) \in Clocks
  BY DEF ClockOf, Clocks
<1>2. /\ MoveSource(op) \in Drives /\ MoveTarget(op) \in Latches
      /\ {ClockOf(op % 4)} \in Latches
  BY <1>1 DEF MoveSource, MoveTarget, Drives, Latches, Clocks
<1>3. /\ {"foe"} \in Drives /\ {"aoe"} \in Drives /\ {"rdd"} \in Drives
      /\ {"rdp", "dtoe", "bcoe"} \in Drives /\ {"aluoe"} \in Drives
      /\ {"fsors", "aluoe"} \in Drives /\ {"fsors", "ashoe"} \in Drives
  BY DEF Drives
<1>4. /\ {"fclk"} \in Latches /\ {"wrd"} \in Latches /\ {"fclk", "aclk"} \in Latches
      /\ {"fclk", "bclk"} \in Latches /\ {"fclk", "cclk"} \in Latches
  BY DEF Latches
<1>5. CleanWords(Uops(op))
  <2>1. op \in 0 .. 31 => CleanWords(Uops(op))
    BY <1>1, <1>2, <1>3, <1>4, TransferClean, OthersClean DEF Uops
  <2>2. op \in 32 .. 63 => CleanWords(Uops(op))
    BY <1>3, <1>4, TransferClean, OthersClean DEF Uops
  <2> QED BY <2>1, <2>2 DEF Opcodes
<1>6. Len(Uops(op)) \in Nat
  BY RomWordFacts
<1> QED BY <1>5, <1>6, ReadingClean DEF RomWord, CleanWords

\* At count zero the register always reads the byte at the PC.
Reading == phase = "run" /\ upc = 0 => {"rdp", "pcoe"} \subseteq mcr

LEMMA RomReads ==
  ASSUME NEW op \in Opcodes, NEW k \in Nat, k <= 1 \/ k >= Len(Uops(op))
  PROVE  {"rdp", "pcoe"} \subseteq RomWord(op, k)
<1>1. Uops(op)[2] \in {StepPc, StepPc \cup {"upcrst"}}
  <2>1. /\ \A clk : Immediate(clk)[2] = StepPc
        /\ \A drive, latch : Transfer(drive, latch)[2] = StepPc
        /\ \A source : StoreProgram(source)[2] = StepPc
        /\ Branch[2] = StepPc /\ Swap[2] = StepPc /\ ImmediateAddress[2] = StepPc
        /\ NoOperation[2] = StepPc \cup {"upcrst"}
    BY DEF Immediate, Transfer, StoreProgram, Branch, Swap, ImmediateAddress, NoOperation
  <2>2. op \in 0 .. 31 => Uops(op)[2] = StepPc
    BY <2>1 DEF Uops
  <2>3. op \in 32 .. 63 => Uops(op)[2] \in {StepPc, StepPc \cup {"upcrst"}}
    BY <2>1 DEF Uops
  <2> QED BY <2>2, <2>3 DEF Opcodes
<1>2. CASE k = 0
  BY <1>2, RomWordFacts
<1>3. CASE k = 1 /\ k < Len(Uops(op))
  BY <1>1, <1>3 DEF RomWord, StepPc
<1>4. CASE k >= Len(Uops(op))
  BY <1>4, RomWordFacts
<1> QED BY <1>2, <1>3, <1>4, RomWordFacts

LEMMA NextReading == IInv /\ Reading /\ [Next]_vars => Reading'
<1> SUFFICES ASSUME IInv, Reading, [Next]_vars, phase' = "run", upc' = 0
             PROVE  {"rdp", "pcoe"} \subseteq mcr'
  BY DEF Reading
<1> USE DEF IInv
<1>1. CASE ResetSecondClock
  <2>1. upc \in {0, 1} /\ mcr' = RomWord(ir' \div 4, upc) /\ ir' \div 4 \in Opcodes
    BY <1>1, ClockTypes, OpcodeOfByte DEF ResetSecondClock, Sequenced
  <2> QED BY <2>1, RomReads
<1>2. CASE Clock
  <2>1. /\ ClockRegisters /\ phase = "run" /\ upc' = NextUpc
        /\ mcr' = RomWord(ir' \div 4, upc) /\ ir' \div 4 \in Opcodes /\ ir \div 4 \in Opcodes
    BY <1>2, ClockTypes, OpcodeOfByte DEF Clock, TypeOK
  <2>2. upc \in Nat /\ upc <= 8 /\ On("upcrst")
    BY <2>1, CounterBound DEF NextUpc
  <2>3. CASE upc = 0
    BY <2>1, <2>3, RomReads
  <2>4. CASE upc # 0
    <3>1. /\ ir' = ir /\ upc \in 1 .. Len(Uops(ir \div 4)) /\ mcr = RomWord(ir \div 4, upc - 1)
      BY <2>1, <2>4 DEF ClockRegisters, Sequenced
    <3>2. upc >= Len(Uops(ir \div 4))
      BY <2>1, <2>2, <3>1, RomWordFacts DEF On
    <3> QED BY <2>1, <2>2, <3>1, <3>2, RomReads
  <2> QED BY <2>3, <2>4
<1>3. CASE UNCHANGED vars
  BY <1>3 DEF vars, Reading
<1>4. CASE ResetFirstClock
  BY <1>4 DEF ResetFirstClock
<1> QED BY <1>1, <1>2, <1>3, <1>4 DEF Next

LEMMA CleanDrives ==
  ASSUME Clean(mcr), upc = 0 => "rdp" \in mcr
  PROVE  BusesDriven
<1>1. AtMostOne(DataDrivers)
  BY DEF Clean, AtMostOne, DataDrivers, DataSignals, On
<1>2. AtMostOne(AddressDrivers) /\ AtMostOne(ProgramDrivers)
  BY DEF Clean, AtMostOne, AddressDrivers, ProgramDrivers, On
<1>3. (On("aclk") \/ On("bclk") \/ On("cclk") \/ On("wrd") \/ (On("fclk") /\ ~On("fsors")))
         => DataDrivers # {}
  BY DEF Clean, DataDrivers, DataSignals, On
<1>4. /\ (On("rdp") \/ On("wrp")) => AddressDrivers # {}
      /\ (On("wrp") \/ upc = 0) => ProgramDrivers # {}
  BY DEF Clean, AddressDrivers, ProgramDrivers, On
<1> QED BY <1>1, <1>2, <1>3, <1>4 DEF BusesDriven

(* No bus of the computer has two drivers, and nothing is taken from a bus *)
(* that nobody drives, in any program and from any power-on state: the     *)
(* microprograms drive the buses in turn, and the sequencer runs nothing   *)
(* but microprograms.                                                      *)
THEOREM BusesDrivenAlways == Spec => []BusesDriven
<1>1. Init => Reading
  BY DEF Init, Reading
<1>2. IInv /\ Reading => BusesDriven
  <2> SUFFICES ASSUME IInv, Reading, phase # "reset1" PROVE BusesDriven
    BY DEF BusesDriven
  <2> USE DEF IInv
  <2>1. ir \div 4 \in Opcodes /\ phase \in {"reset2", "run"}
    BY OpcodeOfByte DEF TypeOK
  <2>2. CASE phase = "run" /\ upc = 0
    <3>1. {"rdp", "pcoe"} \subseteq mcr /\ mcr \subseteq {"rdp", "pcoe", "pcck", "upcrst"}
      BY <2>2 DEF Reading, Sequenced
    <3>2. Clean(mcr)
      BY <3>1 DEF Clean, DataSignals
    <3> QED BY <3>1, <3>2, CleanDrives
  <2>3. CASE phase = "run" /\ upc # 0
    <3>1. upc - 1 \in Nat /\ mcr = RomWord(ir \div 4, upc - 1)
      BY <2>1, <2>3, RomWordFacts DEF Sequenced
    <3> QED BY <2>1, <2>3, <3>1, RomClean, CleanDrives
  <2>4. CASE phase = "reset2"
    BY <2>1, <2>4, RomClean, RomWordFacts, CleanDrives DEF Sequenced
  <2> QED BY <2>1, <2>2, <2>3, <2>4
<1> QED BY <1>1, <1>2, IInvAlways, NextReading, PTL DEF Spec

-----------------------------------------------------------------------------
(* The instruction set's own copies of the operators that both use.        *)

LEMMA SameMemory ==
  /\ \A memory, address, erased :
       Machine!Read(memory, address, erased) = Read(memory, address, erased)
  /\ \A memory, address, byte :
       Machine!Write(memory, address, byte) = Write(memory, address, byte)
  /\ \A memory, address, byte :
       Machine!Stored(memory, address, byte) = Stored(memory, address, byte)
  /\ \A port, address, byte :
       Machine!Printed(port, address, byte) = Printed(port, address, byte)
  /\ \A high, low : Machine!AddressOf(high, low) = AddressOf(high, low)
  /\ Machine!Erased = Erased /\ Machine!Zeroed = Zeroed
BY DEF Machine!Read, Read, Machine!Write, Write, Machine!Stored, Stored,
       Machine!Printed, Printed, Machine!IsPort, IsPort, Machine!AddressOf, AddressOf,
       Machine!Erased, Erased, Machine!Zeroed, Zeroed

LEMMA SameBits ==
  /\ \A w, i : Machine!Bit(w, i) = Bit(w, i)
  /\ Machine!Byte = Byte /\ Machine!Address = Address
  /\ \A p, q : Machine!BitAnd(p, q) = BitAnd(p, q)
  /\ \A p, q : Machine!BitOr(p, q) = BitOr(p, q)
  /\ \A p, q : Machine!BitXor(p, q) = BitXor(p, q)
<1>1. \A w, i : Machine!Bit(w, i) = Bit(w, i)
  BY DEF Machine!Bit, Bit
<1>2. Machine!Byte = Byte /\ Machine!Address = Address
  BY DEF Machine!Byte, Byte, Machine!Address, Address
<1>3. \A p, q, w : Machine!Common(p, q, w) = Common(p, q, w)
  BY DEF Machine!Common, Common
<1>4. \A p, q : Machine!BitAnd(p, q) = BitAnd(p, q)
  BY <1>3 DEF Machine!BitAnd, BitAnd
<1>5. \A p, q : Machine!BitOr(p, q) = BitOr(p, q) /\ Machine!BitXor(p, q) = BitXor(p, q)
  BY <1>4 DEF Machine!BitOr, BitOr, Machine!BitXor, BitXor
<1> QED BY <1>1, <1>2, <1>4, <1>5

\* The result of an ALU operation, ...
LEMMA SameResult ==
  ASSUME Machine!Instruction \in Byte
  PROVE  Machine!Result = AluResult(Machine!Instruction, retired.a, retired.b, retired.f)
<1>1. /\ Machine!Function = Select(Machine!Instruction) /\ Machine!Function \in 0 .. 7
      /\ Machine!Carry = CarryIn(retired.f)
  BY SameBits DEF Machine!Function, Select, Machine!Carry, CarryIn, Byte
<1>2. /\ Machine!Function = 1 =>
           Machine!Exact(retired.a, retired.b) = ((retired.b - retired.a) - 1) + CarryIn(retired.f)
      /\ Machine!Function = 2 =>
           Machine!Exact(retired.a, retired.b) = ((retired.a - retired.b) - 1) + CarryIn(retired.f)
      /\ Machine!Function = 3 =>
           Machine!Exact(retired.a, retired.b) = (retired.a + retired.b) + CarryIn(retired.f)
  BY <1>1 DEF Machine!Exact
<1>3. \A k \in 0 .. 7 : k \in 1 .. 3 <=> k = 1 \/ k = 2 \/ k = 3
  OBVIOUS
<1> QED BY <1>1, <1>2, <1>3, SameBits DEF Machine!Result, AluResult

\* ... and the condition of a branch.
LEMMA SameCondition ==
  BranchTaken(Machine!Instruction, retired.f)
    <=> Machine!Condition = (Machine!Bit(Machine!Instruction, 3) = 0)
BY SameBits DEF BranchTaken, FlagSelected, Select, Machine!Condition, Machine!Flag

-----------------------------------------------------------------------------
(* What a clock does, by the word in the microcode register.               *)

\* A clean word's one driver decides what is on a bus.
LEMMA LoneDriver ==
  ASSUME TypeOK, Clean(mcr)
  PROVE  /\ On("coe") => DataBus = c
         /\ On("aoe") => DataBus = a
         /\ On("boe") => DataBus = b
         /\ On("foe") => DataBus = f
         /\ On("rdd") => DataBus = ReadData(BC)
         /\ On("ashoe") => DataBus = Shifted(a, f)
         /\ On("aluoe") => DataBus = Alu8
         /\ On("dtoe") /\ ~On("ddir") => DataBus = FetchedByte
         /\ On("pcoe") => ProgramAddress = pc
         /\ On("bcoe") => ProgramAddress = BC
         /\ On("rdp") => FetchedByte = ReadProgram(ProgramAddress)
         /\ On("rdp") => ProgramData = FetchedByte
         /\ On("dtoe") /\ On("ddir") => ProgramData = DataBus
<1>1. /\ a \in Byte /\ b \in Byte /\ c \in Byte /\ f \in Byte /\ 255 \in Byte
      /\ FetchedByte \in Byte /\ DataBus \in Byte
  BY BusTypes DEF TypeOK, Byte
<1>2. Alu8 \in Byte /\ Shifted(a, f) \in Byte
  BY <1>1, AluResultByte, ShiftedByte DEF Alu8, TypeOK
<1>3. ReadData(BC) \in Byte
  <2>1. Zeroed \in Byte /\ IsMemory(data)
    BY DEF Zeroed, Byte, TypeOK
  <2> QED BY <2>1, ReadType DEF ReadData
<1>4. \A x \in Byte : BitAnd(x, 255) = x /\ BitAnd(255, x) = x
  BY BitAndTop
<1>5. BitAnd(255, 255) = 255
  BY <1>1, <1>4
<1>6. \A s, t \in DataSignals : On(s) /\ On(t) => s = t
  BY DEF Clean, On
<1>7. On("dtoe") /\ ~On("ddir") => \A s \in DataSignals : ~On(s)
  BY DEF Clean, On
<1>8. ~(On("pcoe") /\ On("bcoe")) /\ ~(On("rdp") /\ On("dtoe") /\ On("ddir"))
  BY DEF Clean, On
<1>9. /\ On("coe") => DataBus = c
      /\ On("aoe") => DataBus = a
      /\ On("boe") => DataBus = b
      /\ On("foe") => DataBus = f
  BY <1>1, <1>4, <1>5, <1>6, <1>7 DEF DataBus, Driven, DataSignals
<1>10. /\ On("rdd") => DataBus = ReadData(BC)
       /\ On("ashoe") => DataBus = Shifted(a, f)
       /\ On("aluoe") => DataBus = Alu8
  BY <1>1, <1>2, <1>3, <1>4, <1>5, <1>6, <1>7 DEF DataBus, Driven, DataSignals
<1>11. On("dtoe") /\ ~On("ddir") => DataBus = FetchedByte
  BY <1>1, <1>4, <1>5, <1>7 DEF DataBus, Driven, DataSignals
<1>12. On("pcoe") => ProgramAddress = pc
  BY <1>8 DEF ProgramAddress
<1>13. On("bcoe") => ProgramAddress = BC
  BY <1>8 DEF ProgramAddress
<1>14. On("rdp") => FetchedByte = ReadProgram(ProgramAddress) /\ ProgramData = FetchedByte
  BY <1>8 DEF FetchedByte, Driven, ProgramData
<1>15. On("dtoe") /\ On("ddir") => ProgramData = DataBus
  BY <1>1, <1>4, <1>8 DEF FetchedByte, Driven, ProgramData
<1> QED BY <1>9, <1>10, <1>11, <1>12, <1>13, <1>14, <1>15

\* The signals that change something, and the ones that only drive.
Effects == {"aclk", "bclk", "cclk", "fclk", "wrp", "wrd", "pcck"}
Quiet(w) == \A s \in Effects : s \notin w

Kept == UNCHANGED << a, b, c, f, prog, data, out >>

\* A word that latches and writes nothing leaves all but the PC.
LEMMA QuietClock ==
  ASSUME ClockRegisters, \A s \in Effects \ {"pcck"} : ~On(s) PROVE Kept
BY DEF ClockRegisters, Latch, NextF, Effects, Kept

LEMMA QuietPc ==
  ASSUME Quiet(mcr) PROVE NextPc = pc
BY DEF Quiet, Effects, NextPc, On

-----------------------------------------------------------------------------
(* The words of the microprograms.                                         *)

Reserved == (40 .. 59) \cup {63}

\* The microprograms by group, as implications.
LEMMA Groups ==
  ASSUME NEW op \in Opcodes
  PROVE  /\ op \in 0 .. 3 => Uops(op) = Immediate(ClockOf(op))
         /\ op \in 4 .. 15 => Uops(op) = Transfer(MoveSource(op), MoveTarget(op))
         /\ op \in 16 .. 19 => Uops(op) = Transfer({"rdd"}, {ClockOf(op - 16)})
         /\ op \in 20 .. 23 => Uops(op) = Transfer({"rdp", "dtoe", "bcoe"}, {ClockOf(op - 20)})
         /\ op = 24 => Uops(op) = Transfer({"foe"}, {"wrd"})
         /\ op = 25 => Uops(op) = Transfer({"aoe"}, {"wrd"})
         /\ op = 26 => Uops(op) = StoreProgram("foe")
         /\ op = 27 => Uops(op) = StoreProgram("aoe")
         /\ op \in 28 .. 31 => Uops(op) = Branch
         /\ op \in 32 .. 33 => Uops(op) = Transfer({"aluoe"}, {"fclk"})
         /\ op \in 34 .. 35 => Uops(op) = Transfer({"fsors", "aluoe"}, {"fclk", "aclk"})
         /\ op \in 36 .. 37 => Uops(op) = Transfer({"fsors", "aluoe"}, {"fclk", "bclk"})
         /\ op \in 38 .. 39 => Uops(op) = Transfer({"fsors", "aluoe"}, {"fclk", "cclk"})
         /\ op = 60 => Uops(op) = ImmediateAddress
         /\ op = 61 => Uops(op) = Transfer({"fsors", "ashoe"}, {"fclk", "aclk"})
         /\ op = 62 => Uops(op) = Swap
         /\ op \in Reserved => Uops(op) = NoOperation
<1>1. op \in 0 .. 3 => op % 4 = op
  OBVIOUS
<1>2. op \in 16 .. 19 => op % 4 = op - 16
  OBVIOUS
<1>3. op \in 20 .. 23 => op % 4 = op - 20
  OBVIOUS
<1>4. op \in 0 .. 3 => Uops(op) = Immediate(ClockOf(op))
  BY <1>1 DEF Uops
<1>12. op \in 4 .. 15 => Uops(op) = Transfer(MoveSource(op), MoveTarget(op))
  BY DEF Uops, Opcodes
<1>11. op \in 16 .. 19 => Uops(op) = Transfer({"rdd"}, {ClockOf(op - 16)})
  <2>1. op \in 16 .. 19 => Uops(op) = Transfer({"rdd"}, {ClockOf(op % 4)})
    BY DEF Uops
  <2> QED BY <1>2, <2>1
<1>5. /\ op \in 20 .. 23 => Uops(op) = Transfer({"rdp", "dtoe", "bcoe"}, {ClockOf(op - 20)})
      /\ op = 24 => Uops(op) = Transfer({"foe"}, {"wrd"})
      /\ op = 25 => Uops(op) = Transfer({"aoe"}, {"wrd"})
  BY <1>3 DEF Uops
<1>6. /\ op = 26 => Uops(op) = StoreProgram("foe")
      /\ op = 27 => Uops(op) = StoreProgram("aoe")
      /\ op \in 28 .. 31 => Uops(op) = Branch
  BY DEF Uops
<1>7. /\ op \in 32 .. 33 => Uops(op) = Transfer({"aluoe"}, {"fclk"})
      /\ op \in 34 .. 35 => Uops(op) = Transfer({"fsors", "aluoe"}, {"fclk", "aclk"})
  BY DEF Uops
<1>8. /\ op \in 36 .. 37 => Uops(op) = Transfer({"fsors", "aluoe"}, {"fclk", "bclk"})
      /\ op \in 38 .. 39 => Uops(op) = Transfer({"fsors", "aluoe"}, {"fclk", "cclk"})
  BY DEF Uops
<1>9. /\ op = 60 => Uops(op) = ImmediateAddress
      /\ op = 61 => Uops(op) = Transfer({"fsors", "ashoe"}, {"fclk", "aclk"})
  BY DEF Uops
<1>10. /\ op = 62 => Uops(op) = Swap
       /\ op \in Reserved => Uops(op) = NoOperation
  BY DEF Uops, Reserved
<1> QED BY <1>4, <1>5, <1>6, <1>7, <1>8, <1>9, <1>10, <1>11, <1>12

LEMMA Lengths ==
  ASSUME NEW op \in Opcodes
  PROVE  /\ op \in Reserved => Len(Uops(op)) = 2
         /\ op = 60 => Len(Uops(op)) = 6
         /\ op = 62 => Len(Uops(op)) = 8
         /\ op \notin Reserved \cup {60, 62} => Len(Uops(op)) = 4
<1>1. /\ \A clk : Len(Immediate(clk)) = 4
      /\ \A drive, latch : Len(Transfer(drive, latch)) = 4
      /\ \A source : Len(StoreProgram(source)) = 4
      /\ Len(Branch) = 4 /\ Len(Swap) = 8 /\ Len(ImmediateAddress) = 6
      /\ Len(NoOperation) = 2
  BY DEF Immediate, Transfer, StoreProgram, Branch, Swap, ImmediateAddress, NoOperation
<1>2. op \in 0 .. 31 => Len(Uops(op)) = 4
  BY <1>1, Groups DEF Opcodes
<1>3. op \in 32 .. 63 =>
        /\ op \in Reserved => Len(Uops(op)) = 2
        /\ op = 60 => Len(Uops(op)) = 6
        /\ op = 62 => Len(Uops(op)) = 8
        /\ op \notin Reserved \cup {60, 62} => Len(Uops(op)) = 4
  BY <1>1, Groups DEF Reserved, Opcodes
<1> QED BY <1>2, <1>3 DEF Opcodes, Reserved

\* Every instruction reads its byte, and then steps the PC past it.
LEMMA FirstWords ==
  ASSUME NEW op \in Opcodes
  PROVE  /\ Uops(op)[1] = {"rdp", "pcoe"}
         /\ Uops(op)[2] = IF op \in Reserved THEN {"rdp", "pcoe", "pcck", "upcrst"}
                          ELSE {"rdp", "pcoe", "pcck"}
<1>1. /\ \A clk : Immediate(clk)[1] = ReadByte /\ Immediate(clk)[2] = StepPc
      /\ \A drive, latch : Transfer(drive, latch)[1] = ReadByte /\ Transfer(drive, latch)[2] = StepPc
      /\ \A source : StoreProgram(source)[1] = ReadByte /\ StoreProgram(source)[2] = StepPc
      /\ Branch[1] = ReadByte /\ Swap[1] = ReadByte /\ ImmediateAddress[1] = ReadByte
      /\ Branch[2] = StepPc /\ Swap[2] = StepPc /\ ImmediateAddress[2] = StepPc
      /\ NoOperation[1] = ReadByte /\ NoOperation[2] = StepPc \cup {"upcrst"}
  BY DEF Immediate, Transfer, StoreProgram, Branch, Swap, ImmediateAddress, NoOperation
<1>2. op \notin Reserved => Uops(op)[1] = ReadByte /\ Uops(op)[2] = StepPc
  <2>1. op \in 0 .. 15 => Uops(op)[1] = ReadByte /\ Uops(op)[2] = StepPc
    BY <1>1, Groups DEF Opcodes
  <2>2. op \in 16 .. 31 => Uops(op)[1] = ReadByte /\ Uops(op)[2] = StepPc
    BY <1>1, Groups DEF Opcodes
  <2>3. op \in 32 .. 39 => Uops(op)[1] = ReadByte /\ Uops(op)[2] = StepPc
    BY <1>1, Groups DEF Opcodes
  <2>4. op \in 60 .. 62 => Uops(op)[1] = ReadByte /\ Uops(op)[2] = StepPc
    BY <1>1, Groups DEF Opcodes
  <2> QED BY <2>1, <2>2, <2>3, <2>4 DEF Opcodes, Reserved
<1>3. op \in Reserved => Uops(op)[1] = ReadByte /\ Uops(op)[2] = StepPc \cup {"upcrst"}
  BY <1>1, Groups DEF Opcodes
<1> QED BY <1>2, <1>3 DEF ReadByte, StepPc

\* The third word drives, and changes nothing yet.
LEMMA ThirdWord ==
  ASSUME NEW op \in Opcodes, op \notin Reserved PROVE Quiet(Uops(op)[3])
<1>1. /\ \A clk : Immediate(clk)[3] = OperandByte
      /\ \A drive, latch : Transfer(drive, latch)[3] = drive
      /\ \A source : StoreProgram(source)[3] = {"foe", "dtoe", "ddir", "bcoe"}
      /\ Branch[3] = {"jmp"} /\ Swap[3] = {"aluoe"} /\ ImmediateAddress[3] = OperandByte
  BY DEF Immediate, Transfer, StoreProgram, Branch, Swap, ImmediateAddress
<1>2. /\ Quiet(OperandByte) /\ Quiet({"foe", "dtoe", "ddir", "bcoe"})
      /\ Quiet({"jmp"}) /\ \A drive \in Drives : Quiet(drive)
  BY DEF Quiet, Effects, OperandByte, Drives
<1>3. /\ MoveSource(op) \in Drives /\ {"foe"} \in Drives /\ {"aoe"} \in Drives
      /\ {"rdd"} \in Drives /\ {"rdp", "dtoe", "bcoe"} \in Drives /\ {"aluoe"} \in Drives
      /\ {"fsors", "aluoe"} \in Drives /\ {"fsors", "ashoe"} \in Drives
  BY DEF MoveSource, Drives
<1>4. op \in 0 .. 3 \/ op \in 26 .. 31 \/ op \in {60, 62} => Quiet(Uops(op)[3])
  <2>1. op \in 0 .. 3 \/ op = 60 => Uops(op)[3] = OperandByte
    BY <1>1, Groups DEF Opcodes
  <2>2. op \in 26 .. 27 => Uops(op)[3] = {"foe", "dtoe", "ddir", "bcoe"}
    BY <1>1, Groups DEF Opcodes
  <2>3. op \in 28 .. 31 => Uops(op)[3] = {"jmp"}
    BY <1>1, Groups DEF Opcodes
  <2>4. op = 62 => Uops(op)[3] = {"aluoe"}
    BY <1>1, Groups DEF Opcodes
  <2> QED BY <1>2, <1>3, <2>1, <2>2, <2>3, <2>4
<1>5. op \in 4 .. 25 => Quiet(Uops(op)[3])
  <2>1. op \in 4 .. 25 => Uops(op)[3] \in Drives
    BY <1>1, <1>3, Groups DEF Opcodes
  <2> QED BY <1>2, <2>1
<1>6. op \in 32 .. 39 \/ op = 61 => Quiet(Uops(op)[3])
  <2>1. op \in 32 .. 39 \/ op = 61 => Uops(op)[3] \in Drives
    BY <1>1, <1>3, Groups DEF Opcodes
  <2> QED BY <1>2, <2>1
<1> QED BY <1>4, <1>5, <1>6 DEF Opcodes, Reserved

\* What the last word of an instruction of four words asserts.
LEMMA LastWords ==
  ASSUME NEW op \in Opcodes
  PROVE  /\ op \in 0 .. 3 => Uops(op)[4] = {"rdp", "pcoe", "dtoe", "pcck", ClockOf(op), "upcrst"}
         /\ op \in 4 .. 15 => Uops(op)[4] = MoveSource(op) \cup MoveTarget(op) \cup {"upcrst"}
         /\ op \in 16 .. 19 => Uops(op)[4] = {"rdd", ClockOf(op - 16), "upcrst"}
         /\ op \in 20 .. 23 => Uops(op)[4] = {"rdp", "dtoe", "bcoe", ClockOf(op - 20), "upcrst"}
         /\ op = 24 => Uops(op)[4] = {"foe", "wrd", "upcrst"}
         /\ op = 25 => Uops(op)[4] = {"aoe", "wrd", "upcrst"}
         /\ op = 26 => Uops(op)[4] = {"wrp", "foe", "dtoe", "ddir", "bcoe", "upcrst"}
         /\ op = 27 => Uops(op)[4] = {"wrp", "aoe", "dtoe", "ddir", "bcoe", "upcrst"}
         /\ op \in 28 .. 31 => Uops(op)[4] = {"jmp", "pcck", "upcrst"}
         /\ op \in 32 .. 33 => Uops(op)[4] = {"aluoe", "fclk", "upcrst"}
         /\ op \in 34 .. 35 => Uops(op)[4] = {"fsors", "aluoe", "fclk", "aclk", "upcrst"}
         /\ op \in 36 .. 37 => Uops(op)[4] = {"fsors", "aluoe", "fclk", "bclk", "upcrst"}
         /\ op \in 38 .. 39 => Uops(op)[4] = {"fsors", "aluoe", "fclk", "cclk", "upcrst"}
         /\ op = 61 => Uops(op)[4] = {"fsors", "ashoe", "fclk", "aclk", "upcrst"}
<1>1. /\ \A clk : Immediate(clk)[4] = OperandByte \cup {"pcck", clk, "upcrst"}
      /\ \A drive, latch : Transfer(drive, latch)[4] = drive \cup latch \cup {"upcrst"}
      /\ \A source : StoreProgram(source)[4] = {"wrp", source, "dtoe", "ddir", "bcoe", "upcrst"}
      /\ Branch[4] = {"jmp", "pcck", "upcrst"}
  BY DEF Immediate, Transfer, StoreProgram, Branch
<1>2. op \in 0 .. 3 => Uops(op)[4] = {"rdp", "pcoe", "dtoe", "pcck", ClockOf(op), "upcrst"}
  <2>1. op \in 0 .. 3 => Uops(op)[4] = OperandByte \cup {"pcck", ClockOf(op), "upcrst"}
    BY <1>1, Groups DEF Opcodes
  <2> QED BY <2>1 DEF OperandByte
<1>3. op \in 4 .. 15 => Uops(op)[4] = MoveSource(op) \cup MoveTarget(op) \cup {"upcrst"}
  BY <1>1, Groups DEF Opcodes
<1>4. op \in 16 .. 19 => Uops(op)[4] = {"rdd", ClockOf(op - 16), "upcrst"}
  <2>1. op \in 16 .. 19 => Uops(op)[4] = {"rdd"} \cup {ClockOf(op - 16)} \cup {"upcrst"}
    BY <1>1, Groups DEF Opcodes
  <2> QED BY <2>1
<1>5. op \in 20 .. 23 => Uops(op)[4] = {"rdp", "dtoe", "bcoe", ClockOf(op - 20), "upcrst"}
  <2>1. op \in 20 .. 23 => Uops(op)[4] = {"rdp", "dtoe", "bcoe"} \cup {ClockOf(op - 20)} \cup {"upcrst"}
    BY <1>1, Groups DEF Opcodes
  <2> QED BY <2>1
<1>6. op = 24 => Uops(op)[4] = {"foe", "wrd", "upcrst"}
  <2>1. op = 24 => Uops(op)[4] = {"foe"} \cup {"wrd"} \cup {"upcrst"}
    BY <1>1, Groups DEF Opcodes
  <2> QED BY <2>1
<1>7. op = 25 => Uops(op)[4] = {"aoe", "wrd", "upcrst"}
  <2>1. op = 25 => Uops(op)[4] = {"aoe"} \cup {"wrd"} \cup {"upcrst"}
    BY <1>1, Groups DEF Opcodes
  <2> QED BY <2>1
<1>8. op = 26 => Uops(op)[4] = {"wrp", "foe", "dtoe", "ddir", "bcoe", "upcrst"}
  BY <1>1, Groups DEF Opcodes
<1>9. op = 27 => Uops(op)[4] = {"wrp", "aoe", "dtoe", "ddir", "bcoe", "upcrst"}
  BY <1>1, Groups DEF Opcodes
<1>10. op \in 28 .. 31 => Uops(op)[4] = {"jmp", "pcck", "upcrst"}
  BY <1>1, Groups DEF Opcodes
<1>11. op \in 32 .. 33 => Uops(op)[4] = {"aluoe", "fclk", "upcrst"}
  <2>1. op \in 32 .. 33 => Uops(op)[4] = {"aluoe"} \cup {"fclk"} \cup {"upcrst"}
    BY <1>1, Groups DEF Opcodes
  <2> QED BY <2>1
<1>12. op \in 34 .. 35 => Uops(op)[4] = {"fsors", "aluoe", "fclk", "aclk", "upcrst"}
  <2>1. op \in 34 .. 35 => Uops(op)[4] = {"fsors", "aluoe"} \cup {"fclk", "aclk"} \cup {"upcrst"}
    BY <1>1, Groups DEF Opcodes
  <2> QED BY <2>1
<1>13. op \in 36 .. 37 => Uops(op)[4] = {"fsors", "aluoe", "fclk", "bclk", "upcrst"}
  <2>1. op \in 36 .. 37 => Uops(op)[4] = {"fsors", "aluoe"} \cup {"fclk", "bclk"} \cup {"upcrst"}
    BY <1>1, Groups DEF Opcodes
  <2> QED BY <2>1
<1>14. op \in 38 .. 39 => Uops(op)[4] = {"fsors", "aluoe", "fclk", "cclk", "upcrst"}
  <2>1. op \in 38 .. 39 => Uops(op)[4] = {"fsors", "aluoe"} \cup {"fclk", "cclk"} \cup {"upcrst"}
    BY <1>1, Groups DEF Opcodes
  <2> QED BY <2>1
<1>15. op = 61 => Uops(op)[4] = {"fsors", "ashoe", "fclk", "aclk", "upcrst"}
  <2>1. op = 61 => Uops(op)[4] = {"fsors", "ashoe"} \cup {"fclk", "aclk"} \cup {"upcrst"}
    BY <1>1, Groups DEF Opcodes
  <2> QED BY <2>1
<1> QED BY <1>2, <1>3, <1>4, <1>5, <1>6, <1>7, <1>8, <1>9, <1>10, <1>11, <1>12, <1>13, <1>14, <1>15

LEMMA LongerWords ==
  /\ Uops(60)[4] = {"rdp", "pcoe", "dtoe", "pcck", "bclk"}
  /\ Uops(60)[5] = {"rdp", "pcoe", "dtoe"}
  /\ Uops(60)[6] = {"rdp", "pcoe", "dtoe", "pcck", "cclk", "upcrst"}
  /\ Uops(62)[4] = {"aluoe", "aclk"} /\ Uops(62)[5] = {"aluoe"}
  /\ Uops(62)[6] = {"aluoe", "bclk"} /\ Uops(62)[7] = {"aluoe"}
  /\ Uops(62)[8] = {"aluoe", "aclk", "upcrst"}
<1>1. Uops(60) = ImmediateAddress /\ Uops(62) = Swap
  BY Groups DEF Opcodes
<1>2. /\ ImmediateAddress[4] = OperandByte \cup {"pcck", "bclk"}
      /\ ImmediateAddress[5] = OperandByte
      /\ ImmediateAddress[6] = OperandByte \cup {"pcck", "cclk", "upcrst"}
  BY DEF ImmediateAddress
<1>3. /\ Swap[4] = {"aluoe", "aclk"} /\ Swap[5] = {"aluoe"}
      /\ Swap[6] = {"aluoe", "bclk"} /\ Swap[7] = {"aluoe"}
      /\ Swap[8] = {"aluoe", "aclk", "upcrst"}
  BY DEF Swap
<1> QED BY <1>1, <1>2, <1>3 DEF OperandByte

-----------------------------------------------------------------------------
(* The inductive invariant: how far an instruction has come.               *)

\* The address k bytes past the instruction under way.
Past(k) == (retired.pc + k) % 65536

\* SWP's first pass through the arithmetic unit, and its second.
First  == AluResult(ir, retired.a, retired.b, retired.f)
Second == AluResult(ir, First, retired.b, retired.f)

\* What the clocks of the instruction under way have done of it: fetched it,
\* stepped the PC, and, for the two longer ones, latched part of the result.
Between ==
  /\ ir = Read(retired.prog, retired.pc, Erased)
  /\ c = retired.c /\ f = retired.f
  /\ prog = retired.prog /\ data = retired.data /\ out = retired.out
  /\ upc <= 2 => pc = retired.pc
  /\ upc > 2 /\ ~(ir \div 4 = 60 /\ upc > 4) => pc = Past(1)
  /\ upc > 4 /\ ir \div 4 = 60 => pc = Past(2)
  /\ ~(ir \div 4 = 62 /\ upc > 4) => a = retired.a
  /\ ir \div 4 = 62 /\ upc > 4 => a = First
  /\ ~(ir \div 4 = 60 /\ upc > 4) /\ ~(ir \div 4 = 62 /\ upc > 6) => b = retired.b
  /\ ir \div 4 = 60 /\ upc > 4 => b = Read(retired.prog, Past(1), Erased)
  /\ ir \div 4 = 62 /\ upc > 6 => b = Second

\* What the first clock of the reset may have done to the memories.
Clobbered ==
  /\ prog = retired.prog \/ \E x \in DOMAIN prog : prog = Write(retired.prog, x, prog[x])
  /\ data = retired.data \/ \E x \in DOMAIN data : data = Write(retired.data, x, data[x])
  /\ out = retired.out \/ \E byte \in Byte : out = Append(retired.out, byte)

InStep ==
  /\ phase = "reset1" => upc = 0 /\ On("upcrst") /\ retired = Architecture
  /\ phase = "reset2" => upc = 0 /\ retired.on = FALSE /\ Clobbered
  /\ phase = "run" => retired.on = TRUE /\ retired.pc \in Address
  /\ phase = "run" /\ upc = 0 => mcr \in {Fill, ReadByte} /\ retired = Architecture
  /\ phase = "run" /\ upc # 0 => Between

\* The counter is at a word of the microprogram of the instruction register.
LEMMA WordAt ==
  ASSUME IInv, phase = "run", upc # 0
  PROVE  /\ ir \div 4 \in Opcodes /\ upc \in Nat
         /\ upc <= Len(Uops(ir \div 4)) /\ mcr = Uops(ir \div 4)[upc] /\ Clean(mcr)
         /\ On("upcrst") <=> upc = Len(Uops(ir \div 4))
<1>1. /\ upc \in 1 .. Len(Uops(ir \div 4)) /\ mcr = RomWord(ir \div 4, upc - 1)
      /\ ir \div 4 \in Opcodes
  BY OpcodeOfByte DEF IInv, Sequenced, TypeOK
<1>2. Len(Uops(ir \div 4)) \in Nat
  BY <1>1, RomWordFacts
<1>3. upc \in Nat /\ upc - 1 \in Nat /\ upc - 1 < Len(Uops(ir \div 4))
  BY <1>1, <1>2
<1>4. mcr = Uops(ir \div 4)[upc]
  BY <1>1, <1>3 DEF RomWord
<1>5. Clean(mcr)
  BY <1>1, <1>3, RomClean
<1>6. On("upcrst") <=> upc - 1 = Len(Uops(ir \div 4)) - 1
  BY <1>1, <1>3, RomWordFacts DEF On
<1> QED BY <1>1, <1>2, <1>3, <1>4, <1>5, <1>6

\* Where a clock within an instruction leaves the sequencer.
LEMMA WordAfter ==
  ASSUME IInv, phase = "run", upc # 0, ClockRegisters, upc' = NextUpc
  PROVE  /\ ir' = ir
         /\ upc # Len(Uops(ir \div 4)) => upc' = upc + 1
         /\ upc = Len(Uops(ir \div 4)) => upc' = 0 /\ mcr' = Fill
<1>1. ir' = ir /\ mcr' = RomWord(ir \div 4, upc)
  BY ClockTypes DEF ClockRegisters, IInv
<1>2. upc \in Nat /\ upc <= 8
  BY CounterBound DEF IInv
<1>3. upc # Len(Uops(ir \div 4)) => upc' = upc + 1
  BY <1>2, WordAt DEF NextUpc
<1>4. upc = Len(Uops(ir \div 4)) => upc' = 0 /\ mcr' = Fill
  BY <1>1, WordAt DEF NextUpc, RomWord
<1> QED BY <1>1, <1>3, <1>4

LEMMA Wraps ==
  ASSUME NEW y \in Nat, y < 131072
  PROVE  y % 65536 = IF y < 65536 THEN y ELSE y - 65536
OBVIOUS

LEMMA NextAddress ==
  ASSUME NEW x \in Address
  PROVE  /\ x % 65536 = x /\ (x + 1) % 65536 \in Address
         /\ (((x + 1) % 65536) + 1) % 65536 = (x + 2) % 65536
         /\ (((x + 2) % 65536) + 1) % 65536 = (x + 3) % 65536
<1>1. x \in Nat /\ x < 65536
  BY DEF Address
<1> DEFINE m(k) == IF x + k < 65536 THEN x + k ELSE (x + k) - 65536
<1>2. /\ x % 65536 = x /\ (x + 1) % 65536 = m(1) /\ (x + 2) % 65536 = m(2)
      /\ (x + 3) % 65536 = m(3)
  BY <1>1, Wraps
<1>3. \A k \in 1 .. 3 : m(k) \in Nat /\ m(k) < 65536
  BY <1>1
<1>4. \A k \in 1 .. 2 : (m(k) + 1) % 65536 = IF m(k) + 1 < 65536 THEN m(k) + 1 ELSE (m(k) + 1) - 65536
  BY <1>3, Wraps
<1>5. (m(1) + 1) % 65536 = m(2) 
  BY <1>1, <1>4
<1>6. (m(2) + 1) % 65536 = m(3)
  BY <1>1, <1>4
<1> HIDE DEF m
<1> QED BY <1>2, <1>3, <1>5, <1>6 DEF Address

\* A clock that only drives, and does not end the instruction.
LEMMA QuietBetween ==
  ASSUME IInv, Between, phase = "run", upc # 0, Quiet(mcr), ClockRegisters, pc' = NextPc,
         upc' = upc + 1, retired' = retired, ir' = ir,
         upc \in {1, 3, 5, 7}
  PROVE  Between'
<1>1. /\ a' = a /\ b' = b /\ c' = c /\ f' = f /\ prog' = prog /\ data' = data /\ out' = out
      /\ pc' = pc
  BY QuietClock, QuietPc DEF Quiet, Kept, On
<1>2. /\ upc' <= 2 <=> upc <= 2
      /\ upc' > 2 <=> upc > 2
      /\ upc' > 4 <=> upc > 4
      /\ upc' > 6 <=> upc > 6
  OBVIOUS
<1>3. First' = First /\ Second' = Second /\ Past(1)' = Past(1) /\ Past(2)' = Past(2)
  BY DEF First, Second, Past
<1> QED BY <1>1, <1>2, <1>3 DEF Between

-----------------------------------------------------------------------------
(* The clocks of the reset, and of the counter at zero.                    *)

\* At count zero the byte at the PC is fetched and nothing else changes.
LEMMA FetchClock ==
  ASSUME IInv, InStep, phase = "run", upc = 0, Clock, retired' = retired
  PROVE  InStep'
<1>1. mcr \in {Fill, ReadByte} /\ retired = Architecture /\ retired.on = TRUE /\ retired.pc \in Address
  BY DEF InStep
<1>2. ClockRegisters /\ pc' = NextPc /\ upc' = NextUpc /\ phase' = "run"
  BY DEF Clock
<1>3. Quiet(mcr) /\ Clean(mcr) /\ On("rdp") /\ On("pcoe")
  BY <1>1, ReadingClean DEF Quiet, Effects, Fill, ReadByte, On
<1>4. /\ a' = a /\ b' = b /\ c' = c /\ f' = f /\ prog' = prog /\ data' = data /\ out' = out
      /\ pc' = pc
  BY <1>2, <1>3, QuietClock, QuietPc DEF Quiet, Kept, On
<1>5. ir' = Read(prog, pc, Erased)
  BY <1>2, <1>3, LoneDriver DEF ClockRegisters, ReadProgram, IInv
<1>6. mcr' = ReadByte
  <2>1. mcr' = RomWord(ir' \div 4, 0) /\ ir' \div 4 \in Opcodes
    BY <1>2, ClockTypes, OpcodeOfByte DEF IInv
  <2> QED BY <2>1, RomWordFacts DEF ReadByte
<1>7. upc' \in {0, 1}
  BY <1>2 DEF NextUpc
<1>8. Architecture' = Architecture
  BY <1>2, <1>4 DEF Architecture
<1>9. upc' = 1 => Between'
  BY <1>1, <1>4, <1>5, <1>7 DEF Between, Architecture
<1> QED BY <1>1, <1>2, <1>6, <1>7, <1>8, <1>9 DEF InStep

\* The first clock of the reset, whose word may write to one byte of each memory.
LEMMA ResetFirst ==
  ASSUME IInv, InStep, ResetFirstClock, retired' = retired
  PROVE  InStep'
<1>1. upc = 0 /\ On("upcrst") /\ retired = Architecture /\ phase = "reset1"
  BY DEF InStep, ResetFirstClock
<1>2. ClockRegisters /\ upc' = NextUpc /\ phase' = "reset2"
  BY DEF ResetFirstClock
<1>3. upc' = 0
  BY <1>1, <1>2 DEF NextUpc
<1>4. retired'.on = FALSE /\ retired'.prog = prog /\ retired'.data = data /\ retired'.out = out
  BY <1>1 DEF Architecture
<1>5. ProgramAddress \in Address /\ ProgramData \in Byte /\ DataBus \in Byte /\ BC \in Address
  BY BusTypes DEF IInv
<1>6. ASSUME NEW memory, NEW address, NEW byte
      PROVE  \E x \in DOMAIN Write(memory, address, byte) :
               Write(memory, address, byte) = Write(memory, x, Write(memory, address, byte)[x])
  <2>1. address \in DOMAIN Write(memory, address, byte)
        /\ Write(memory, address, byte)[address] = byte
    BY DEF Write
  <2> QED BY <2>1
<1>7. prog' = retired'.prog \/ \E x \in DOMAIN prog' : prog' = Write(retired'.prog, x, prog'[x])
  BY <1>2, <1>4, <1>6 DEF ClockRegisters
<1>8. data' = retired'.data \/ \E x \in DOMAIN data' : data' = Write(retired'.data, x, data'[x])
  BY <1>2, <1>4, <1>6 DEF ClockRegisters, Stored
<1>9. out' = retired'.out \/ \E byte \in Byte : out' = Append(retired'.out, byte)
  BY <1>2, <1>4, <1>5 DEF ClockRegisters, Printed
<1> QED BY <1>2, <1>3, <1>4, <1>7, <1>8, <1>9 DEF InStep, Clobbered

\* Its second clock fetches and clears the counters.
LEMMA ResetSecond ==
  ASSUME IInv, InStep, ResetSecondClock, retired' = Architecture'
  PROVE  /\ InStep' /\ pc' = 0
         /\ prog' = prog /\ data' = data /\ out' = out /\ retired.on = FALSE /\ Clobbered
<1>1. upc = 0 /\ retired.on = FALSE /\ Clobbered /\ phase = "reset2"
  BY DEF InStep, ResetSecondClock
<1>2. ClockRegisters /\ upc' = 0 /\ phase' = "run" /\ pc' = 0
  BY DEF ResetSecondClock
<1>3. ir \div 4 \in Opcodes /\ mcr = RomWord(ir \div 4, 0)
  BY <1>1, OpcodeOfByte DEF IInv, Sequenced, TypeOK
<1>4. Quiet(mcr)
  BY <1>3, RomWordFacts DEF Quiet, Effects
<1>5. prog' = prog /\ data' = data /\ out' = out
  BY <1>2, <1>4, QuietClock DEF Quiet, Kept, On
<1>6. mcr' = ReadByte
  <2>1. mcr' = RomWord(ir' \div 4, 0) /\ ir' \div 4 \in Opcodes
    BY <1>1, <1>2, ClockTypes, OpcodeOfByte DEF IInv
  <2> QED BY <2>1, RomWordFacts DEF ReadByte
<1>7. retired'.on = TRUE /\ retired'.pc = 0
  BY <1>2 DEF Architecture
<1>8. 0 \in Address
  BY DEF Address
<1> QED BY <1>1, <1>2, <1>5, <1>6, <1>7, <1>8 DEF InStep

-----------------------------------------------------------------------------
(* The clocks within an instruction.                                       *)

\* The PC is stepped, by every instruction.
LEMMA StepClock ==
  ASSUME IInv, Between, phase = "run", upc = 2, ClockRegisters, pc' = NextPc, retired.pc \in Address
  PROVE  /\ a' = retired.a /\ b' = retired.b /\ c' = retired.c /\ f' = retired.f
         /\ prog' = retired.prog /\ data' = retired.data /\ out' = retired.out
         /\ pc' = Past(1)
<1>1. \/ mcr = {"rdp", "pcoe", "pcck"}
      \/ mcr = {"rdp", "pcoe", "pcck", "upcrst"}
  BY WordAt, FirstWords
<1>2. Kept
  BY <1>1, QuietClock DEF Effects, On
<1>3. pc' = (pc + 1) % 65536 /\ pc = retired.pc
  BY <1>1 DEF NextPc, On, Between
<1> QED BY <1>2, <1>3 DEF Kept, Between, Past

\* The two longer instructions latch before their end.
LEMMA AddressClock ==
  ASSUME IInv, Between, phase = "run", upc = 4, ir \div 4 = 60,
         ClockRegisters, pc' = NextPc, upc' = upc + 1, ir' = ir,
         retired' = retired, retired.pc \in Address
  PROVE  Between'
<1>1. mcr = {"rdp", "pcoe", "dtoe", "pcck", "bclk"} /\ Clean(mcr)
  BY WordAt, LongerWords
<1>2. /\ On("bclk") /\ On("pcck") /\ ~On("jmp") /\ ~On("aclk") /\ ~On("cclk") /\ ~On("fclk")
      /\ ~On("wrp") /\ ~On("wrd") /\ On("rdp") /\ On("pcoe") /\ On("dtoe") /\ ~On("ddir")
  BY <1>1 DEF On
<1>3. DataBus = Read(prog, pc, Erased)
  BY <1>1, <1>2, LoneDriver DEF IInv, ReadProgram
<1>4. /\ a' = a /\ b' = DataBus /\ c' = c /\ f' = f /\ prog' = prog /\ data' = data /\ out' = out
  BY <1>2 DEF ClockRegisters, Latch, NextF
<1>5. pc = Past(1) /\ a = retired.a
  BY DEF Between
<1>6. pc' = Past(2)
  <2>1. pc' = (Past(1) + 1) % 65536
    BY <1>2, <1>5 DEF NextPc
  <2> QED BY <2>1, NextAddress DEF Past
<1>7. Past(1)' = Past(1) /\ Past(2)' = Past(2)
  BY DEF Past
<1>8. upc' = 5
  OBVIOUS
<1> QED BY <1>3, <1>4, <1>5, <1>6, <1>7, <1>8 DEF Between

LEMMA SwapClocks ==
  ASSUME IInv, Between, phase = "run", upc \in {4, 6}, ir \div 4 = 62,
         ClockRegisters, pc' = NextPc, upc' = upc + 1, ir' = ir,
         retired' = retired, retired.pc \in Address
  PROVE  Between'
<1>1. /\ upc = 4 => mcr = {"aluoe", "aclk"}
      /\ upc = 6 => mcr = {"aluoe", "bclk"}
      /\ Clean(mcr)
  BY WordAt, LongerWords
<1>2. /\ ~On("pcck") /\ ~On("cclk") /\ ~On("fclk") /\ ~On("wrp") /\ ~On("wrd") /\ On("aluoe")
      /\ (On("aclk") <=> upc = 4) /\ (On("bclk") <=> upc = 6)
  BY <1>1 DEF On
<1>3. DataBus = AluResult(ir, a, b, f)
  BY <1>1, <1>2, LoneDriver DEF IInv, Alu8
<1>4. /\ c' = c /\ f' = f /\ prog' = prog /\ data' = data /\ out' = out /\ pc' = pc
      /\ a' = (IF upc = 4 THEN DataBus ELSE a) /\ b' = (IF upc = 6 THEN DataBus ELSE b)
  BY <1>2 DEF ClockRegisters, Latch, NextF, NextPc
<1>5. First' = First /\ Second' = Second /\ Past(1)' = Past(1)
  BY DEF First, Second, Past
<1>6. CASE upc = 4
  <2>1. a' = First /\ b' = retired.b /\ upc' = 5 /\ pc' = Past(1)
    BY <1>3, <1>4, <1>6 DEF Between, First
  <2> QED BY <1>4, <1>5, <2>1 DEF Between
<1>7. CASE upc = 6
  <2>1. a' = First /\ b' = Second /\ upc' = 7 /\ pc' = Past(1)
    BY <1>3, <1>4, <1>7 DEF Between, Second
  <2> QED BY <1>4, <1>5, <2>1 DEF Between
<1> QED BY <1>6, <1>7

\* How far a microprogram may have come without being at its last word.
LEMMA InnerWords ==
  ASSUME NEW op \in Opcodes, NEW n \in Nat, n # 0, n < Len(Uops(op))
  PROVE  /\ n \in 1 .. 7
         /\ n > 1 => op \notin Reserved
         /\ n > 3 => op \in {60, 62}
         /\ n > 5 => op = 62
<1>1. /\ op \in Reserved => n < 2
      /\ op = 60 => n < 6
      /\ op = 62 => n < 8
      /\ op \notin Reserved \cup {60, 62} => n < 4
  BY Lengths
<1>2. op \in Reserved => op \notin {60, 62}
  BY DEF Reserved
<1> QED BY <1>1, <1>2

\* A clock that does not end an instruction leaves it one clock further on.
LEMMA WithinInstruction ==
  ASSUME IInv, InStep, Clock, ~Completes, retired' = retired
  PROVE  InStep'
<1>1. CASE upc = 0
  BY <1>1, FetchClock DEF Clock
<1>2. CASE upc # 0
  <2> DEFINE op == ir \div 4
  <2>1. /\ ClockRegisters /\ pc' = NextPc /\ upc' = NextUpc /\ phase = "run" /\ phase' = "run"
        /\ Between /\ retired.on = TRUE /\ retired.pc \in Address
    BY <1>2 DEF Clock, InStep
  <2>2. /\ op \in Opcodes /\ upc \in Nat /\ upc < Len(Uops(op)) /\ mcr = Uops(op)[upc]
        /\ upc' = upc + 1 /\ ir' = ir
    BY <1>2, <2>1, WordAt, WordAfter, Lengths DEF Completes
  <2>3. /\ upc \in 1 .. 7
        /\ upc > 1 => op \notin Reserved
        /\ upc > 3 => op \in {60, 62}
        /\ upc > 5 => op = 62
    BY <1>2, <2>2, InnerWords
  <2>4. ASSUME upc \in {1, 3, 5, 7} PROVE Between'
    <3>1. Quiet(mcr)
      <4>1. upc = 1 => Quiet(mcr)
        BY <2>2, FirstWords DEF Quiet, Effects
      <4>2. upc = 3 => Quiet(mcr)
        BY <2>2, <2>3, ThirdWord
      <4>3. upc \in {5, 7} => Quiet(mcr)
        BY <2>2, <2>3, LongerWords DEF Quiet, Effects
      <4> QED BY <2>4, <4>1, <4>2, <4>3
    <3> QED BY <1>2, <2>1, <2>2, <2>4, <3>1, QuietBetween
  <2>5. ASSUME upc = 2 PROVE Between'
    <3>1. Past(1)' = Past(1) /\ upc' = 3
      BY <2>2, <2>5 DEF Past
    <3> QED BY <2>1, <2>2, <2>5, <3>1, StepClock DEF Between
  <2>6. ASSUME upc \in {4, 6} PROVE Between'
    <3>1. op = 60 /\ upc = 4 => Between'
      BY <2>1, <2>2, <2>6, AddressClock
    <3>2. op = 62 => Between'
      BY <2>1, <2>2, <2>6, SwapClocks
    <3> QED BY <2>3, <2>6, <3>1, <3>2
  <2>7. Between'
    BY <2>3, <2>4, <2>5, <2>6
  <2>8. upc' # 0 /\ retired'.on = TRUE /\ retired'.pc \in Address
    BY <2>1, <2>2
  <2> QED BY <2>1, <2>7, <2>8 DEF InStep
<1> QED BY <1>1, <1>2

-----------------------------------------------------------------------------
(* The clock that ends an instruction, for each instruction of Isa.        *)

\* What the instruction set sees of the retired registers.
LEMMA MachineView ==
  ASSUME ir = Read(retired.prog, retired.pc, Erased)
  PROVE  /\ Machine!Instruction = ir /\ Machine!Opcode = ir \div 4
         /\ Machine!CB = AddressOf(retired.c, retired.b)
         /\ \A k : Machine!Ahead(k) = Past(k)
         /\ \A k : Machine!Operand(k) = Read(retired.prog, Past(k), Erased)
         /\ Machine!Register(0) = retired.f /\ Machine!Register(1) = retired.a
         /\ Machine!Register(2) = retired.b /\ Machine!Register(3) = retired.c
<1>1. Machine!Instruction = ir
  BY SameMemory DEF Machine!Instruction
<1>2. Machine!Opcode = ir \div 4
  BY <1>1 DEF Machine!Opcode
<1>3. Machine!CB = AddressOf(retired.c, retired.b)
  BY SameMemory DEF Machine!CB
<1>4. \A k : Machine!Ahead(k) = Past(k)
  BY DEF Machine!Ahead, Past
<1>5. \A k : Machine!Operand(k) = Read(retired.prog, Past(k), Erased)
  BY <1>4, SameMemory DEF Machine!Operand
<1>6. /\ Machine!Register(0) = retired.f /\ Machine!Register(1) = retired.a
      /\ Machine!Register(2) = retired.b /\ Machine!Register(3) = retired.c
  BY DEF Machine!Register
<1> QED BY <1>1, <1>2, <1>3, <1>4, <1>5, <1>6

\* The last clock: the results land, and the history variable takes them.
Lands ==
  /\ ClockRegisters /\ pc' = NextPc
  /\ retired'.a = a' /\ retired'.b = b' /\ retired'.c = c' /\ retired'.f = f'
  /\ retired'.pc = pc' /\ retired'.prog = prog' /\ retired'.data = data' /\ retired'.out = out'

\* The last clock of four finds the registers as the instruction found them.
Ready ==
  /\ IInv /\ Clean(mcr) /\ retired.pc \in Address
  /\ ir = Read(retired.prog, retired.pc, Erased)
  /\ a = retired.a /\ b = retired.b /\ c = retired.c /\ f = retired.f
  /\ prog = retired.prog /\ data = retired.data /\ out = retired.out
  /\ pc = Past(1)

\* A register is assigned when its clock alone is asserted.
LEMMA AssignOne ==
  ASSUME Ready, Lands, NEW n \in 0 .. 3, ~On("fsors"),
         On("fclk") <=> n = 0, On("aclk") <=> n = 1, On("bclk") <=> n = 2, On("cclk") <=> n = 3
  PROVE  Machine!Assign(n, DataBus)
BY DEF Machine!Assign, Ready, Lands, ClockRegisters, Latch, NextF

LEMMA MemoriesKept ==
  ASSUME Ready, Lands, ~On("wrp"), ~On("wrd")
  PROVE  Machine!KeepMemories
BY DEF Machine!KeepMemories, Ready, Lands, ClockRegisters

LEMMA RegistersKept ==
  ASSUME Ready, Lands, ~On("fclk"), ~On("aclk"), ~On("bclk"), ~On("cclk")
  PROVE  Machine!KeepRegisters
BY DEF Machine!KeepRegisters, Ready, Lands, ClockRegisters, Latch, NextF

LEMMA AddressKept ==
  ASSUME Ready, Lands, ~On("pcck")
  PROVE  retired'.pc = Machine!Ahead(1)
BY DEF Machine!Ahead, Past, Ready, Lands, NextPc

LEMMA AddressStepped ==
  ASSUME Ready, Lands, On("pcck"), ~On("jmp")
  PROVE  retired'.pc = Machine!Ahead(2)
BY NextAddress DEF Machine!Ahead, Past, Ready, Lands, NextPc

LEMMA EndImmediate ==
  ASSUME Ready, Lands, ir \div 4 \in 0 .. 3,
         mcr = {"rdp", "pcoe", "dtoe", "pcck", ClockOf(ir \div 4), "upcrst"}
  PROVE  Machine!LoadImmediate
<1> DEFINE n == ir \div 4
<1>1. /\ ~On("fsors") /\ ~On("wrp") /\ ~On("wrd") /\ On("pcck") /\ ~On("jmp")
      /\ On("rdp") /\ On("pcoe") /\ On("dtoe") /\ ~On("ddir")
      /\ (On("fclk") <=> n = 0) /\ (On("aclk") <=> n = 1)
      /\ (On("bclk") <=> n = 2) /\ (On("cclk") <=> n = 3)
  BY DEF On, ClockOf
<1>2. DataBus = Machine!Operand(1)
  <2>1. DataBus = Read(prog, pc, Erased)
    BY <1>1, LoneDriver DEF Ready, IInv, ReadProgram
  <2> QED BY <2>1, MachineView DEF Ready
<1>3. Machine!Opcode = n
  BY MachineView DEF Ready
<1>4. Machine!Assign(n, DataBus)
  BY <1>1, AssignOne
<1> QED BY <1>1, <1>2, <1>3, <1>4, MemoriesKept, AddressStepped DEF Machine!LoadImmediate

LEMMA EndMove ==
  ASSUME Ready, Lands, ir \div 4 \in 4 .. 15,
         mcr = MoveSource(ir \div 4) \cup MoveTarget(ir \div 4) \cup {"upcrst"}
  PROVE  Machine!Move
<1> DEFINE op == ir \div 4
           source == (op - 4) \div 3
           other == (op - 4) % 3
           n == IF other < source THEN other ELSE other + 1
<1>1. /\ op \in 4 .. 6 => source = 0 /\ n = op - 3
      /\ op \in 7 .. 9 => source = 1 /\ n = IF op = 7 THEN 0 ELSE op - 6
      /\ op \in 10 .. 12 => source = 2 /\ n = IF op = 12 THEN 3 ELSE op - 10
      /\ op \in 13 .. 15 => source = 3 /\ n = op - 13
  OBVIOUS
<1>2. MoveTarget(op) = {ClockOf(n)} /\ n \in 0 .. 3
  <2>1. n \in 0 .. 3
    BY <1>1
  <2>2. op \in 4 .. 9 => MoveTarget(op) = {ClockOf(n)}
    BY <1>1 DEF MoveTarget, ClockOf
  <2>3. op \in 10 .. 15 => MoveTarget(op) = {ClockOf(n)}
    BY <1>1 DEF MoveTarget, ClockOf
  <2> QED BY <2>1, <2>2, <2>3
<1>3. /\ op \in 4 .. 6 => mcr = {"foe", ClockOf(n), "upcrst"}
      /\ op \in 7 .. 9 => mcr = {"aoe", ClockOf(n), "upcrst"}
      /\ op \in 10 .. 12 => mcr = {"boe", ClockOf(n), "upcrst"}
      /\ op \in 13 .. 15 => mcr = {"coe", ClockOf(n), "upcrst"}
  <2>1. op \in 4 .. 6 => MoveSource(op) = {"foe"}
    BY DEF MoveSource
  <2>2. op \in 7 .. 9 => MoveSource(op) = {"aoe"}
    BY DEF MoveSource
  <2>3. op \in 10 .. 12 => MoveSource(op) = {"boe"}
    BY DEF MoveSource
  <2>4. op \in 13 .. 15 => MoveSource(op) = {"coe"}
    BY DEF MoveSource
  <2>5. \A s : MoveSource(op) = {s} => mcr = {s, ClockOf(n), "upcrst"}
    BY <1>2
  <2> QED BY <2>1, <2>2, <2>3, <2>4, <2>5
<1>4. /\ ~On("fsors") /\ ~On("wrp") /\ ~On("wrd") /\ ~On("pcck")
      /\ (On("fclk") <=> n = 0) /\ (On("aclk") <=> n = 1)
      /\ (On("bclk") <=> n = 2) /\ (On("cclk") <=> n = 3)
  BY <1>2, <1>3 DEF On, ClockOf
<1>5. DataBus = Machine!Register(source)
  <2>1. /\ op \in 4 .. 6 => DataBus = f
        /\ op \in 7 .. 9 => DataBus = a
        /\ op \in 10 .. 12 => DataBus = b
        /\ op \in 13 .. 15 => DataBus = c
    <3>1. /\ op \in 4 .. 6 => On("foe")
          /\ op \in 7 .. 9 => On("aoe")
          /\ op \in 10 .. 12 => On("boe")
          /\ op \in 13 .. 15 => On("coe")
      BY <1>3 DEF On
    <3> QED BY <3>1, LoneDriver DEF Ready, IInv
  <2> QED BY <1>1, <2>1, MachineView DEF Ready
<1>6. Machine!Assign(n, Machine!Register(source))
  BY <1>2, <1>4, <1>5, AssignOne
<1>7. Machine!Opcode = op
  BY MachineView DEF Ready
<1> QED BY <1>4, <1>6, <1>7, MemoriesKept, AddressKept DEF Machine!Move

\* The load instructions: data memory, and program memory.
LEMMA EndLoadData ==
  ASSUME Ready, Lands, ir \div 4 \in 16 .. 19,
         mcr = {"rdd", ClockOf(ir \div 4 - 16), "upcrst"}
  PROVE  Machine!LoadData
<1> DEFINE n == ir \div 4 - 16
<1>1. /\ ~On("fsors") /\ ~On("wrp") /\ ~On("wrd") /\ ~On("pcck") /\ On("rdd")
      /\ (On("fclk") <=> n = 0) /\ (On("aclk") <=> n = 1)
      /\ (On("bclk") <=> n = 2) /\ (On("cclk") <=> n = 3) /\ n \in 0 .. 3
  BY DEF On, ClockOf
<1>2. DataBus = Read(data, AddressOf(c, b), Zeroed)
  BY <1>1, LoneDriver DEF Ready, IInv, ReadData, BC
<1>3. DataBus = Machine!Read(retired.data, Machine!CB, Machine!Zeroed)
  BY <1>2, MachineView, SameMemory DEF Ready
<1>4. Machine!Opcode = ir \div 4
  BY MachineView DEF Ready
<1>5. Machine!Assign(n, DataBus)
  BY <1>1, AssignOne
<1> QED BY <1>1, <1>3, <1>4, <1>5, MemoriesKept, AddressKept DEF Machine!LoadData

LEMMA EndLoadProgram ==
  ASSUME Ready, Lands, ir \div 4 \in 20 .. 23,
         mcr = {"rdp", "dtoe", "bcoe", ClockOf(ir \div 4 - 20), "upcrst"}
  PROVE  Machine!LoadProgram
<1> DEFINE n == ir \div 4 - 20
<1>1. /\ ~On("fsors") /\ ~On("wrp") /\ ~On("wrd") /\ ~On("pcck")
      /\ On("rdp") /\ On("dtoe") /\ ~On("ddir") /\ On("bcoe")
      /\ (On("fclk") <=> n = 0) /\ (On("aclk") <=> n = 1)
      /\ (On("bclk") <=> n = 2) /\ (On("cclk") <=> n = 3) /\ n \in 0 .. 3
  BY DEF On, ClockOf
<1>2. DataBus = Read(prog, AddressOf(c, b), Erased)
  BY <1>1, LoneDriver DEF Ready, IInv, ReadProgram, BC
<1>3. DataBus = Machine!Read(retired.prog, Machine!CB, Machine!Erased)
  BY <1>2, MachineView, SameMemory DEF Ready
<1>4. Machine!Opcode = ir \div 4
  BY MachineView DEF Ready
<1>5. Machine!Assign(n, DataBus)
  BY <1>1, AssignOne
<1> QED BY <1>1, <1>3, <1>4, <1>5, MemoriesKept, AddressKept DEF Machine!LoadProgram

\* The store instructions, of F and of A.
LEMMA EndStoreData ==
  ASSUME Ready, Lands, ir \div 4 \in 24 .. 25,
         mcr = {IF ir \div 4 = 24 THEN "foe" ELSE "aoe", "wrd", "upcrst"}
  PROVE  Machine!StoreData
<1>1. /\ ~On("fclk") /\ ~On("aclk") /\ ~On("bclk") /\ ~On("cclk") /\ ~On("wrp") /\ On("wrd")
      /\ ~On("pcck") /\ (ir \div 4 = 24 => On("foe")) /\ (ir \div 4 = 25 => On("aoe"))
  BY DEF On
<1>2. Machine!Opcode = ir \div 4
  BY MachineView DEF Ready
<1>3. DataBus = Machine!Register(Machine!Opcode - 24)
  <2>1. /\ ir \div 4 = 24 => DataBus = retired.f
        /\ ir \div 4 = 25 => DataBus = retired.a
    BY <1>1, LoneDriver DEF Ready, IInv
  <2>2. /\ ir \div 4 = 24 => Machine!Register(ir \div 4 - 24) = retired.f
        /\ ir \div 4 = 25 => Machine!Register(ir \div 4 - 24) = retired.a
    BY MachineView DEF Ready
  <2> QED BY <1>2, <2>1, <2>2
<1>4. /\ retired'.data = Stored(data, BC, DataBus) /\ retired'.out = Printed(out, BC, DataBus)
      /\ retired'.prog = prog /\ BC = Machine!CB
  BY <1>1, MachineView DEF Lands, ClockRegisters, BC, Ready
<1>5. /\ retired'.data = Machine!Stored(retired.data, Machine!CB, Machine!Register(Machine!Opcode - 24))
      /\ retired'.out = Machine!Printed(retired.out, Machine!CB, Machine!Register(Machine!Opcode - 24))
      /\ retired'.prog = retired.prog
  BY <1>3, <1>4, SameMemory DEF Ready
<1>6. Machine!Opcode \in 24 .. 25 /\ retired'.pc = Machine!Ahead(1) /\ Machine!KeepRegisters
  BY <1>1, <1>2, RegistersKept, AddressKept
<1> QED BY <1>5, <1>6 DEF Machine!StoreData

LEMMA EndStoreProgram ==
  ASSUME Ready, Lands, ir \div 4 \in 26 .. 27,
         mcr = {"wrp", IF ir \div 4 = 26 THEN "foe" ELSE "aoe", "dtoe", "ddir", "bcoe", "upcrst"}
  PROVE  Machine!StoreProgram
<1>1. /\ ~On("fclk") /\ ~On("aclk") /\ ~On("bclk") /\ ~On("cclk") /\ On("wrp") /\ ~On("wrd")
      /\ ~On("pcck")
  BY DEF On
<1>2. Machine!Opcode = ir \div 4
  BY MachineView DEF Ready
<1>3. ProgramAddress = BC /\ ProgramData = IF ir \div 4 = 26 THEN f ELSE a
  <2> DEFINE source == IF ir \div 4 = 26 THEN "foe" ELSE "aoe"
  <2>1. source \in {"foe", "aoe"} /\ (source = "foe" <=> ir \div 4 = 26)
    OBVIOUS
  <2> HIDE DEF source
  <2> QED BY <2>1, StoreBuses DEF Ready, IInv, source
<1>4. ProgramData = Machine!Register(Machine!Opcode - 26)
  <2>1. /\ ir \div 4 = 26 => Machine!Register(ir \div 4 - 26) = retired.f
        /\ ir \div 4 = 27 => Machine!Register(ir \div 4 - 26) = retired.a
    BY MachineView DEF Ready
  <2> QED BY <1>2, <1>3, <2>1 DEF Ready
<1>5. /\ retired'.prog = Write(prog, BC, ProgramData) /\ BC = Machine!CB
      /\ retired'.data = data /\ retired'.out = out
  BY <1>1, <1>3, MachineView DEF Lands, ClockRegisters, BC, Ready
<1>6. /\ retired'.prog = Machine!Write(retired.prog, Machine!CB, Machine!Register(Machine!Opcode - 26))
      /\ retired'.data = retired.data /\ retired'.out = retired.out
  BY <1>4, <1>5, SameMemory DEF Ready
<1>7. Machine!Opcode \in 26 .. 27 /\ retired'.pc = Machine!Ahead(1) /\ Machine!KeepRegisters
  BY <1>1, <1>2, RegistersKept, AddressKept
<1> QED BY <1>6, <1>7 DEF Machine!StoreProgram

LEMMA EndBranch ==
  ASSUME Ready, Lands, ir \div 4 \in 28 .. 31, mcr = {"jmp", "pcck", "upcrst"}
  PROVE  Machine!Branch
<1>1. /\ ~On("fclk") /\ ~On("aclk") /\ ~On("bclk") /\ ~On("cclk") /\ ~On("wrp") /\ ~On("wrd")
      /\ On("pcck") /\ On("jmp")
  BY DEF On
<1>2. retired'.pc = IF BranchTaken(ir, f) THEN BC ELSE pc
  BY <1>1 DEF Lands, NextPc
<1>3. retired'.pc = IF BranchTaken(Machine!Instruction, retired.f)
                    THEN Machine!CB ELSE Machine!Ahead(1)
  BY <1>2, MachineView DEF Ready, BC
<1>4. Machine!Opcode \in 28 .. 31 /\ Machine!KeepRegisters /\ Machine!KeepMemories
  BY <1>1, MachineView, RegistersKept, MemoriesKept DEF Ready
<1> QED BY <1>3, <1>4, SameCondition DEF Machine!Branch

\* The byte of flags that the unit sets, as the instruction set has it.
LEMMA FlagsSet ==
  ASSUME Ready, retired'.f = AluFlags(ir, a, b, f)
  PROVE  /\ Machine!SetsFlags /\ Machine!SetsNotZero /\ Machine!SetsOverflow
<1>1. /\ ir \in Byte /\ a \in Byte /\ b \in Byte /\ f \in Byte
      /\ a = retired.a /\ b = retired.b /\ f = retired.f /\ Machine!Instruction = ir
  BY MachineView DEF Ready, IInv, TypeOK
<1>2. LET flags == AluFlags(ir, a, b, f) IN
      /\ flags \in Byte /\ Bit(flags, 2) = Overflow(ir, a, b, f)
      /\ Bit(flags, 3) = AsBit(AluResult(ir, a, b, f) # 255)
      /\ Bit(flags, 6) = Bit(a, 0) /\ Bit(flags, 7) = 1
  <2>1. ir \in Byte /\ a \in Byte /\ b \in Byte /\ f \in Byte
    BY <1>1
  <2> QED BY ONLY <2>1, FlagBits
<1>3. Machine!SetsFlags
  BY <1>1, <1>2, SameBits DEF Machine!SetsFlags
<1>4. Machine!Result = AluResult(ir, a, b, f)
  BY <1>1, SameResult
<1>5. Machine!SetsNotZero
  BY <1>2, <1>4, SameBits DEF Machine!SetsNotZero, AsBit
<1>6. Machine!SetsOverflow
  <2> DEFINE p == Machine!Signed(a)
             q == Machine!Signed(b)
             exact == Machine!Exact(p, q)
  <2> SUFFICES ASSUME Machine!Function \in 1 .. 3
               PROVE  Overflow(ir, a, b, f) = 1 <=> (exact < 0) # (Machine!Signed(Machine!Result) < 0)
    BY <1>1, <1>2, SameBits DEF Machine!SetsOverflow
  <2>1. Machine!Function = Select(ir) /\ Machine!Carry = CarryIn(f) /\ Select(ir) \in {1, 2, 3}
    BY <1>1, SameBits DEF Machine!Function, Select, Machine!Carry, CarryIn
  <2>2. /\ p = IF a > 127 THEN a - 256 ELSE a
        /\ q = IF b > 127 THEN b - 256 ELSE b
    BY DEF Machine!Signed
  <2>3. p \in Int /\ q \in Int /\ CarryIn(f) \in {0, 1}
    BY <1>1, <2>2, BitType DEF Byte, CarryIn
  <2> HIDE DEF p, q
  <2>4. /\ Select(ir) = 1 => exact = (q - p) - (1 - CarryIn(f))
        /\ Select(ir) = 2 => exact = (p - q) - (1 - CarryIn(f))
        /\ Select(ir) = 3 => exact = (p + q) + CarryIn(f)
    BY <2>1, <2>3 DEF Machine!Exact
  <2>5. Machine!Signed(Machine!Result) < 0 <=> AluResult(ir, a, b, f) > 127
    <3>1. AluResult(ir, a, b, f) \in 0 .. 255
      BY <1>1, AluResultByte DEF Byte
    <3> QED BY <1>4, <3>1 DEF Machine!Signed
  <2> HIDE DEF exact
  <2> QED BY <1>1, <2>1, <2>2, <2>4, <2>5, OverflowSign
<1> QED BY <1>3, <1>5, <1>6

\* The arithmetic instructions, by destination.
LEMMA EndArithmetic ==
  ASSUME Ready, Lands, ir \div 4 \in 32 .. 39,
         ir \div 4 \in 32 .. 33 => mcr = {"aluoe", "fclk", "upcrst"},
         ir \div 4 \in 34 .. 35 => mcr = {"fsors", "aluoe", "fclk", "aclk", "upcrst"},
         ir \div 4 \in 36 .. 37 => mcr = {"fsors", "aluoe", "fclk", "bclk", "upcrst"},
         ir \div 4 \in 38 .. 39 => mcr = {"fsors", "aluoe", "fclk", "cclk", "upcrst"}
  PROVE  Machine!Arithmetic
<1> DEFINE n == (ir \div 4 - 32) \div 2
<1>1. /\ ir \div 4 \in 32 .. 33 => n = 0
      /\ ir \div 4 \in 34 .. 35 => n = 1
      /\ ir \div 4 \in 36 .. 37 => n = 2
      /\ ir \div 4 \in 38 .. 39 => n = 3
      /\ n \in 0 .. 3
  OBVIOUS
<1>2. /\ n = 0 => mcr = {"aluoe", "fclk", "upcrst"}
      /\ n = 1 => mcr = {"fsors", "aluoe", "fclk", "aclk", "upcrst"}
      /\ n = 2 => mcr = {"fsors", "aluoe", "fclk", "bclk", "upcrst"}
      /\ n = 3 => mcr = {"fsors", "aluoe", "fclk", "cclk", "upcrst"}
  OBVIOUS
<1> HIDE DEF n
<1>3. /\ ~On("wrp") /\ ~On("wrd") /\ ~On("pcck") /\ On("aluoe") /\ On("fclk")
      /\ (On("fsors") <=> n # 0) /\ (On("aclk") <=> n = 1)
      /\ (On("bclk") <=> n = 2) /\ (On("cclk") <=> n = 3)
  BY <1>1, <1>2 DEF On
<1>4. DataBus = AluResult(ir, a, b, f)
  BY <1>3, LoneDriver DEF Ready, IInv, Alu8
<1>5. /\ a' = (IF n = 1 THEN DataBus ELSE a) /\ b' = (IF n = 2 THEN DataBus ELSE b)
      /\ c' = (IF n = 3 THEN DataBus ELSE c)
      /\ f' = IF n = 0 THEN DataBus ELSE AluFlags(ir, a, b, f)
  BY <1>3 DEF Lands, ClockRegisters, Latch, NextF
<1>6. /\ retired'.a = (IF n = 1 THEN AluResult(ir, retired.a, retired.b, retired.f) ELSE retired.a)
      /\ retired'.b = (IF n = 2 THEN AluResult(ir, retired.a, retired.b, retired.f) ELSE retired.b)
      /\ retired'.c = (IF n = 3 THEN AluResult(ir, retired.a, retired.b, retired.f) ELSE retired.c)
      /\ retired'.f = IF n = 0 THEN AluResult(ir, retired.a, retired.b, retired.f)
                      ELSE AluFlags(ir, a, b, f)
  BY <1>4, <1>5 DEF Lands, Ready
<1>7. /\ Machine!Instruction = ir /\ Machine!Opcode = ir \div 4
      /\ (Machine!Opcode - 32) \div 2 = n
  BY MachineView DEF Ready, n
<1>8. Machine!KeepMemories /\ retired'.pc = Machine!Ahead(1)
  BY <1>3, MemoriesKept, AddressKept
<1>9. Machine!Result = AluResult(ir, retired.a, retired.b, retired.f)
  BY <1>7, SameResult DEF Ready, IInv, TypeOK
<1>10. n # 0 => Machine!SetsFlags /\ Machine!SetsNotZero /\ Machine!SetsOverflow
  BY <1>6, FlagsSet
<1> QED BY <1>6, <1>7, <1>8, <1>9, <1>10 DEF Machine!Arithmetic

LEMMA EndShift ==
  ASSUME Ready, Lands, ir \div 4 = 61, mcr = {"fsors", "ashoe", "fclk", "aclk", "upcrst"}
  PROVE  Machine!ShiftRight
<1>1. /\ ~On("wrp") /\ ~On("wrd") /\ ~On("pcck") /\ On("ashoe") /\ On("fclk")
      /\ On("fsors") /\ On("aclk") /\ ~On("bclk") /\ ~On("cclk")
  BY DEF On
<1>2. DataBus = Shifted(a, f)
  BY <1>1, LoneDriver DEF Ready, IInv
<1>3. a' = DataBus /\ b' = b /\ c' = c /\ f' = AluFlags(ir, a, b, f)
  BY <1>1 DEF Lands, ClockRegisters, Latch, NextF
<1>4. /\ retired'.a = (retired.a \div 2) + (128 * Machine!Bit(retired.f, 6))
      /\ retired'.b = retired.b /\ retired'.c = retired.c /\ retired'.f = AluFlags(ir, a, b, f)
  BY <1>2, <1>3, SameBits DEF Lands, Ready, Shifted
<1>5. Machine!Opcode = 61 /\ Machine!KeepMemories /\ retired'.pc = Machine!Ahead(1)
  BY <1>1, MachineView, MemoriesKept, AddressKept DEF Ready
<1> QED BY <1>4, <1>5, FlagsSet DEF Machine!ShiftRight

\* The instruction of two words, and the two longer ones.
LEMMA EndNoOperation ==
  ASSUME IInv, Between, Lands, phase = "run", upc = 2, ir \div 4 \in Reserved,
         retired.pc \in Address
  PROVE  Machine!NoOperation
<1>1. /\ a' = retired.a /\ b' = retired.b /\ c' = retired.c /\ f' = retired.f
      /\ prog' = retired.prog /\ data' = retired.data /\ out' = retired.out /\ pc' = Past(1)
  BY StepClock DEF Lands
<1>2. Machine!Opcode \in (40 .. 59) \cup {63} /\ Machine!Ahead(1) = Past(1)
  BY MachineView DEF Between, Reserved
<1> QED BY <1>1, <1>2 DEF Machine!NoOperation, Machine!KeepRegisters, Machine!KeepMemories, Lands

LEMMA EndAddress ==
  ASSUME IInv, Between, Lands, phase = "run", upc = 6, ir \div 4 = 60, retired.pc \in Address
  PROVE  Machine!LoadAddress
<1>1. mcr = {"rdp", "pcoe", "dtoe", "pcck", "cclk", "upcrst"} /\ Clean(mcr)
  BY WordAt, LongerWords
<1>2. /\ On("cclk") /\ On("pcck") /\ ~On("jmp") /\ ~On("aclk") /\ ~On("bclk") /\ ~On("fclk")
      /\ ~On("wrp") /\ ~On("wrd") /\ On("rdp") /\ On("pcoe") /\ On("dtoe") /\ ~On("ddir")
  BY <1>1 DEF On
<1>3. DataBus = Read(prog, pc, Erased)
  BY <1>1, <1>2, LoneDriver DEF IInv, ReadProgram
<1>4. /\ a' = a /\ b' = b /\ c' = DataBus /\ f' = f /\ prog' = prog /\ data' = data /\ out' = out
      /\ pc' = (pc + 1) % 65536
  BY <1>2 DEF Lands, ClockRegisters, Latch, NextF, NextPc
<1>5. /\ pc = Past(2) /\ a = retired.a /\ b = Read(retired.prog, Past(1), Erased)
      /\ f = retired.f /\ prog = retired.prog /\ data = retired.data /\ out = retired.out
  BY DEF Between
<1>6. pc' = Past(3)
  BY <1>4, <1>5, NextAddress DEF Past
<1>7. /\ Machine!Opcode = 60 /\ Machine!Ahead(3) = Past(3)
      /\ Machine!Operand(1) = Read(retired.prog, Past(1), Erased)
      /\ Machine!Operand(2) = Read(retired.prog, Past(2), Erased)
  BY MachineView DEF Between
<1> QED BY <1>3, <1>4, <1>5, <1>6, <1>7 DEF Machine!LoadAddress, Machine!KeepMemories, Lands

LEMMA EndSwap ==
  ASSUME IInv, Between, Lands, phase = "run", upc = 8, ir \div 4 = 62, retired.pc \in Address, IInv'
  PROVE  Machine!Swap /\ retired'.a = AluResult(ir, First, Second, retired.f) /\ retired'.b = Second
<1>1. mcr = {"aluoe", "aclk", "upcrst"} /\ Clean(mcr)
  BY WordAt, LongerWords
<1>2. /\ ~On("pcck") /\ ~On("cclk") /\ ~On("fclk") /\ ~On("wrp") /\ ~On("wrd") /\ On("aluoe")
      /\ On("aclk") /\ ~On("bclk")
  BY <1>1 DEF On
<1>3. DataBus = AluResult(ir, a, b, f)
  BY <1>1, <1>2, LoneDriver DEF IInv, Alu8
<1>4. /\ b' = b /\ c' = c /\ f' = f /\ prog' = prog /\ data' = data /\ out' = out /\ pc' = pc
      /\ a' = DataBus
  BY <1>2 DEF Lands, ClockRegisters, Latch, NextF, NextPc
<1>5. /\ a = First /\ b = Second /\ pc = Past(1) /\ c = retired.c /\ f = retired.f
      /\ prog = retired.prog /\ data = retired.data /\ out = retired.out
  BY DEF Between
<1>6. /\ retired'.a = AluResult(ir, First, Second, retired.f) /\ retired'.b = Second
  BY <1>3, <1>4, <1>5 DEF Lands
<1>7. Machine!Opcode = 62 /\ Machine!Ahead(1) = Past(1)
  BY MachineView DEF Between
<1>8. retired'.a \in Machine!Byte /\ retired'.b \in Machine!Byte
  BY SameBits DEF Lands, IInv, TypeOK
<1>9. Machine!KeepMemories /\ retired'.pc = Machine!Ahead(1)
      /\ retired'.c = retired.c /\ retired'.f = retired.f
  BY <1>4, <1>5, <1>7 DEF Machine!KeepMemories, Lands
<1> QED BY <1>6, <1>7, <1>8, <1>9 DEF Machine!Swap

\* The instructions of four words, by opcode.
LEMMA EndFour ==
  ASSUME Ready, Lands, ir \div 4 \in Opcodes, mcr = Uops(ir \div 4)[4],
         ir \div 4 \notin Reserved \cup {60, 62}
  PROVE  \/ Machine!LoadImmediate \/ Machine!Move \/ Machine!LoadData \/ Machine!LoadProgram
         \/ Machine!StoreData \/ Machine!StoreProgram \/ Machine!Branch
         \/ Machine!Arithmetic \/ Machine!ShiftRight
<1>1. CASE ir \div 4 \in 0 .. 3
  <2>1. mcr = {"rdp", "pcoe", "dtoe", "pcck", ClockOf(ir \div 4), "upcrst"}
    BY <1>1, LastWords
  <2> QED BY <1>1, <2>1, EndImmediate
<1>2. CASE ir \div 4 \in 4 .. 15
  <2>1. mcr = MoveSource(ir \div 4) \cup MoveTarget(ir \div 4) \cup {"upcrst"}
    BY <1>2, LastWords
  <2> QED BY <1>2, <2>1, EndMove
<1>3. CASE ir \div 4 \in 16 .. 19
  <2>1. mcr = {"rdd", ClockOf(ir \div 4 - 16), "upcrst"}
    BY <1>3, LastWords
  <2> QED BY <1>3, <2>1, EndLoadData
<1>4. CASE ir \div 4 \in 20 .. 23
  <2>1. mcr = {"rdp", "dtoe", "bcoe", ClockOf(ir \div 4 - 20), "upcrst"}
    BY <1>4, LastWords
  <2> QED BY <1>4, <2>1, EndLoadProgram
<1>5. CASE ir \div 4 \in 24 .. 25
  <2>1. /\ ir \div 4 = 24 => mcr = {"foe", "wrd", "upcrst"}
        /\ ir \div 4 = 25 => mcr = {"aoe", "wrd", "upcrst"}
    BY LastWords
  <2>2. mcr = {IF ir \div 4 = 24 THEN "foe" ELSE "aoe", "wrd", "upcrst"}
    BY <1>5, <2>1
  <2> QED BY <1>5, <2>2, EndStoreData
<1>6. CASE ir \div 4 \in 26 .. 27
  <2>1. /\ ir \div 4 = 26 => mcr = {"wrp", "foe", "dtoe", "ddir", "bcoe", "upcrst"}
        /\ ir \div 4 = 27 => mcr = {"wrp", "aoe", "dtoe", "ddir", "bcoe", "upcrst"}
    BY LastWords
  <2>2. mcr = {"wrp", IF ir \div 4 = 26 THEN "foe" ELSE "aoe", "dtoe", "ddir", "bcoe", "upcrst"}
    BY <1>6, <2>1
  <2> QED BY <1>6, <2>2, EndStoreProgram
<1>7. CASE ir \div 4 \in 28 .. 31
  <2>1. mcr = {"jmp", "pcck", "upcrst"}
    BY <1>7, LastWords
  <2> QED BY <1>7, <2>1, EndBranch
<1>8. CASE ir \div 4 \in 32 .. 39
  <2>1. /\ ir \div 4 \in 32 .. 33 => mcr = {"aluoe", "fclk", "upcrst"}
        /\ ir \div 4 \in 34 .. 35 => mcr = {"fsors", "aluoe", "fclk", "aclk", "upcrst"}
        /\ ir \div 4 \in 36 .. 37 => mcr = {"fsors", "aluoe", "fclk", "bclk", "upcrst"}
        /\ ir \div 4 \in 38 .. 39 => mcr = {"fsors", "aluoe", "fclk", "cclk", "upcrst"}
    BY LastWords
  <2> QED BY <1>8, <2>1, EndArithmetic
<1>9. CASE ir \div 4 = 61
  <2>1. mcr = {"fsors", "ashoe", "fclk", "aclk", "upcrst"}
    BY <1>9, LastWords
  <2> QED BY <1>9, <2>1, EndShift
<1>10. \A op \in Opcodes \ (Reserved \cup {60, 62}) :
         \/ op \in 0 .. 3 \/ op \in 4 .. 15 \/ op \in 16 .. 19 \/ op \in 20 .. 23
         \/ op \in 24 .. 25 \/ op \in 26 .. 27 \/ op \in 28 .. 31 \/ op \in 32 .. 39 \/ op = 61
  BY DEF Opcodes, Reserved
<1> QED BY <1>1, <1>2, <1>3, <1>4, <1>5, <1>6, <1>7, <1>8, <1>9, <1>10

\* The clock that ends an instruction executes it.
LEMMA InstructionEnds ==
  ASSUME IInv, InStep, Clock, Completes, retired' = Architecture', IInv'
  PROVE  Machine!Execute /\ InStep'
<1> DEFINE op == ir \div 4
<1>1. /\ ClockRegisters /\ pc' = NextPc /\ upc' = NextUpc /\ phase = "run" /\ phase' = "run"
      /\ upc # 0 /\ Between /\ retired.on = TRUE /\ retired.pc \in Address
  BY DEF Clock, InStep, Completes
<1>2. /\ op \in Opcodes /\ upc \in Nat /\ mcr = Uops(op)[upc] /\ Clean(mcr)
      /\ upc = Len(Uops(op))
  BY <1>1, WordAt DEF Completes
<1>3. upc' = 0 /\ mcr' = Fill
  BY <1>1, <1>2, WordAfter
<1>4. Lands /\ retired'.on = TRUE
  BY <1>1 DEF Architecture, Lands
<1>5. retired'.pc \in Address
  <2>1. pc' \in Address
    BY <1>1, CounterTypes DEF IInv
  <2> QED BY <1>4, <2>1 DEF Lands
<1>6. InStep'
  BY <1>1, <1>3, <1>4, <1>5 DEF InStep
<1>7. CASE op \in Reserved
  <2>1. upc = 2
    BY <1>2, <1>7, Lengths
  <2>2. Machine!NoOperation
    BY <1>1, <1>4, <1>7, <2>1, EndNoOperation
  <2> QED BY <1>1, <1>4, <1>6, <2>2 DEF Machine!Execute
<1>8. CASE op = 60
  <2>1. upc = 6
    BY <1>2, <1>8, Lengths
  <2>2. Machine!LoadAddress
    BY <1>1, <1>4, <1>8, <2>1, EndAddress
  <2> QED BY <1>1, <1>4, <1>6, <2>2 DEF Machine!Execute
<1>9. CASE op = 62
  <2>1. upc = 8
    BY <1>2, <1>9, Lengths
  <2>2. Machine!Swap
    BY <1>1, <1>4, <1>9, <2>1, EndSwap
  <2> QED BY <1>1, <1>4, <1>6, <2>2 DEF Machine!Execute
<1>10. CASE op \notin Reserved \cup {60, 62}
  <2>1. upc = 4
    BY <1>2, <1>10, Lengths
  <2>2. a = retired.a /\ b = retired.b /\ pc = Past(1)
    <3>1. op # 60 /\ op # 62 /\ upc > 2
      BY <1>10, <2>1
    <3> QED BY <1>1, <3>1 DEF Between
  <2>3. Ready
    BY <1>1, <1>2, <2>2 DEF Ready, Between
  <2>4. \/ Machine!LoadImmediate \/ Machine!Move \/ Machine!LoadData \/ Machine!LoadProgram
        \/ Machine!StoreData \/ Machine!StoreProgram \/ Machine!Branch
        \/ Machine!Arithmetic \/ Machine!ShiftRight
    BY <1>2, <1>4, <1>10, <2>1, <2>3, EndFour
  <2> QED BY <1>1, <1>4, <1>6, <2>4 DEF Machine!Execute
<1> QED BY <1>7, <1>8, <1>9, <1>10

-----------------------------------------------------------------------------
(* The refinement.                                                         *)

RetireInv == IInv /\ InStep

\* The history variable restricts nothing: it only watches the emulator.
LEMMA RetireRefines ==
  /\ RetireInit => Init
  /\ [RetireNext]_retireVars => [Next]_vars
BY DEF RetireInit, RetireNext, RetireReset, RetireStart, RetireInstruction, RetireNothing,
       retireVars, Next

LEMMA InitInStep == RetireInit /\ On("upcrst") => RetireInv
<1> SUFFICES ASSUME RetireInit, On("upcrst") PROVE RetireInv
  OBVIOUS
<1>1. Init /\ IInv /\ retired = Architecture
  BY InitIInv DEF RetireInit
<1>2. phase = "reset1" /\ upc = 0
  BY <1>1 DEF Init
<1> QED BY <1>1, <1>2 DEF RetireInv, InStep

\* The first state of the emulator is one of the switched-off computer.
LEMMA InitMaps == RetireInit => Machine!Init
<1> SUFFICES ASSUME RetireInit PROVE Machine!Init
  OBVIOUS
<1>1. Init /\ IInv /\ retired = Architecture
  BY InitIInv DEF RetireInit
<1>2. /\ retired.on = FALSE /\ retired.pc = 0 /\ retired.a = a /\ retired.b = b
      /\ retired.c = c /\ retired.f = f /\ retired.prog = prog
      /\ retired.data = data /\ retired.out = out
  BY <1>1 DEF Init, Architecture
<1>3. a \in Byte /\ b \in Byte /\ c \in Byte /\ f \in Byte /\ IsMemory(prog)
  BY <1>1 DEF IInv, TypeOK
<1>4. data = [x \in {} |-> Machine!Zeroed] /\ out = << >>
  BY <1>1, SameMemory DEF Init, Zeroed
<1>5. Machine!IsMemory(prog)
  BY <1>3, SameBits DEF IsMemory, Machine!IsMemory
<1> QED BY <1>2, <1>3, <1>4, <1>5, SameBits DEF Machine!Init

\* Every step of the emulator is one of the instruction set, or none.
LEMMA StepMaps ==
  ASSUME RetireInv, [RetireNext]_retireVars
  PROVE  RetireInv' /\ [Machine!Next]_Machine!vars
<1>1. IInv' /\ IInv /\ InStep
  BY RetireRefines, NextIInv DEF RetireInv
<1>2. ASSUME retired' = retired PROVE UNCHANGED Machine!vars
  BY <1>2 DEF Machine!vars
<1>3. CASE RetireReset
  BY <1>1, <1>2, <1>3, ResetFirst DEF RetireReset, RetireInv
<1>4. CASE RetireStart
  <2>1. /\ InStep' /\ pc' = 0 /\ prog' = prog /\ data' = data /\ out' = out
        /\ retired.on = FALSE /\ Clobbered
    BY <1>1, <1>4, ResetSecond DEF RetireStart
  <2>2. /\ retired'.on = TRUE /\ retired'.pc = 0 /\ retired'.a = a' /\ retired'.b = b'
        /\ retired'.c = c' /\ retired'.f = f' /\ retired'.prog = prog
        /\ retired'.data = data /\ retired'.out = out
    BY <1>4, <2>1 DEF RetireStart, ResetSecondClock, Architecture
  <2>3. a' \in Byte /\ b' \in Byte /\ c' \in Byte /\ f' \in Byte
    BY <1>1 DEF IInv, TypeOK
  <2>4. /\ retired'.prog = retired.prog \/ \E x \in DOMAIN retired'.prog :
             retired'.prog = Machine!Write(retired.prog, x, retired'.prog[x])
        /\ retired'.data = retired.data \/ \E x \in DOMAIN retired'.data :
             retired'.data = Machine!Write(retired.data, x, retired'.data[x])
        /\ retired'.out = retired.out \/ \E byte \in Byte : retired'.out = Append(retired.out, byte)
    BY <2>1, <2>2, SameMemory DEF Clobbered
  <2>5. Machine!SwitchOn
    BY <2>1, <2>2, <2>3, <2>4, SameBits DEF Machine!SwitchOn
  <2> QED BY <1>1, <2>1, <2>5 DEF Machine!Next, RetireInv
<1>5. CASE RetireInstruction
  BY <1>1, <1>5, InstructionEnds DEF RetireInstruction, RetireInv, Machine!Next
<1>6. CASE RetireNothing
  BY <1>1, <1>2, <1>6, WithinInstruction DEF RetireNothing, RetireInv
<1>7. CASE UNCHANGED retireVars
  <2>1. InStep'
    BY <1>1, <1>7 DEF retireVars, vars, InStep, Between, Clobbered, Past, First, Second,
                      Architecture, On
  <2> QED BY <1>1, <1>2, <1>7, <2>1 DEF retireVars, RetireInv
<1> QED BY <1>3, <1>4, <1>5, <1>6, <1>7 DEF RetireNext

(* The emulated computer implements its instruction set, for every program *)
(* and every number of steps: whenever the microcode register was switched *)
(* on with its reset signal asserted, so that the reset's first clock      *)
(* clears the counter, each clock of microcomp_emulator_clock completes    *)
(* one whole instruction of Isa, or none that a program can see.           *)
THEOREM ImplementsIsaAlways == RetireSpec /\ On("upcrst") => ImplementsIsa
<1>1. RetireInit /\ On("upcrst") => RetireInv /\ Machine!Init
  BY InitInStep, InitMaps
<1>2. RetireInv /\ [RetireNext]_retireVars => RetireInv' /\ [Machine!Next]_Machine!vars
  BY StepMaps
<1> QED BY <1>1, <1>2, PTL DEF RetireSpec, ImplementsIsa, Machine!Spec

(* SWP A B, "A -> B, B -> A" in the microprogram source (0x3E), exchanges   *)
(* nothing: written as the Reference has it, 0xF8, it names the function   *)
(* that clears, and leaves zero in both registers, whatever was in them.   *)
THEOREM SwapClearsAlways ==
  RetireSpec /\ On("upcrst")
    => [][RetireInstruction /\ ir = 248 => a' = 0 /\ b' = 0]_retireVars
<1>1. RetireInit /\ On("upcrst") => RetireInv
  BY InitInStep
<1>2. RetireInv /\ [RetireNext]_retireVars => RetireInv'
  BY StepMaps
<1>3. ASSUME RetireInv, RetireInv', RetireInstruction, ir = 248
      PROVE  a' = 0 /\ b' = 0
  <2>1. /\ ClockRegisters /\ pc' = NextPc /\ upc' = NextUpc /\ phase = "run"
        /\ upc # 0 /\ Between /\ retired.pc \in Address /\ IInv /\ IInv'
    BY <1>3 DEF RetireInstruction, RetireInv, Clock, InStep, Completes
  <2>2. ir \div 4 = 62 /\ Select(ir) = 0
    BY <1>3 DEF Select
  <2>3. upc = 8
    <3>1. ir \div 4 \in Opcodes /\ upc = Len(Uops(ir \div 4))
      BY <1>3, <2>1, WordAt DEF RetireInstruction, Completes
    <3> QED BY <2>2, <3>1, Lengths
  <2>4. Lands
    BY <1>3, <2>1 DEF RetireInstruction, Architecture, Lands
  <2>5. retired'.a = AluResult(ir, First, Second, retired.f) /\ retired'.b = Second
    BY <2>1, <2>2, <2>3, <2>4, EndSwap
  <2>6. \A p, q, g : AluResult(ir, p, q, g) = 0
    BY <2>2 DEF AluResult
  <2> QED BY <2>4, <2>5, <2>6 DEF Lands, Second
<1> QED BY <1>1, <1>2, <1>3, PTL DEF RetireSpec

(* And it executes the instruction that the program names: nothing is      *)
(* skipped and nothing is run twice.                                       *)
THEOREM ExecutesNextAlways == RetireSpec /\ On("upcrst") => []ExecutesNext
<1>1. RetireInit /\ On("upcrst") => RetireInv
  BY InitInStep
<1>2. RetireInv /\ [RetireNext]_retireVars => RetireInv'
  BY StepMaps
<1>3. RetireInv => ExecutesNext
  BY DEF RetireInv, InStep, Between, ExecutesNext
<1> QED BY <1>1, <1>2, <1>3, PTL DEF RetireSpec

-----------------------------------------------------------------------------
(* The two programs, by what is true between their instructions.           *)

\* What the programs read.
Cell(address) == Read(retired.data, address, Zeroed)
Code(address) == Read(retired.prog, address, Erased)

\* The branch test: ...
BranchPoints ==
  {0, 3, 5, 6, 9, 14, 17, 19, 20, 23, 24, 27, 29, 30, 32, 34, 36, 37, 40,
   45, 48, 50, 51, 54, 55, 58, 60, 61, 64}

\* ... what is in the registers there, ...
BranchLoaded(p, ra, rb, rc, rf) ==
  /\ p \in {3, 5, 17, 19, 27, 29, 48, 50, 58, 60} => rc = 128 /\ rb = 0
  /\ p \in {9, 40, 64} => rc = 0
  /\ p = 9 => rb = S1
  /\ p = 40 => rb = S2
  /\ p = 64 => rb = Success
  /\ p = 5 => ra = 0
  /\ p = 19 => ra = 1
  /\ p = 29 => ra = 2
  /\ p = 50 => ra = 3
  /\ p = 60 => ra = 4
  /\ p \in {32, 34, 36} => ra = 170
  /\ p \in {34, 36} => rb = 170
  /\ p = 36 => rf = 0
  /\ p \in {37, 40, 45, 48, 50, 51, 54} => Bit(rf, 3) = 0

\* ... and how many bytes it has printed.
BranchCount(p, n) ==
  /\ p < 6 => n = 0
  /\ p \in 6 .. 19 => n = 1
  /\ p \in 20 .. 29 => n = 2
  /\ p \in 30 .. 50 => n = 3
  /\ p >= 51 => n >= 4

Counted(bytes) == \A i \in 1 .. Len(bytes) : bytes[i] = IF i < 5 THEN i - 1 ELSE 4

BranchAt ==
  /\ retired.pc \in BranchPoints
  /\ BranchLoaded(retired.pc, retired.a, retired.b, retired.c, retired.f)
  /\ BranchCount(retired.pc, Len(retired.out))

BranchInv ==
  /\ retired.prog = BranchTest /\ retired.out \in Seq(Byte) /\ Counted(retired.out)
  /\ IF retired.on THEN BranchAt ELSE retired.out = << >>

\* The multiplication: the points between its instructions, ...
MultiplyPoints ==
  {0, 1, 2, 3, 4, 7, 9, 10, 13, 15, 16, 19, 20,
   21, 24, 25, 26, 27, 28, 31, 32, 33, 35, 36, 39,
   40, 43, 44, 47, 48, 49, 50, 52, 53, 56,
   57, 60, 61, 62, 63, 64, 67, 68, 69, 70, 71, 73, 74, 77,
   78, 81, 82, 85, 86, 89}

\* ... what is in the registers there (n and k are what is left of the operands, s is
\* the accumulator), ...
MultiplyLoaded(p, ra, rb, rc, rf, n, k, s, x, y) ==
  /\ p \in {7, 9, 24, 60, 61, 62, 63} => rc = 0 /\ rb = Operand1
  /\ p \in {13, 15, 43, 67, 68, 73} => rc = 0 /\ rb = Operand2
  /\ p \in {19, 20, 47, 52, 81} => rc = 0 /\ rb = Accumulator
  /\ p \in {56, 85} => rc = 128 /\ rb = 0
  /\ p \in {31, 39, 48, 49, 50, 69, 70, 71, 77, 89} => rc = 0
  /\ p = 31 => rb = MultiplyEnd
  /\ p = 39 => rb = SkipAdd
  /\ p = 77 => rb = Loop
  /\ p = 89 => rb = HaltLoop
  /\ p \in {26, 27, 33, 35} => rb = 0
  /\ p \in {48, 49} => rb = s
  /\ p \in {69, 70} => rb = k
  /\ p = 9 => ra = x
  /\ p = 15 => ra = y
  /\ p = 20 => ra = 0
  /\ p \in {25, 26, 27, 32, 33, 28, 31, 35, 61, 62} => ra = n
  /\ p = 63 => ra = n \div 2
  /\ p \in {44, 47, 48, 49, 68, 69, 70} => ra = k
  /\ p \in {50, 52} => ra = (k + s) % 256
  /\ p \in {71, 73} => ra = (k + k) % 256
  /\ p \in {82, 85} => ra = s
  /\ p \in {53, 56} => ra \in Byte
  /\ p \in {27, 49, 62, 70} => rf = 0
  /\ p = 35 => rf = 1
  /\ p \in {28, 31} => Bit(rf, 3) = IF n = 0 THEN 0 ELSE 1
  /\ p \in {36, 39} => Bit(rf, 6) = n % 2

\* ... and how the three cells make up the product.
Owed(s, rest, x, y) == (s + rest) % 256 = (x * y) % 256

MultiplyCells(p, n, k, s, x, y) ==
  /\ p \in 10 .. 20 => n = x
  /\ p \in 16 .. 20 => k = y
  /\ p \in 21 .. 52 => Owed(s, n * k, x, y)
  /\ p \in 40 .. 56 => n % 2 = 1
  /\ p \in 53 .. 56 => Owed(s, (n - 1) * k, x, y)
  /\ p \in 57 .. 63 => Owed(s, (n - (n % 2)) * k, x, y)
  /\ p \in 64 .. 73 => Owed(s, (2 * n) * k, x, y)
  /\ p \in 74 .. 77 => Owed(s, n * k, x, y)
  /\ p \in 78 .. 89 => s = (x * y) % 256

Ends(bytes, byte) == bytes # << >> /\ bytes[Len(bytes)] = byte

MultiplyAt(x, y) ==
  LET p == retired.pc
      n == Cell(Operand1)
      k == Cell(Operand2)
      s == Cell(Accumulator)
  IN  /\ p \in MultiplyPoints
      /\ MultiplyLoaded(p, retired.a, retired.b, retired.c, retired.f, n, k, s, x, y)
      /\ MultiplyCells(p, n, k, s, x, y)
      /\ p >= 21 => Accumulator \in DOMAIN retired.data
      /\ p \in {86, 89} => Ends(retired.out, s)

MultiplyInv(x, y) ==
  /\ retired.prog = Multiply8(x, y) /\ retired.out \in Seq(Byte)
  /\ \A k \in {Operand1, Operand2, Accumulator} : Cell(k) \in Byte
  /\ retired.on => MultiplyAt(x, y)

-----------------------------------------------------------------------------
(* What each of their instructions does.                                   *)

MemoriesStay ==
  retired'.prog = retired.prog /\ retired'.data = retired.data /\ retired'.out = retired.out
Runs(address) == Machine!Execute /\ retired.pc = address /\ address \in 0 .. 100
Registers == << retired.a, retired.b, retired.c, retired.f >>

\* An instruction byte decides which action of Isa it is.
LEMMA ActionOf ==
  ASSUME NEW p, Runs(p), NEW byte \in Byte, Code(p) = byte
  PROVE  /\ Machine!Opcode = byte \div 4 /\ Machine!Instruction = byte
         /\ byte \in {0, 4, 8} => Machine!LoadImmediate
         /\ byte = 32 => Machine!Move
         /\ byte \in {68, 72} => Machine!LoadData
         /\ byte = 100 => Machine!StoreData
         /\ byte \in {115, 119, 123, 126, 127} => Machine!Branch
         /\ byte \in {128, 136, 138, 139, 144, 146} => Machine!Arithmetic
         /\ byte = 240 => Machine!LoadAddress
         /\ byte = 244 => Machine!ShiftRight
         /\ byte = 252 => Machine!NoOperation
<1>1. Machine!Instruction = byte
  BY SameMemory DEF Runs, Code, Machine!Instruction
<1>2. Machine!Opcode = byte \div 4
  BY <1>1 DEF Machine!Opcode
<1>3. byte \in {0, 4, 8} => byte \div 4 \in 0 .. 2
  OBVIOUS
<1>4. /\ byte = 32 => byte \div 4 = 8
      /\ byte \in {68, 72} => byte \div 4 \in 17 .. 18
      /\ byte = 100 => byte \div 4 = 25
      /\ byte \in {115, 119, 123, 126, 127} => byte \div 4 \in 28 .. 31
      /\ byte \in {128, 136, 138, 139, 144, 146} => byte \div 4 \in 32 .. 36
      /\ byte = 240 => byte \div 4 = 60
      /\ byte = 244 => byte \div 4 = 61
      /\ byte = 252 => byte \div 4 = 63
  OBVIOUS
<1>5. \/ Machine!LoadImmediate /\ byte \div 4 \in 0 .. 3
      \/ Machine!LoadAddress /\ byte \div 4 = 60
      \/ Machine!Move /\ byte \div 4 \in 4 .. 15
      \/ Machine!LoadData /\ byte \div 4 \in 16 .. 19
      \/ Machine!LoadProgram /\ byte \div 4 \in 20 .. 23
      \/ Machine!StoreData /\ byte \div 4 \in 24 .. 25
      \/ Machine!StoreProgram /\ byte \div 4 \in 26 .. 27
      \/ Machine!Branch /\ byte \div 4 \in 28 .. 31
      \/ Machine!Arithmetic /\ byte \div 4 \in 32 .. 39
      \/ Machine!ShiftRight /\ byte \div 4 = 61
      \/ Machine!Swap /\ byte \div 4 = 62
      \/ Machine!NoOperation /\ byte \div 4 \in (40 .. 59) \cup {63}
  BY <1>2 DEF Runs, Machine!Execute, Machine!LoadImmediate, Machine!LoadAddress, Machine!Move,
     Machine!LoadData, Machine!LoadProgram, Machine!StoreData, Machine!StoreProgram,
     Machine!Branch, Machine!Arithmetic, Machine!ShiftRight, Machine!Swap, Machine!NoOperation
<1> QED BY <1>1, <1>2, <1>3, <1>4, <1>5

LEMMA AheadOf ==
  ASSUME NEW p, Runs(p)
  PROVE  /\ Machine!Ahead(1) = p + 1 /\ Machine!Ahead(2) = p + 2 /\ Machine!Ahead(3) = p + 3
         /\ Machine!Operand(1) = Code(p + 1) /\ Machine!Operand(2) = Code(p + 2)
<1>1. /\ Machine!Ahead(1) = p + 1 /\ Machine!Ahead(2) = p + 2 /\ Machine!Ahead(3) = p + 3
  BY DEF Runs, Machine!Ahead
<1> QED BY <1>1, SameMemory DEF Machine!Operand, Code

LEMMA LdiRuns ==
  ASSUME NEW p, Runs(p), NEW n \in {0, 1, 2}, Code(p) = 4 * n
  PROVE  /\ retired'.pc = p + 2 /\ MemoriesStay
         /\ retired'.f = IF n = 0 THEN Code(p + 1) ELSE retired.f
         /\ retired'.a = IF n = 1 THEN Code(p + 1) ELSE retired.a
         /\ retired'.b = IF n = 2 THEN Code(p + 1) ELSE retired.b
         /\ retired'.c = retired.c
<1>1. 4 * n \in {0, 4, 8} /\ 4 * n \in Byte /\ (4 * n) \div 4 = n
  BY DEF Byte
<1>2. Machine!LoadImmediate /\ Machine!Opcode = n
  BY <1>1, ActionOf
<1> QED BY <1>2, AheadOf
    DEF Machine!LoadImmediate, Machine!Assign, Machine!KeepMemories, MemoriesStay

LEMMA LdiCBRuns ==
  ASSUME NEW p, Runs(p), Code(p) = 240
  PROVE  /\ retired'.pc = p + 3 /\ MemoriesStay
         /\ retired'.a = retired.a /\ retired'.f = retired.f
         /\ retired'.b = Code(p + 1) /\ retired'.c = Code(p + 2)
<1>1. Machine!LoadAddress
  BY ActionOf DEF Byte
<1> QED BY <1>1, AheadOf DEF Machine!LoadAddress, Machine!KeepMemories, MemoriesStay

LEMMA MovRuns ==
  ASSUME NEW p, Runs(p), Code(p) = 32
  PROVE  /\ retired'.pc = p + 1 /\ MemoriesStay
         /\ retired'.b = retired.a
         /\ retired'.a = retired.a /\ retired'.c = retired.c /\ retired'.f = retired.f
<1>1. Machine!Move /\ Machine!Opcode = 8
  BY ActionOf DEF Byte
<1>2. Machine!Assign(2, Machine!Register(1)) /\ Machine!KeepMemories
      /\ retired'.pc = Machine!Ahead(1)
  BY <1>1 DEF Machine!Move
<1> QED BY <1>2, AheadOf DEF Machine!Assign, Machine!Register, Machine!KeepMemories, MemoriesStay

LEMMA LdmRuns ==
  ASSUME NEW p, Runs(p), NEW n \in {1, 2}, Code(p) = 64 + (4 * n),
         NEW address, AddressOf(retired.c, retired.b) = address
  PROVE  /\ retired'.pc = p + 1 /\ MemoriesStay
         /\ retired'.a = IF n = 1 THEN Cell(address) ELSE retired.a
         /\ retired'.b = IF n = 2 THEN Cell(address) ELSE retired.b
         /\ retired'.c = retired.c /\ retired'.f = retired.f
<1>1. 64 + (4 * n) \in {68, 72} /\ 64 + (4 * n) \in Byte /\ (64 + (4 * n)) \div 4 = 16 + n
  BY DEF Byte
<1>2. Machine!LoadData /\ Machine!Opcode = 16 + n
  BY <1>1, ActionOf
<1>3. Machine!Read(retired.data, Machine!CB, Machine!Zeroed) = Cell(address)
  BY SameMemory DEF Machine!CB, Cell
<1> QED BY <1>2, <1>3, AheadOf
    DEF Machine!LoadData, Machine!Assign, Machine!KeepMemories, MemoriesStay

LEMMA StmRuns ==
  ASSUME NEW p, Runs(p), Code(p) = 100,
         NEW address, AddressOf(retired.c, retired.b) = address
  PROVE  /\ retired'.pc = p + 1 /\ Registers' = Registers /\ retired'.prog = retired.prog
         /\ retired'.data = Stored(retired.data, address, retired.a)
         /\ retired'.out = Printed(retired.out, address, retired.a)
<1>1. Machine!StoreData /\ Machine!Opcode = 25
  BY ActionOf DEF Byte
<1>2. Machine!CB = address /\ Machine!Register(1) = retired.a
  BY SameMemory DEF Machine!CB, Machine!Register
<1> QED BY <1>1, <1>2, AheadOf, SameMemory
    DEF Machine!StoreData, Machine!KeepRegisters, Registers

\* The conditions of the branches.
LEMMA BranchRuns ==
  ASSUME NEW p, Runs(p), NEW byte \in {115, 119, 123, 126, 127}, Code(p) = byte,
         NEW address, AddressOf(retired.c, retired.b) = address
  PROVE  /\ Registers' = Registers /\ MemoriesStay
         /\ byte = 115 => retired'.pc = IF Bit(retired.f, 3) = 1 THEN address ELSE p + 1
         /\ byte = 119 => retired'.pc = address
         /\ byte = 123 => retired'.pc = IF Bit(retired.f, 3) = 1 THEN p + 1 ELSE address
         /\ byte = 126 => retired'.pc = IF Bit(retired.f, 6) = 1 THEN p + 1 ELSE address
         /\ byte = 127 => retired'.pc = p + 1
<1>1. byte \in Byte
  BY DEF Byte
<1>2. Machine!Branch /\ Machine!Instruction = byte
  BY <1>1, ActionOf
<1>3. retired'.pc = IF BranchTaken(byte, retired.f) THEN address ELSE p + 1
  BY <1>2, AheadOf, SameMemory, SameCondition DEF Machine!Branch, Machine!CB
<1>4. /\ BranchTaken(115, retired.f) <=> Bit(retired.f, 3) = 1
      /\ BranchTaken(119, retired.f)
      /\ BranchTaken(123, retired.f) <=> ~(Bit(retired.f, 3) = 1)
      /\ BranchTaken(126, retired.f) <=> ~(Bit(retired.f, 6) = 1)
      /\ ~BranchTaken(127, retired.f)
  <2>1. Bit(115, 3) = 0 /\ Bit(119, 3) = 0 /\ Bit(123, 3) = 1 /\ Bit(126, 3) = 1 /\ Bit(127, 3) = 1
    BY DEF Bit
  <2>2. /\ Select(115) = 3 /\ Select(119) = 7 /\ Select(123) = 3 /\ Select(126) = 6
        /\ Select(127) = 7
    BY DEF Select
  <2> QED BY <2>1, <2>2 DEF BranchTaken, FlagSelected
<1> QED BY <1>2, <1>3, <1>4
    DEF Machine!Branch, Machine!KeepRegisters, Machine!KeepMemories, Registers, MemoriesStay

\* CLR, SUB and ADD, by the register that takes the result, and the two flags
\* that the programs test.
LEMMA ArithmeticRuns ==
  ASSUME NEW p, Runs(p), NEW byte \in {128, 136, 138, 139, 144, 146}, Code(p) = byte
  PROVE  LET result == AluResult(byte, retired.a, retired.b, retired.f)
         IN  /\ retired'.pc = p + 1 /\ MemoriesStay
             /\ retired'.a = IF byte \in {136, 138, 139} THEN result ELSE retired.a
             /\ retired'.b = IF byte \in {144, 146} THEN result ELSE retired.b
             /\ retired'.c = retired.c
             /\ byte = 128 => retired'.f = result
             /\ byte # 128 => /\ Bit(retired'.f, 3) = IF result = 255 THEN 0 ELSE 1
                              /\ Bit(retired'.f, 6) = Bit(retired.a, 0)
<1>1. byte \in Byte
  BY DEF Byte
<1>2. Machine!Arithmetic /\ Machine!Opcode = byte \div 4 /\ Machine!Instruction = byte
  BY <1>1, ActionOf
<1> DEFINE n == ((byte \div 4) - 32) \div 2
           result == AluResult(byte, retired.a, retired.b, retired.f)
<1>3. n = IF byte = 128 THEN 0 ELSE IF byte \in {136, 138, 139} THEN 1 ELSE 2
  OBVIOUS
<1>4. Machine!Result = result
  BY <1>1, <1>2, SameResult
<1> HIDE DEF n, result
<1>5. /\ retired'.pc = Machine!Ahead(1) /\ Machine!KeepMemories
      /\ retired'.a = IF n = 1 THEN result ELSE retired.a
      /\ retired'.b = IF n = 2 THEN result ELSE retired.b
      /\ retired'.c = IF n = 3 THEN result ELSE retired.c
      /\ n = 0 => retired'.f = result
      /\ n # 0 => Machine!SetsFlags /\ Machine!SetsNotZero
  BY <1>2, <1>4 DEF Machine!Arithmetic, n
<1>6. Machine!SetsFlags => retired'.f \in Byte /\ Bit(retired'.f, 6) = Bit(retired.a, 0)
  BY SameBits DEF Machine!SetsFlags
<1>7. Machine!SetsNotZero => (Bit(retired'.f, 3) = 1 <=> result # 255)
  BY <1>4, SameBits DEF Machine!SetsNotZero
<1>8. retired'.f \in Byte => Bit(retired'.f, 3) \in {0, 1}
  BY BitType DEF Byte
<1> QED BY <1>3, <1>5, <1>6, <1>7, <1>8, AheadOf DEF Machine!KeepMemories, MemoriesStay, result

\* The results of those.
LEMMA Cleared ==
  ASSUME NEW x1, NEW y1, NEW f1
  PROVE  /\ AluResult(128, x1, y1, f1) = 0 /\ AluResult(136, x1, y1, f1) = 0
         /\ AluResult(144, x1, y1, f1) = 0
<1>1. Select(128) = 0 /\ Select(136) = 0 /\ Select(144) = 0
  BY DEF Select
<1> QED BY <1>1 DEF AluResult

LEMMA Results ==
  ASSUME NEW x1 \in Byte, NEW y1 \in Byte, NEW f1
  PROVE  /\ f1 = 0 => AluResult(139, x1, y1, f1) = (x1 + y1) % 256
         /\ f1 = 0 => AluResult(138, x1, y1, f1) = ((x1 - y1) - 1) % 256
         /\ f1 = 0 => AluResult(146, x1, y1, f1) = ((x1 - y1) - 1) % 256
         /\ f1 = 1 => AluResult(138, x1, y1, f1) = (x1 - y1) % 256
<1>1. CarryIn(f1) = IF f1 = 0 THEN 0 ELSE IF f1 = 1 THEN 1 ELSE CarryIn(f1)
  BY DEF CarryIn, Bit
<1>2. Select(138) = 2 /\ Select(146) = 2 /\ Select(139) = 3
  BY DEF Select
<1>3. x1 \in Int /\ y1 \in Int
  BY DEF Byte
<1> QED BY <1>1, <1>2, <1>3 DEF AluResult

\* Equal operands give all ones without a carry in.
LEMMA EqualResult == ASSUME NEW x1 \in Byte PROVE AluResult(138, x1, x1, 0) = 255
<1>1. AluResult(138, x1, x1, 0) = ((x1 - x1) - 1) % 256
  <2>1. \A f1 : f1 = 0 => AluResult(138, x1, x1, f1) = ((x1 - x1) - 1) % 256
    BY Results
  <2> QED BY <2>1
<1>2. \A k \in Int : k + 1 = 0 => k % 256 = 255
  OBVIOUS
<1>3. ((x1 - x1) - 1) \in Int /\ ((x1 - x1) - 1) + 1 = 0
  BY DEF Byte
<1> QED BY <1>1, <1>2, <1>3

\* One less than a byte is 255 when the byte is zero.
LEMMA ZeroTested == ASSUME NEW x1 \in Byte PROVE AluResult(146, x1, 0, 0) = 255 <=> x1 = 0
<1>1. 0 \in Byte
  BY DEF Byte
<1>2. \A y1, f1 \in Byte : y1 = 0 /\ f1 = 0 => AluResult(146, x1, y1, f1) = ((x1 - y1) - 1) % 256
  BY Results
<1>3. AluResult(146, x1, 0, 0) = ((x1 - 0) - 1) % 256
  BY <1>1, <1>2
<1>4. \A j \in Int : j + 1 = x1 => (j % 256 = 255 <=> x1 = 0)
  BY DEF Byte
<1>5. ((x1 - 0) - 1) \in Int /\ ((x1 - 0) - 1) + 1 = x1
  BY DEF Byte
<1> QED BY <1>3, <1>4, <1>5

LEMMA ShiftHalves == ASSUME NEW x1 \in Byte PROVE Shifted(x1, 0) = x1 \div 2
<1>1. Bit(0, 6) = 0
  BY DEF Bit
<1> QED BY <1>1 DEF Shifted, Byte

LEMMA ShrRuns ==
  ASSUME NEW p, Runs(p), Code(p) = 244
  PROVE  /\ retired'.pc = p + 1 /\ MemoriesStay
         /\ retired'.a = Shifted(retired.a, retired.f)
         /\ retired'.b = retired.b /\ retired'.c = retired.c
<1>1. Machine!ShiftRight
  BY ActionOf DEF Byte
<1> QED BY <1>1, AheadOf, SameBits
        DEF Machine!ShiftRight, Machine!KeepMemories, MemoriesStay, Shifted

LEMMA NopRuns ==
  ASSUME NEW p, Runs(p), Code(p) = 252
  PROVE  retired'.pc = p + 1 /\ Registers' = Registers /\ MemoriesStay
<1>1. Machine!NoOperation
  BY ActionOf DEF Byte
<1> QED BY <1>1, AheadOf
    DEF Machine!NoOperation, Machine!KeepMemories, Machine!KeepRegisters, MemoriesStay, Registers

\* What a store to a cell changes.
LEMMA StoredCell ==
  ASSUME NEW address \in Nat, NEW byte, retired'.data = Stored(retired.data, address, byte)
  PROVE  /\ address < 32768 =>
              /\ address \in DOMAIN retired'.data /\ DOMAIN retired.data \subseteq DOMAIN retired'.data
              /\ \A k : Cell(k)' = IF k = address THEN byte ELSE Cell(k)
         /\ address >= 32768 => retired'.data = retired.data /\ \A k : Cell(k)' = Cell(k)
BY DEF Stored, Write, Cell, Read, IsPort

-----------------------------------------------------------------------------
(* The bytes of the programs.                                              *)

LEMMA BranchBytes ==
  ASSUME retired.prog = BranchTest
  PROVE  /\ Code(0) = 240 /\ Code(1) = 0 /\ Code(2) = 128 /\ Code(3) = 4 /\ Code(4) = 0
         /\ Code(5) = 100 /\ Code(6) = 240 /\ Code(7) = 14 /\ Code(8) = 0
         /\ Code(9) = 119 /\ Code(10) = 240 /\ Code(11) = 65 /\ Code(12) = 0
         /\ Code(13) = 119 /\ Code(14) = 240 /\ Code(15) = 0 /\ Code(16) = 128
         /\ Code(17) = 4 /\ Code(18) = 1 /\ Code(19) = 100 /\ Code(20) = 240
         /\ Code(21) = 65 /\ Code(22) = 0 /\ Code(23) = 127 /\ Code(24) = 240
         /\ Code(25) = 0 /\ Code(26) = 128 /\ Code(27) = 4 /\ Code(28) = 2
         /\ Code(29) = 100 /\ Code(30) = 4 /\ Code(31) = 170 /\ Code(32) = 8
         /\ Code(33) = 170 /\ Code(34) = 0 /\ Code(35) = 0 /\ Code(36) = 138
         /\ Code(37) = 240 /\ Code(38) = 45 /\ Code(39) = 0 /\ Code(40) = 123
         /\ Code(41) = 240 /\ Code(42) = 65 /\ Code(43) = 0 /\ Code(44) = 119
BY DEF Code, Read, BranchTest, Assemble, LdiCB, Low, High, Ldi, Stm, SubAB,
       BrNz, BrT, Jmp, BrZ, BrF, F, A, B, Io, S1, S2, Success, Fail

LEMMA BranchMoreBytes ==
  ASSUME retired.prog = BranchTest
  PROVE  /\ Code(45) = 240 /\ Code(46) = 0 /\ Code(47) = 128 /\ Code(48) = 4
         /\ Code(49) = 3 /\ Code(50) = 100 /\ Code(51) = 240 /\ Code(52) = 65
         /\ Code(53) = 0 /\ Code(54) = 115 /\ Code(55) = 240 /\ Code(56) = 0
         /\ Code(57) = 128 /\ Code(58) = 4 /\ Code(59) = 4 /\ Code(60) = 100
         /\ Code(61) = 240 /\ Code(62) = 55 /\ Code(63) = 0 /\ Code(64) = 119
BY DEF Code, Read, BranchTest, Assemble, LdiCB, Low, High, Ldi, Stm, SubAB,
       BrNz, BrT, Jmp, BrZ, BrF, F, A, B, Io, S1, S2, Success, Fail

LEMMA StartBytes ==
  ASSUME NEW x, NEW y, retired.prog = Multiply8(x, y)
  PROVE  /\ Code(0) = 252 /\ Code(1) = 252 /\ Code(2) = 252 /\ Code(3) = 252
         /\ Code(4) = 240 /\ Code(5) = 0 /\ Code(6) = 0 /\ Code(7) = 4 /\ Code(8) = x
         /\ Code(9) = 100 /\ Code(10) = 240 /\ Code(11) = 1 /\ Code(12) = 0
         /\ Code(13) = 4 /\ Code(14) = y /\ Code(15) = 100 /\ Code(16) = 240
         /\ Code(17) = 2 /\ Code(18) = 0 /\ Code(19) = 136 /\ Code(20) = 100
BY DEF Code, Read, Multiply8, Assemble, LdiCB, Low, High, Ldi, Ldm, Stm, Clr, SubAB, Add,
       MovAB, Shr, Nop, Jmp, BrZ, BrNsc, F, A, B, Io,
       Operand1, Operand2, Accumulator, Loop, SkipAdd, MultiplyEnd, HaltLoop

LEMMA LoopBytes ==
  ASSUME NEW x, NEW y, retired.prog = Multiply8(x, y)
  PROVE  /\ Code(21) = 240 /\ Code(22) = 0 /\ Code(23) = 0 /\ Code(24) = 68
         /\ Code(25) = 144 /\ Code(26) = 128 /\ Code(27) = 146 /\ Code(28) = 240
         /\ Code(29) = 78 /\ Code(30) = 0 /\ Code(31) = 123 /\ Code(32) = 144
         /\ Code(33) = 0 /\ Code(34) = 1 /\ Code(35) = 138 /\ Code(36) = 240
         /\ Code(37) = 57 /\ Code(38) = 0 /\ Code(39) = 126
BY DEF Code, Read, Multiply8, Assemble, LdiCB, Low, High, Ldi, Ldm, Stm, Clr, SubAB, Add,
       MovAB, Shr, Nop, Jmp, BrZ, BrNsc, F, A, B, Io,
       Operand1, Operand2, Accumulator, Loop, SkipAdd, MultiplyEnd, HaltLoop

LEMMA AddBytes ==
  ASSUME NEW x, NEW y, retired.prog = Multiply8(x, y)
  PROVE  /\ Code(40) = 240 /\ Code(41) = 1 /\ Code(42) = 0 /\ Code(43) = 68
         /\ Code(44) = 240 /\ Code(45) = 2 /\ Code(46) = 0 /\ Code(47) = 72
         /\ Code(48) = 128 /\ Code(49) = 139 /\ Code(50) = 8 /\ Code(51) = 2
         /\ Code(52) = 100 /\ Code(53) = 240 /\ Code(54) = 0 /\ Code(55) = 128
         /\ Code(56) = 100
BY DEF Code, Read, Multiply8, Assemble, LdiCB, Low, High, Ldi, Ldm, Stm, Clr, SubAB, Add,
       MovAB, Shr, Nop, Jmp, BrZ, BrNsc, F, A, B, Io,
       Operand1, Operand2, Accumulator, Loop, SkipAdd, MultiplyEnd, HaltLoop

LEMMA SkipAddBytes ==
  ASSUME NEW x, NEW y, retired.prog = Multiply8(x, y)
  PROVE  /\ Code(57) = 240 /\ Code(58) = 0 /\ Code(59) = 0 /\ Code(60) = 68
         /\ Code(61) = 128 /\ Code(62) = 244 /\ Code(63) = 100 /\ Code(64) = 240
         /\ Code(65) = 1 /\ Code(66) = 0 /\ Code(67) = 68 /\ Code(68) = 32
         /\ Code(69) = 128 /\ Code(70) = 139 /\ Code(71) = 8 /\ Code(72) = 1
         /\ Code(73) = 100 /\ Code(74) = 240 /\ Code(75) = 21 /\ Code(76) = 0
         /\ Code(77) = 119
BY DEF Code, Read, Multiply8, Assemble, LdiCB, Low, High, Ldi, Ldm, Stm, Clr, SubAB, Add,
       MovAB, Shr, Nop, Jmp, BrZ, BrNsc, F, A, B, Io,
       Operand1, Operand2, Accumulator, Loop, SkipAdd, MultiplyEnd, HaltLoop

LEMMA ResultBytes ==
  ASSUME NEW x, NEW y, retired.prog = Multiply8(x, y)
  PROVE  /\ Code(78) = 240 /\ Code(79) = 2 /\ Code(80) = 0 /\ Code(81) = 68
         /\ Code(82) = 240 /\ Code(83) = 0 /\ Code(84) = 128 /\ Code(85) = 100
         /\ Code(86) = 240 /\ Code(87) = 86 /\ Code(88) = 0 /\ Code(89) = 119
BY DEF Code, Read, Multiply8, Assemble, LdiCB, Low, High, Ldi, Ldm, Stm, Clr, SubAB, Add,
       MovAB, Shr, Nop, Jmp, BrZ, BrNsc, F, A, B, Io,
       Operand1, Operand2, Accumulator, Loop, SkipAdd, MultiplyEnd, HaltLoop

-----------------------------------------------------------------------------
(* The branch test.                                                        *)

\* From a point to one where as much is printed.
LEMMA BranchCountStays ==
  ASSUME NEW p, NEW n \in Nat, BranchCount(p, n)
  PROVE  /\ p \in {0, 6, 14, 20, 24, 37, 45, 51, 55, 61} => BranchCount(p + 3, n)
         /\ p \in {3, 17, 27, 30, 32, 34, 48, 58} => BranchCount(p + 2, n)
         /\ p \in {23, 36, 54} => BranchCount(p + 1, n)
         /\ p = 9 => BranchCount(14, n)
         /\ p = 40 => BranchCount(45, n)
         /\ p = 64 => BranchCount(55, n)
BY DEF BranchCount

LEMMA BranchCountSteps ==
  ASSUME NEW p \in {5, 19, 29, 50, 60}, NEW n \in Nat, BranchCount(p, n)
  PROVE  BranchCount(p + 1, n + 1)
BY DEF BranchCount

LEMMA CountedOn ==
  ASSUME NEW bytes \in Seq(Byte), NEW byte \in Byte, Counted(bytes),
         byte = IF Len(bytes) < 4 THEN Len(bytes) ELSE 4
  PROVE  /\ Counted(Append(bytes, byte)) /\ Append(bytes, byte) \in Seq(Byte)
         /\ Len(Append(bytes, byte)) = Len(bytes) + 1
<1>1. /\ Append(bytes, byte) \in Seq(Byte) /\ Len(Append(bytes, byte)) = Len(bytes) + 1
      /\ Append(bytes, byte)[Len(bytes) + 1] = byte
      /\ \A i \in 1 .. Len(bytes) : Append(bytes, byte)[i] = bytes[i]
  OBVIOUS
<1>2. Len(bytes) \in Nat
  OBVIOUS
<1> DEFINE n == Len(bytes)
<1>3. \A i \in 1 .. n + 1 : i \in 1 .. n \/ i = n + 1
  BY <1>2
<1> QED BY <1>1, <1>2, <1>3 DEF Counted

\* Loading the address and the bytes.
LEMMA BranchLoads ==
  ASSUME NEW p, NEW ra, NEW rb, NEW rc, NEW rf, BranchLoaded(p, ra, rb, rc, rf),
         NEW na, NEW nb, NEW nc
  PROVE  /\ p \in {0, 14, 24, 45, 55} => BranchLoaded(p + 3, na, 0, 128, rf)
         /\ p = 6 => BranchLoaded(9, na, S1, 0, rf)
         /\ p = 37 => BranchLoaded(40, na, S2, 0, rf)
         /\ p = 61 => BranchLoaded(64, na, Success, 0, rf)
         /\ p = 20 => BranchLoaded(23, na, nb, nc, rf)
         /\ p = 51 => BranchLoaded(54, na, nb, nc, rf)
         /\ p = 3 => BranchLoaded(5, 0, rb, rc, rf)
         /\ p = 17 => BranchLoaded(19, 1, rb, rc, rf)
         /\ p = 27 => BranchLoaded(29, 2, rb, rc, rf)
         /\ p = 48 => BranchLoaded(50, 3, rb, rc, rf)
         /\ p = 58 => BranchLoaded(60, 4, rb, rc, rf)
BY DEF BranchLoaded

LEMMA BranchWorks ==
  ASSUME NEW p, NEW ra, NEW rb, NEW rc, NEW rf, BranchLoaded(p, ra, rb, rc, rf), NEW na, NEW nf
  PROVE  /\ p \in {5, 19, 29, 50, 60} => BranchLoaded(p + 1, ra, rb, rc, rf)
         /\ p = 30 => BranchLoaded(32, 170, rb, rc, rf)
         /\ p = 32 => BranchLoaded(34, ra, 170, rc, rf)
         /\ p = 34 => BranchLoaded(36, ra, rb, rc, 0)
         /\ p = 36 /\ Bit(nf, 3) = 0 => BranchLoaded(37, na, rb, rc, nf)
         /\ p = 9 => BranchLoaded(14, ra, rb, rc, rf)
         /\ p = 23 => BranchLoaded(24, ra, rb, rc, rf)
         /\ p = 40 => BranchLoaded(45, ra, rb, rc, rf)
         /\ p \in {54, 64} => BranchLoaded(55, ra, rb, rc, rf)
BY DEF BranchLoaded

\* The instructions that only load: what stays, and what the rest of the invariant says.
LEMMA BranchQuiet ==
  ASSUME BranchInv, retired.on = TRUE, retired'.on = TRUE, MemoriesStay,
         NEW q \in BranchPoints, retired'.pc = q,
         BranchLoaded(q, retired'.a, retired'.b, retired'.c, retired'.f),
         BranchCount(q, Len(retired.out))
  PROVE  BranchInv'
BY DEF BranchInv, BranchAt, MemoriesStay

LEMMA BranchStep ==
  ASSUME BranchInv, retired.on = TRUE, retired'.on = TRUE, Machine!Execute
  PROVE  BranchInv'
<1> DEFINE n == Len(retired.out)
<1>1. retired.prog = BranchTest
  BY DEF BranchInv
<1>2. retired.out \in Seq(Byte) /\ Counted(retired.out)
  BY DEF BranchInv
<1>11. n \in Nat
  BY <1>2
<1>12. BranchCount(retired.pc, n)
  BY DEF BranchInv, BranchAt
<1>13. BranchLoaded(retired.pc, retired.a, retired.b, retired.c, retired.f)
  BY DEF BranchInv, BranchAt
<1>14. retired.pc \in BranchPoints
  BY DEF BranchInv, BranchAt
<1>3. Io = 32768 /\ S1 = 14 /\ S2 = 45 /\ Success = 55
  BY DEF Io, S1, S2, Success
<1> HIDE DEF n
<1>4. PICK point \in 0 .. 100 : retired.pc = point /\ point \in BranchPoints
  BY <1>14 DEF BranchPoints
<1>15. Runs(point)
  BY <1>4 DEF Runs
<1>5. CASE point \in {0, 6, 14, 20, 24, 37, 45, 51, 55, 61}
  <2>1. /\ Code(point) = 240
        /\ point \in {0, 14, 24, 45, 55} => Code(point + 1) = 0 /\ Code(point + 2) = 128
        /\ point = 6 => Code(point + 1) = S1 /\ Code(point + 2) = 0
        /\ point = 37 => Code(point + 1) = S2 /\ Code(point + 2) = 0
        /\ point = 61 => Code(point + 1) = Success /\ Code(point + 2) = 0
    BY <1>1, <1>3, <1>5, BranchBytes, BranchMoreBytes
  <2>2. /\ retired'.pc = point + 3 /\ MemoriesStay
        /\ retired'.b = Code(point + 1) /\ retired'.c = Code(point + 2)
        /\ retired'.a = retired.a /\ retired'.f = retired.f
    BY <1>15, <1>4, <2>1, LdiCBRuns
  <2>3. BranchCount(point + 3, n)
    BY <1>11, <1>12, <1>4, <1>5, BranchCountStays
  <2>5. point + 3 \in BranchPoints
    BY <1>5 DEF BranchPoints
  <2>4. BranchLoaded(point + 3, retired'.a, retired'.b, retired'.c, retired'.f)
    BY <1>13, <1>4, <1>5, <2>1, <2>2, BranchLoads
  <2> QED BY <2>2, <2>3, <2>4, <2>5, BranchQuiet DEF n
<1>6. CASE point \in {3, 17, 27, 30, 48, 58}
  <2>1. /\ Code(point) = 4 /\ (point = 3 => Code(point + 1) = 0)
        /\ (point = 17 => Code(point + 1) = 1) /\ (point = 27 => Code(point + 1) = 2)
        /\ (point = 30 => Code(point + 1) = 170)
        /\ (point = 48 => Code(point + 1) = 3) /\ (point = 58 => Code(point + 1) = 4)
    BY <1>1, <1>6, BranchBytes, BranchMoreBytes
  <2>2. /\ retired'.pc = point + 2 /\ MemoriesStay /\ retired'.a = Code(point + 1)
        /\ retired'.b = retired.b /\ retired'.c = retired.c /\ retired'.f = retired.f
    BY <1>15, <1>4, <2>1, LdiRuns
  <2>3. point + 2 \in BranchPoints /\ BranchCount(point + 2, n)
    BY <1>11, <1>12, <1>4, <1>6, BranchCountStays DEF BranchPoints
  <2>4. BranchLoaded(point + 2, retired'.a, retired'.b, retired'.c, retired'.f)
    BY <1>13, <1>4, <1>6, <2>1, <2>2, BranchLoads, BranchWorks
  <2> QED BY <2>2, <2>3, <2>4, BranchQuiet DEF n
<1>7. CASE point \in {32, 34}
  <2>1. /\ point = 32 => Code(point) = 8 /\ Code(point + 1) = 170
        /\ point = 34 => Code(point) = 0 /\ Code(point + 1) = 0
    BY <1>1, <1>7, BranchBytes
  <2>2. /\ retired'.pc = point + 2 /\ MemoriesStay /\ retired'.a = retired.a /\ retired'.c = retired.c
        /\ point = 32 => retired'.b = 170 /\ retired'.f = retired.f
        /\ point = 34 => retired'.f = 0 /\ retired'.b = retired.b
    <3>1. CASE point = 32
      BY <1>15, <1>4, <2>1, <3>1, LdiRuns
    <3>2. CASE point = 34
      BY <1>15, <1>4, <2>1, <3>2, LdiRuns
    <3> QED BY <1>7, <3>1, <3>2
  <2>3. point + 2 \in BranchPoints /\ BranchCount(point + 2, n)
    BY <1>11, <1>12, <1>4, <1>7, BranchCountStays DEF BranchPoints
  <2>4. BranchLoaded(point + 2, retired'.a, retired'.b, retired'.c, retired'.f)
    BY <1>13, <1>4, <1>7, <2>1, <2>2, BranchWorks
  <2> QED BY <2>2, <2>3, <2>4, BranchQuiet DEF n
<1>8. CASE point = 36
  <2>1. Code(36) = 138 /\ retired.a = 170 /\ retired.b = 170 /\ retired.f = 0
    BY <1>1, <1>13, <1>4, <1>8, BranchBytes DEF BranchLoaded
  <2>3. AluResult(138, 170, 170, 0) = 255
    <3>1. 170 \in Byte
      BY DEF Byte
    <3> QED BY <3>1, EqualResult
  <2>2. retired'.pc = 37 /\ MemoriesStay /\ Bit(retired'.f, 3) = 0
        /\ retired'.b = retired.b /\ retired'.c = retired.c
    BY <1>15, <1>4, <1>8, <2>1, <2>3, ArithmeticRuns
  <2>5. 37 \in BranchPoints /\ BranchCount(37, n)
    BY <1>11, <1>12, <1>4, <1>8, BranchCountStays DEF BranchPoints
  <2>6. BranchLoaded(37, retired'.a, retired'.b, retired'.c, retired'.f)
    BY <1>13, <1>4, <1>8, <2>2, BranchWorks
  <2> QED BY <2>2, <2>5, <2>6, BranchQuiet DEF n
<1>9. CASE point \in {9, 23, 40, 54, 64}
  <2>1. /\ point \in {9, 64} => Code(point) = 119
        /\ (point = 23 => Code(point) = 127) /\ (point = 40 => Code(point) = 123)
        /\ (point = 54 => Code(point) = 115)
    BY <1>1, <1>9, BranchBytes, BranchMoreBytes
  <2>2. /\ point = 9 => AddressOf(retired.c, retired.b) = 14
        /\ point = 40 => AddressOf(retired.c, retired.b) = 45 /\ Bit(retired.f, 3) = 0
        /\ point = 54 => Bit(retired.f, 3) = 0
        /\ point = 64 => AddressOf(retired.c, retired.b) = 55
    BY <1>13, <1>3, <1>4 DEF BranchLoaded, AddressOf
  <2>3. /\ MemoriesStay /\ retired'.a = retired.a /\ retired'.b = retired.b
        /\ retired'.c = retired.c /\ retired'.f = retired.f
    BY <1>15, <1>4, <1>9, <2>1, BranchRuns DEF Registers
  <2>4. /\ point = 9 => retired'.pc = 14
        /\ point = 23 => retired'.pc = 24
        /\ point = 40 => retired'.pc = 45
        /\ point = 54 => retired'.pc = 55
        /\ point = 64 => retired'.pc = 55
    BY <1>15, <1>4, <1>9, <2>1, <2>2, BranchRuns
  <2>5. retired'.pc \in BranchPoints /\ BranchCount(retired'.pc, n)
    BY <1>11, <1>12, <1>4, <1>9, <2>4, BranchCountStays DEF BranchPoints
  <2>6. BranchLoaded(retired'.pc, retired'.a, retired'.b, retired'.c, retired'.f)
    BY <1>13, <1>4, <1>9, <2>3, <2>4, BranchWorks
  <2> QED BY <2>3, <2>5, <2>6, BranchQuiet DEF n
<1>10. CASE point \in {5, 19, 29, 50, 60}
  <2>1. Code(point) = 100
    BY <1>1, <1>10, BranchBytes, BranchMoreBytes
  <2>2. AddressOf(retired.c, retired.b) = 32768
    BY <1>13, <1>4, <1>10 DEF BranchLoaded, AddressOf
  <2>3. /\ retired'.pc = point + 1 /\ Registers' = Registers /\ retired'.prog = retired.prog
        /\ retired'.out = Printed(retired.out, 32768, retired.a)
    BY <1>15, <1>4, <2>1, <2>2, StmRuns
  <2>8. retired'.out = Append(retired.out, retired.a)
    BY <2>3 DEF Printed, IsPort
  <2>9. /\ retired'.a = retired.a /\ retired'.b = retired.b
        /\ retired'.c = retired.c /\ retired'.f = retired.f
    BY <2>3 DEF Registers
  <2>4. retired.a \in Byte /\ retired.a = IF n < 4 THEN n ELSE 4
    <3>1. /\ point = 5 => retired.a = 0
          /\ point = 19 => retired.a = 1
          /\ point = 29 => retired.a = 2
          /\ point = 50 => retired.a = 3
          /\ point = 60 => retired.a = 4
      BY <1>13, <1>4 DEF BranchLoaded
    <3>2. /\ point = 5 => n = 0
          /\ point = 19 => n = 1
          /\ point = 29 => n = 2
          /\ point = 50 => n = 3
          /\ point = 60 => n >= 4
      BY <1>12, <1>4 DEF BranchCount
    <3> QED BY <1>10, <1>11, <3>1, <3>2 DEF Byte
  <2>5. Counted(retired'.out) /\ retired'.out \in Seq(Byte) /\ Len(retired'.out) = n + 1
    BY <1>2, <2>8, <2>4, CountedOn DEF n
  <2>6. point + 1 \in BranchPoints /\ BranchCount(point + 1, n + 1)
    BY <1>11, <1>12, <1>4, <1>10, BranchCountSteps DEF BranchPoints
  <2>7. BranchLoaded(point + 1, retired'.a, retired'.b, retired'.c, retired'.f)
    BY <1>13, <1>4, <1>10, <2>9, BranchWorks
  <2> QED BY <1>1, <2>3, <2>5, <2>6, <2>7 DEF BranchInv, BranchAt
<1> QED BY <1>4, <1>5, <1>6, <1>7, <1>8, <1>9, <1>10 DEF BranchPoints

-----------------------------------------------------------------------------
(* The multiplication: its arithmetic.                                     *)

LEMMA OwedInt ==
  ASSUME NEW s \in Int, NEW rest \in Int, NEW t \in Int, NEW more \in Int, NEW x, NEW y,
         Owed(s, rest, x, y), NEW d \in Int, t + more = s + rest + (256 * d)
  PROVE  Owed(t, more, x, y)
<1>1. \A u, v, e \in Int : u = v + (256 * e) => u % 256 = v % 256
  OBVIOUS
<1> DEFINE u == t + more
           v == s + rest
<1>2. u \in Int /\ v \in Int /\ u = v + (256 * d)
  OBVIOUS
<1> HIDE DEF u, v
<1>3. u % 256 = v % 256
  BY <1>1, <1>2
<1> QED BY <1>3 DEF Owed, u, v

\* A partial sum loses a multiple of 256 and takes one operand2 of what is owed.
LEMMA OwedAfterAdding ==
  ASSUME NEW n \in Byte, NEW k \in Byte, NEW s \in Byte, NEW x, NEW y, Owed(s, n * k, x, y)
  PROVE  Owed((k + s) % 256, (n - 1) * k, x, y)
<1> DEFINE d == (k + s) \div 256
           m == (k + s) % 256
<1>1. k \in Int /\ n \in Int /\ s \in Int
  BY DEF Byte
<1>2. d \in Int /\ m \in Int /\ k + s = (256 * d) + m
  BY <1>1
<1> HIDE DEF d, m
<1>3. (n - 1) * k = (n * k) - k /\ n * k \in Int
  BY <1>1
<1>4. m + ((n - 1) * k) = (s + (n * k)) + (256 * (-d))
  BY <1>1, <1>2, <1>3
<1>6. (n - 1) * k \in Int /\ -d \in Int
  BY <1>1, <1>2
<1>5. Owed(m, (n - 1) * k, x, y)
  <2> DEFINE rest == n * k
             more == (n - 1) * k
           e == -d
  <2>1. rest \in Int /\ more \in Int /\ e \in Int /\ m + more = (s + rest) + (256 * e)
    BY <1>3, <1>4, <1>6
  <2>2. Owed(s, rest, x, y)
    OBVIOUS
  <2> HIDE DEF rest, more, e
  <2>3. Owed(m, more, x, y)
    BY <1>1, <1>2, <1>6, <2>1, <2>2, OwedInt
  <2> QED BY <2>3 DEF more
<1> QED BY <1>5 DEF m

\* Halving one operand ...
LEMMA OwedAfterHalving ==
  ASSUME NEW n \in Byte, NEW k, NEW s, NEW x, NEW y, Owed(s, (n - (n % 2)) * k, x, y)
  PROVE  Owed(s, (2 * (n \div 2)) * k, x, y)
<1>1. 2 * (n \div 2) = n - (n % 2)
  BY DEF Byte
<1> QED BY <1>1

\* ... and doubling the other.
LEMMA OwedAfterDoubling ==
  ASSUME NEW n \in Byte, NEW k \in Byte, NEW s \in Byte, NEW x, NEW y, Owed(s, (2 * n) * k, x, y)
  PROVE  Owed(s, n * ((k + k) % 256), x, y)
<1> DEFINE d == (k + k) \div 256
           m == (k + k) % 256
<1>1. k \in Int /\ n \in Int /\ s \in Int
  BY DEF Byte
<1>2. d \in Int /\ m \in Int /\ m = (2 * k) - (256 * d)
  BY <1>1
<1> HIDE DEF d, m
<1>3. n * m = (n * (2 * k)) - (n * (256 * d))
  BY <1>1, <1>2
<1>4. n * (2 * k) = (2 * n) * k /\ n * (256 * d) = 256 * (n * d) /\ n * d \in Int
  BY <1>1, <1>2
<1>5. n * m \in Int /\ (2 * n) * k \in Int
  BY <1>1, <1>2
<1>6. s + (n * m) = (s + ((2 * n) * k)) + (256 * (-(n * d)))
  BY <1>1, <1>3, <1>4, <1>5
<1> QED BY <1>1, <1>4, <1>5, <1>6, OwedInt DEF m

\* The jumps: with no bit to add, and with nothing left.
LEMMA OwedParity ==
  ASSUME NEW n \in Byte, NEW k, NEW s, NEW x, NEW y
  PROVE  /\ n % 2 = 0 /\ Owed(s, n * k, x, y) => Owed(s, (n - (n % 2)) * k, x, y)
         /\ n % 2 = 1 /\ Owed(s, (n - 1) * k, x, y) => Owed(s, (n - (n % 2)) * k, x, y)
         /\ n % 2 # 1 => n % 2 = 0
<1>1. (n % 2 = 0 => n - (n % 2) = n) /\ (n % 2 = 1 => n - (n % 2) = n - 1) /\ (n % 2 # 1 => n % 2 = 0)
  BY DEF Byte
<1> QED BY <1>1

LEMMA OwedNothing ==
  ASSUME NEW k \in Byte, NEW s \in Byte, NEW x, NEW y, Owed(s, 0 * k, x, y)
  PROVE  s = (x * y) % 256
<1>1. (s + (0 * k)) = s /\ s % 256 = s
  BY DEF Byte
<1> QED BY <1>1 DEF Owed

LEMMA OwedAll ==
  ASSUME NEW x \in Byte, NEW y \in Byte
  PROVE  Owed(0, x * y, x, y)
<1>1. x * y \in Int
  BY DEF Byte
<1>2. 0 + (x * y) = x * y
  BY <1>1
<1> QED BY <1>2 DEF Owed

-----------------------------------------------------------------------------
(* Its steps from point to point.                                          *)

\* The stretches within which the cells and what they say stay the same.
LEMMA CellsStay ==
  ASSUME NEW p, NEW q, NEW n, NEW k, NEW s, NEW x, NEW y, MultiplyCells(p, n, k, s, x, y)
  PROVE  /\ q \in 0 .. 9 => MultiplyCells(q, n, k, s, x, y)
         /\ p \in 10 .. 15 /\ q \in 10 .. 15 => MultiplyCells(q, n, k, s, x, y)
         /\ p \in 16 .. 20 /\ q \in 16 .. 20 => MultiplyCells(q, n, k, s, x, y)
         /\ p \in 21 .. 39 /\ q \in 21 .. 39 => MultiplyCells(q, n, k, s, x, y)
         /\ p \in 40 .. 52 /\ q \in 40 .. 52 => MultiplyCells(q, n, k, s, x, y)
         /\ p \in 53 .. 56 /\ q \in 53 .. 56 => MultiplyCells(q, n, k, s, x, y)
         /\ p \in 57 .. 63 /\ q \in 57 .. 63 => MultiplyCells(q, n, k, s, x, y)
         /\ p \in 64 .. 73 /\ q \in 64 .. 73 => MultiplyCells(q, n, k, s, x, y)
         /\ p \in 74 .. 77 /\ q \in 74 .. 77 => MultiplyCells(q, n, k, s, x, y)
         /\ p \in 78 .. 89 /\ q \in 78 .. 89 => MultiplyCells(q, n, k, s, x, y)
         /\ p = 77 => MultiplyCells(21, n, k, s, x, y)
BY DEF MultiplyCells

\* Where an address is loaded.
LEMMA AddressLoaded ==
  ASSUME NEW p, NEW ra, NEW rb, NEW rc, NEW rf, NEW n, NEW k, NEW s, NEW x, NEW y,
         MultiplyLoaded(p, ra, rb, rc, rf, n, k, s, x, y)
  PROVE  /\ MultiplyLoaded(7, ra, 0, 0, rf, n, k, s, x, y)
         /\ MultiplyLoaded(13, ra, 1, 0, rf, n, k, s, x, y)
         /\ MultiplyLoaded(19, ra, 2, 0, rf, n, k, s, x, y)
         /\ MultiplyLoaded(24, ra, 0, 0, rf, n, k, s, x, y)
         /\ p = 28 => MultiplyLoaded(31, ra, 78, 0, rf, n, k, s, x, y)
         /\ p = 36 => MultiplyLoaded(39, ra, 57, 0, rf, n, k, s, x, y)
         /\ MultiplyLoaded(43, ra, 1, 0, rf, n, k, s, x, y)
         /\ p = 44 => MultiplyLoaded(47, ra, 2, 0, rf, n, k, s, x, y)
         /\ p = 53 => MultiplyLoaded(56, ra, 0, 128, rf, n, k, s, x, y)
         /\ MultiplyLoaded(60, ra, 0, 0, rf, n, k, s, x, y)
         /\ MultiplyLoaded(67, ra, 1, 0, rf, n, k, s, x, y)
         /\ MultiplyLoaded(77, ra, 21, 0, rf, n, k, s, x, y)
         /\ MultiplyLoaded(81, ra, 2, 0, rf, n, k, s, x, y)
         /\ p = 82 => MultiplyLoaded(85, ra, 0, 128, rf, n, k, s, x, y)
         /\ MultiplyLoaded(89, ra, 86, 0, rf, n, k, s, x, y)
BY DEF MultiplyLoaded, Operand1, Operand2, Accumulator, MultiplyEnd, SkipAdd, Loop, HaltLoop

\* Where a byte is loaded, ...
LEMMA ByteLoaded ==
  ASSUME NEW p, NEW ra, NEW rb, NEW rc, NEW rf, NEW n, NEW k, NEW s, NEW x, NEW y,
         MultiplyLoaded(p, ra, rb, rc, rf, n, k, s, x, y)
  PROVE  /\ p = 7 => MultiplyLoaded(9, x, rb, rc, rf, n, k, s, x, y)
         /\ p = 13 => MultiplyLoaded(15, y, rb, rc, rf, n, k, s, x, y)
         /\ p = 33 => MultiplyLoaded(35, ra, rb, rc, 1, n, k, s, x, y)
         /\ p = 50 => MultiplyLoaded(52, ra, 2, rc, rf, n, k, s, x, y)
         /\ p = 71 => MultiplyLoaded(73, ra, 1, rc, rf, n, k, s, x, y)
         /\ p = 24 => MultiplyLoaded(25, n, rb, rc, rf, n, k, s, x, y)
         /\ p = 43 => MultiplyLoaded(44, k, rb, rc, rf, n, k, s, x, y)
         /\ p = 47 => MultiplyLoaded(48, ra, s, rc, rf, n, k, s, x, y)
         /\ p = 60 => MultiplyLoaded(61, n, rb, rc, rf, n, k, s, x, y)
         /\ p = 67 => MultiplyLoaded(68, k, rb, rc, rf, n, k, s, x, y)
         /\ p = 81 => MultiplyLoaded(82, s, rb, rc, rf, n, k, s, x, y)
         /\ p = 68 => MultiplyLoaded(69, ra, ra, rc, rf, n, k, s, x, y)
BY DEF MultiplyLoaded, Operand1, Operand2, Accumulator

\* ... computed, ...
LEMMA ByteComputed ==
  ASSUME NEW p, NEW ra, NEW rb, NEW rc, NEW rf, NEW n, NEW k, NEW s, NEW x, NEW y,
         MultiplyLoaded(p, ra, rb, rc, rf, n, k, s, x, y), NEW na, NEW nb, NEW nf
  PROVE  /\ p = 19 => MultiplyLoaded(20, 0, rb, rc, nf, n, k, s, x, y)
         /\ p = 25 => MultiplyLoaded(26, ra, 0, rc, nf, n, k, s, x, y)
         /\ p = 26 => MultiplyLoaded(27, ra, rb, rc, 0, n, k, s, x, y)
         /\ p = 27 /\ Bit(nf, 3) = (IF n = 0 THEN 0 ELSE 1)
              => MultiplyLoaded(28, ra, nb, rc, nf, n, k, s, x, y)
         /\ p = 32 => MultiplyLoaded(33, ra, 0, rc, nf, n, k, s, x, y)
         /\ p = 35 /\ Bit(nf, 6) = n % 2 => MultiplyLoaded(36, na, rb, rc, nf, n, k, s, x, y)
         /\ p = 48 => MultiplyLoaded(49, ra, rb, rc, 0, n, k, s, x, y)
         /\ p = 49 => MultiplyLoaded(50, (k + s) % 256, rb, rc, nf, n, k, s, x, y)
         /\ p = 61 => MultiplyLoaded(62, ra, rb, rc, 0, n, k, s, x, y)
         /\ p = 62 => MultiplyLoaded(63, n \div 2, rb, rc, nf, n, k, s, x, y)
         /\ p = 69 => MultiplyLoaded(70, ra, rb, rc, 0, n, k, s, x, y)
         /\ p = 70 => MultiplyLoaded(71, (k + k) % 256, rb, rc, nf, n, k, s, x, y)
BY DEF MultiplyLoaded, Operand1, Operand2, Accumulator

\* ... or stored, and where only the PC moves.
LEMMA NothingLoaded ==
  ASSUME NEW p, NEW ra, NEW rb, NEW rc, NEW rf, NEW n, NEW k, NEW s, NEW x, NEW y,
         MultiplyLoaded(p, ra, rb, rc, rf, n, k, s, x, y)
  PROVE  /\ p = 31 => MultiplyLoaded(32, ra, rb, rc, rf, n, k, s, x, y)
         /\ \A q \in {0, 1, 2, 3, 4, 10, 16, 21, 40, 57, 64, 74, 78, 86} :
              MultiplyLoaded(q, ra, rb, rc, rf, n, k, s, x, y)
BY DEF MultiplyLoaded

MultiplyNow(x, y, q) ==
  /\ MultiplyLoaded(q, retired'.a, retired'.b, retired'.c, retired'.f,
                    Cell(Operand1)', Cell(Operand2)', Cell(Accumulator)', x, y)
  /\ MultiplyCells(q, Cell(Operand1)', Cell(Operand2)', Cell(Accumulator)', x, y)

\* The instructions that store nothing.
LEMMA MultiplyQuiet ==
  ASSUME NEW x, NEW y, MultiplyInv(x, y), retired.on = TRUE, retired'.on = TRUE, MemoriesStay,
         NEW q \in MultiplyPoints, retired'.pc = q,
         MultiplyLoaded(q, retired'.a, retired'.b, retired'.c, retired'.f,
                        Cell(Operand1), Cell(Operand2), Cell(Accumulator), x, y),
         MultiplyCells(q, Cell(Operand1), Cell(Operand2), Cell(Accumulator), x, y),
         q >= 21 => retired.pc >= 21, q \in {86, 89} => retired.pc \in {86, 89}
  PROVE  MultiplyInv(x, y)'
<1>1. \A k : Cell(k)' = Cell(k)
  BY DEF MemoriesStay, Cell
<1>2. /\ retired'.prog = Multiply8(x, y) /\ retired'.out \in Seq(Byte)
      /\ \A k \in {Operand1, Operand2, Accumulator} : Cell(k)' \in Byte
  BY <1>1 DEF MultiplyInv, MemoriesStay
<1>3. q >= 21 => Accumulator \in DOMAIN retired'.data
  BY DEF MultiplyInv, MultiplyAt, MemoriesStay
<1>4. q \in {86, 89} => Ends(retired'.out, Cell(Accumulator))
  BY DEF MultiplyInv, MultiplyAt, MemoriesStay
<1>5. MultiplyAt(x, y)'
  BY <1>1, <1>3, <1>4 DEF MultiplyAt
<1> QED BY <1>2, <1>5 DEF MultiplyInv

\* The stores to a cell.
LEMMA MultiplyStore ==
  ASSUME NEW x, NEW y, MultiplyInv(x, y), retired.on = TRUE, retired'.on = TRUE,
         retired'.prog = retired.prog, retired'.out = retired.out,
         NEW cell \in {0, 1, 2}, NEW byte \in Byte,
         retired'.data = Stored(retired.data, cell, byte),
         NEW q \in MultiplyPoints, retired'.pc = q,
         MultiplyNow(x, y, q),
         q >= 21 => retired.pc >= 21 \/ cell = 2, q \notin {86, 89}
  PROVE  MultiplyInv(x, y)'
<1>1. /\ \A k : Cell(k)' = IF k = cell THEN byte ELSE Cell(k)
      /\ cell \in DOMAIN retired'.data /\ DOMAIN retired.data \subseteq DOMAIN retired'.data
  BY StoredCell
<1>2. /\ retired'.prog = Multiply8(x, y) /\ retired'.out \in Seq(Byte)
      /\ \A k \in {Operand1, Operand2, Accumulator} : Cell(k)' \in Byte
  BY <1>1 DEF MultiplyInv
<1>3. q >= 21 => Accumulator \in DOMAIN retired'.data
  BY <1>1 DEF MultiplyInv, MultiplyAt, Accumulator
<1>5. MultiplyAt(x, y)'
  BY <1>3 DEF MultiplyAt, MultiplyNow
<1> QED BY <1>2, <1>5 DEF MultiplyInv

LEMMA MultiplyStep ==
  ASSUME NEW x \in Byte, NEW y \in Byte, MultiplyInv(x, y), retired.on = TRUE, retired'.on = TRUE,
         Machine!Execute
  PROVE  MultiplyInv(x, y)'
<1> DEFINE n == Cell(Operand1)
           k == Cell(Operand2)
           s == Cell(Accumulator)
<1>1. retired.prog = Multiply8(x, y)
  BY DEF MultiplyInv
<1>2. retired.out \in Seq(Byte)
  BY DEF MultiplyInv
<1>3. n \in Byte /\ k \in Byte /\ s \in Byte
  BY DEF MultiplyInv
<1>4. retired.pc \in MultiplyPoints
  BY DEF MultiplyInv, MultiplyAt
<1>5. MultiplyLoaded(retired.pc, retired.a, retired.b, retired.c, retired.f, n, k, s, x, y)
  BY DEF MultiplyInv, MultiplyAt
<1>6. MultiplyCells(retired.pc, n, k, s, x, y)
  BY DEF MultiplyInv, MultiplyAt
<1>7. Operand1 = 0 /\ Operand2 = 1 /\ Accumulator = 2
  BY DEF Operand1, Operand2, Accumulator
<1> HIDE DEF n, k, s
<1>8. PICK point \in 0 .. 100 : retired.pc = point /\ point \in MultiplyPoints
  BY <1>4 DEF MultiplyPoints
<1>9. Runs(point)
  BY <1>8 DEF Runs
<1>10. ASSUME NEW q \in 0 .. 100, MemoriesStay, q \in MultiplyPoints, retired'.pc = q,
              MultiplyLoaded(q, retired'.a, retired'.b, retired'.c, retired'.f, n, k, s, x, y),
              MultiplyCells(q, n, k, s, x, y),
              q >= 21 => point >= 21, q \in {86, 89} => point \in {86, 89}
       PROVE  MultiplyInv(x, y)'
  BY <1>8, <1>10, MultiplyQuiet DEF n, k, s
<1>11. CASE point \in {4, 10, 16, 21, 28, 36, 40, 44, 53, 57, 64, 74, 78, 82, 86}
  <2>1. /\ Code(point) = 240
        /\ point = 4 => Code(point + 1) = 0 /\ Code(point + 2) = 0
        /\ point = 10 => Code(point + 1) = 1 /\ Code(point + 2) = 0
        /\ point = 16 => Code(point + 1) = 2 /\ Code(point + 2) = 0
        /\ point = 21 => Code(point + 1) = 0 /\ Code(point + 2) = 0
        /\ point = 28 => Code(point + 1) = 78 /\ Code(point + 2) = 0
        /\ point = 36 => Code(point + 1) = 57 /\ Code(point + 2) = 0
        /\ point = 40 => Code(point + 1) = 1 /\ Code(point + 2) = 0
        /\ point = 44 => Code(point + 1) = 2 /\ Code(point + 2) = 0
        /\ point = 53 => Code(point + 1) = 0 /\ Code(point + 2) = 128
        /\ point = 57 => Code(point + 1) = 0 /\ Code(point + 2) = 0
        /\ point = 64 => Code(point + 1) = 1 /\ Code(point + 2) = 0
        /\ point = 74 => Code(point + 1) = 21 /\ Code(point + 2) = 0
        /\ point = 78 => Code(point + 1) = 2 /\ Code(point + 2) = 0
        /\ point = 82 => Code(point + 1) = 0 /\ Code(point + 2) = 128
        /\ point = 86 => Code(point + 1) = 86 /\ Code(point + 2) = 0
    BY <1>1, <1>11, StartBytes, LoopBytes, AddBytes, SkipAddBytes, ResultBytes
  <2>2. /\ retired'.pc = point + 3 /\ MemoriesStay
        /\ retired'.b = Code(point + 1) /\ retired'.c = Code(point + 2)
        /\ retired'.a = retired.a /\ retired'.f = retired.f
    BY <1>9, <2>1, LdiCBRuns
  <2>3. point + 3 \in MultiplyPoints
    BY <1>11 DEF MultiplyPoints
  <2>4. MultiplyCells(point + 3, n, k, s, x, y)
    BY <1>6, <1>8, <1>11, CellsStay
  <2>5. MultiplyLoaded(point + 3, retired'.a, retired'.b, retired'.c, retired'.f, n, k, s, x, y)
    BY <1>5, <1>8, <1>11, <2>1, <2>2, AddressLoaded
  <2> QED BY <1>10, <1>11, <2>2, <2>3, <2>4, <2>5
<1>12. CASE point \in {0, 1, 2, 3}
  <2>1. Code(point) = 252
    BY <1>1, <1>12, StartBytes
  <2>2. retired'.pc = point + 1 /\ Registers' = Registers /\ MemoriesStay
    BY <1>9, <2>1, NopRuns
  <2>3. point + 1 \in MultiplyPoints
    BY <1>12 DEF MultiplyPoints
  <2>4. MultiplyCells(point + 1, n, k, s, x, y)
    BY <1>6, <1>12, CellsStay
  <2>5. MultiplyLoaded(point + 1, retired'.a, retired'.b, retired'.c, retired'.f, n, k, s, x, y)
    BY <1>5, <1>12, <2>2, NothingLoaded DEF Registers
  <2> QED BY <1>10, <1>12, <2>2, <2>3, <2>4, <2>5
<1>13. CASE point \in {7, 13, 33, 50, 71}
  <2>1. /\ point = 7 => Code(point) = 4 /\ Code(point + 1) = x
        /\ point = 13 => Code(point) = 4 /\ Code(point + 1) = y
        /\ point = 33 => Code(point) = 0 /\ Code(point + 1) = 1
        /\ point = 50 => Code(point) = 8 /\ Code(point + 1) = 2
        /\ point = 71 => Code(point) = 8 /\ Code(point + 1) = 1
    BY <1>1, <1>13, StartBytes, LoopBytes, AddBytes, SkipAddBytes, ResultBytes
  <2>2. /\ retired'.pc = point + 2 /\ MemoriesStay /\ retired'.c = retired.c
        /\ retired'.a = IF point \in {7, 13} THEN Code(point + 1) ELSE retired.a
        /\ retired'.b = IF point \in {50, 71} THEN Code(point + 1) ELSE retired.b
        /\ retired'.f = IF point = 33 THEN Code(point + 1) ELSE retired.f
    <3>1. CASE point \in {7, 13}
      BY <1>9, <2>1, <3>1, LdiRuns
    <3>2. CASE point \in {50, 71}
      BY <1>9, <2>1, <3>2, LdiRuns
    <3>3. CASE point = 33
      BY <1>9, <2>1, <3>3, LdiRuns
    <3> QED BY <1>13, <3>1, <3>2, <3>3
  <2>3. point + 2 \in MultiplyPoints
    BY <1>13 DEF MultiplyPoints
  <2>4. MultiplyCells(point + 2, n, k, s, x, y)
    BY <1>6, <1>8, <1>13, CellsStay
  <2>5. MultiplyLoaded(point + 2, retired'.a, retired'.b, retired'.c, retired'.f, n, k, s, x, y)
    BY <1>5, <1>8, <1>13, <2>1, <2>2, ByteLoaded
  <2> QED BY <1>10, <1>13, <2>2, <2>3, <2>4, <2>5
<1>14. CASE point \in {24, 43, 47, 60, 67, 81}
  <2>1. /\ point \in {24, 43, 60, 67, 81} => Code(point) = 68
        /\ point = 47 => Code(point) = 72
    BY <1>1, <1>14, StartBytes, LoopBytes, AddBytes, SkipAddBytes, ResultBytes
  <2>2. /\ point \in {24, 60} => AddressOf(retired.c, retired.b) = 0
        /\ point \in {43, 67} => AddressOf(retired.c, retired.b) = 1
        /\ point \in {47, 81} => AddressOf(retired.c, retired.b) = 2
    BY <1>5, <1>7, <1>8 DEF MultiplyLoaded, AddressOf
  <2>6. n = Cell(0) /\ k = Cell(1) /\ s = Cell(2)
    BY <1>7 DEF n, k, s
  <2>7. /\ retired'.pc = point + 1 /\ MemoriesStay /\ retired'.c = retired.c
        /\ retired'.f = retired.f
        /\ retired'.a = IF point \in {24, 60} THEN n
                          ELSE IF point \in {43, 67} THEN k
                          ELSE IF point = 81 THEN s ELSE retired.a
        /\ retired'.b = IF point = 47 THEN s ELSE retired.b
    <3>1. CASE point \in {24, 60}
      BY <1>9, <2>1, <2>2, <2>6, <3>1, LdmRuns
    <3>2. CASE point \in {43, 67}
      BY <1>9, <2>1, <2>2, <2>6, <3>2, LdmRuns
    <3>3. CASE point = 81
      BY <1>9, <2>1, <2>2, <2>6, <3>3, LdmRuns
    <3>4. CASE point = 47
      BY <1>9, <2>1, <2>2, <2>6, <3>4, LdmRuns
    <3> QED BY <1>14, <3>1, <3>2, <3>3, <3>4
  <2>3. point + 1 \in MultiplyPoints
    BY <1>14 DEF MultiplyPoints
  <2>4. MultiplyCells(point + 1, n, k, s, x, y)
    BY <1>6, <1>8, <1>14, CellsStay
  <2>5. MultiplyLoaded(point + 1, retired'.a, retired'.b, retired'.c, retired'.f, n, k, s, x, y)
    BY <1>5, <1>8, <1>14, <2>7, ByteLoaded
  <2> QED BY <1>10, <1>14, <2>7, <2>3, <2>4, <2>5
<1>15. CASE point = 68
  <2>1. Code(68) = 32
    BY <1>1, SkipAddBytes
  <2>2. /\ retired'.pc = 69 /\ MemoriesStay /\ retired'.b = retired.a
        /\ retired'.a = retired.a /\ retired'.c = retired.c /\ retired'.f = retired.f
    BY <1>9, <1>15, <2>1, MovRuns
  <2>3. 69 \in MultiplyPoints
    BY DEF MultiplyPoints
  <2>4. MultiplyCells(69, n, k, s, x, y)
    BY <1>6, <1>8, <1>15, CellsStay
  <2>5. MultiplyLoaded(69, retired'.a, retired'.b, retired'.c, retired'.f, n, k, s, x, y)
    BY <1>5, <1>8, <1>15, <2>2, ByteLoaded
  <2> QED BY <1>10, <1>15, <2>2, <2>3, <2>4, <2>5
<1>16. CASE point \in {19, 25, 26, 32, 48, 61, 69}
  <2>1. /\ point = 19 => Code(point) = 136
        /\ point \in {25, 32} => Code(point) = 144
        /\ point \in {26, 48, 61, 69} => Code(point) = 128
    BY <1>1, <1>16, StartBytes, LoopBytes, AddBytes, SkipAddBytes, ResultBytes
  <2>2. /\ retired'.pc = point + 1 /\ MemoriesStay /\ retired'.c = retired.c
        /\ retired'.a = IF point = 19 THEN 0 ELSE retired.a
        /\ retired'.b = IF point \in {25, 32} THEN 0 ELSE retired.b
        /\ point \in {26, 48, 61, 69} => retired'.f = 0
    <3>1. CASE point = 19
      BY <1>9, <2>1, <3>1, ArithmeticRuns, Cleared
    <3>2. CASE point \in {25, 32}
      BY <1>9, <2>1, <3>2, ArithmeticRuns, Cleared
    <3>3. CASE point \in {26, 48, 61, 69}
      BY <1>9, <2>1, <3>3, ArithmeticRuns, Cleared
    <3> QED BY <1>16, <3>1, <3>2, <3>3
  <2>3. point + 1 \in MultiplyPoints
    BY <1>16 DEF MultiplyPoints
  <2>4. MultiplyCells(point + 1, n, k, s, x, y)
    BY <1>6, <1>8, <1>16, CellsStay
  <2>5. MultiplyLoaded(point + 1, retired'.a, retired'.b, retired'.c, retired'.f, n, k, s, x, y)
    BY <1>5, <1>8, <1>16, <2>2, ByteComputed
  <2> QED BY <1>10, <1>16, <2>2, <2>3, <2>4, <2>5
<1>17. CASE point = 27
  <2>1. Code(27) = 146 /\ retired.a = n /\ retired.b = 0 /\ retired.f = 0
    BY <1>1, <1>5, <1>8, <1>17, LoopBytes DEF MultiplyLoaded
  <2>2. /\ retired'.pc = 28 /\ MemoriesStay /\ retired'.a = retired.a
        /\ retired'.c = retired.c
        /\ Bit(retired'.f, 3) = IF AluResult(146, n, 0, 0) = 255 THEN 0 ELSE 1
    BY <1>9, <1>17, <2>1, ArithmeticRuns
  <2>6. Bit(retired'.f, 3) = IF n = 0 THEN 0 ELSE 1
    BY <1>3, <2>2, ZeroTested
  <2>3. 28 \in MultiplyPoints
    BY DEF MultiplyPoints
  <2>4. MultiplyCells(28, n, k, s, x, y)
    BY <1>6, <1>8, <1>17, CellsStay
  <2>5. MultiplyLoaded(28, retired'.a, retired'.b, retired'.c, retired'.f, n, k, s, x, y)
    BY <1>5, <1>8, <1>17, <2>2, <2>6, ByteComputed
  <2> QED BY <1>10, <1>17, <2>2, <2>3, <2>4, <2>5
<1>18. CASE point = 35
  <2>1. Code(35) = 138 /\ retired.a = n /\ retired.b = 0 /\ retired.f = 1
    BY <1>1, <1>5, <1>8, <1>18, LoopBytes DEF MultiplyLoaded
  <2>2. /\ retired'.pc = 36 /\ MemoriesStay /\ retired'.b = retired.b
        /\ retired'.c = retired.c /\ Bit(retired'.f, 6) = Bit(n, 0)
    BY <1>9, <1>18, <2>1, ArithmeticRuns
  <2>6. Bit(retired'.f, 6) = n % 2
    BY <1>3, <2>2 DEF Bit, Byte
  <2>3. 36 \in MultiplyPoints
    BY DEF MultiplyPoints
  <2>4. MultiplyCells(36, n, k, s, x, y)
    BY <1>6, <1>8, <1>18, CellsStay
  <2>5. MultiplyLoaded(36, retired'.a, retired'.b, retired'.c, retired'.f, n, k, s, x, y)
    BY <1>5, <1>8, <1>18, <2>2, <2>6, ByteComputed
  <2> QED BY <1>10, <1>18, <2>2, <2>3, <2>4, <2>5
<1>19. CASE point = 49
  <2>1. Code(49) = 139 /\ retired.a = k /\ retired.b = s /\ retired.f = 0
    BY <1>1, <1>5, <1>8, <1>19, AddBytes DEF MultiplyLoaded
  <2>6. AluResult(139, retired.a, retired.b, retired.f) = (k + s) % 256
    BY <1>3, <2>1, Results
  <2>2. /\ retired'.pc = 50 /\ MemoriesStay /\ retired'.b = retired.b
        /\ retired'.c = retired.c /\ retired'.a = (k + s) % 256
    BY <1>9, <1>19, <2>1, <2>6, ArithmeticRuns
  <2>3. 50 \in MultiplyPoints
    BY DEF MultiplyPoints
  <2>4. MultiplyCells(50, n, k, s, x, y)
    BY <1>6, <1>8, <1>19, CellsStay
  <2>5. MultiplyLoaded(50, retired'.a, retired'.b, retired'.c, retired'.f, n, k, s, x, y)
    BY <1>5, <1>8, <1>19, <2>2, <2>6, ByteComputed
  <2> QED BY <1>10, <1>19, <2>2, <2>3, <2>4, <2>5
<1>20. CASE point = 70
  <2>1. Code(70) = 139 /\ retired.a = k /\ retired.b = k /\ retired.f = 0
    BY <1>1, <1>5, <1>8, <1>20, SkipAddBytes DEF MultiplyLoaded
  <2>6. AluResult(139, retired.a, retired.b, retired.f) = (k + k) % 256
    BY <1>3, <2>1, Results
  <2>2. /\ retired'.pc = 71 /\ MemoriesStay /\ retired'.b = retired.b
        /\ retired'.c = retired.c /\ retired'.a = (k + k) % 256
    BY <1>9, <1>20, <2>1, <2>6, ArithmeticRuns
  <2>3. 71 \in MultiplyPoints
    BY DEF MultiplyPoints
  <2>4. MultiplyCells(71, n, k, s, x, y)
    BY <1>6, <1>8, <1>20, CellsStay
  <2>5. MultiplyLoaded(71, retired'.a, retired'.b, retired'.c, retired'.f, n, k, s, x, y)
    BY <1>5, <1>8, <1>20, <2>2, <2>6, ByteComputed
  <2> QED BY <1>10, <1>20, <2>2, <2>3, <2>4, <2>5
<1>21. CASE point = 62
  <2>1. Code(62) = 244 /\ retired.a = n /\ retired.f = 0
    BY <1>1, <1>5, <1>8, <1>21, SkipAddBytes DEF MultiplyLoaded
  <2>6. Shifted(n, 0) = n \div 2
    BY <1>3, ShiftHalves
  <2>2. /\ retired'.pc = 63 /\ MemoriesStay /\ retired'.b = retired.b
        /\ retired'.c = retired.c /\ retired'.a = n \div 2
    BY <1>9, <1>21, <2>1, <2>6, ShrRuns
  <2>3. 63 \in MultiplyPoints
    BY DEF MultiplyPoints
  <2>4. MultiplyCells(63, n, k, s, x, y)
    BY <1>6, <1>8, <1>21, CellsStay
  <2>5. MultiplyLoaded(63, retired'.a, retired'.b, retired'.c, retired'.f, n, k, s, x, y)
    BY <1>5, <1>8, <1>21, <2>2, <2>6, ByteComputed
  <2> QED BY <1>10, <1>21, <2>2, <2>3, <2>4, <2>5
<1>22. CASE point \in {31, 39, 77, 89}
  <2>1. /\ (point = 31 => Code(point) = 123) /\ (point = 39 => Code(point) = 126)
        /\ point \in {77, 89} => Code(point) = 119
    BY <1>1, <1>22, StartBytes, LoopBytes, AddBytes, SkipAddBytes, ResultBytes
  <2>2. /\ point = 31 => AddressOf(retired.c, retired.b) = 78
        /\ point = 39 => AddressOf(retired.c, retired.b) = 57
        /\ point = 77 => AddressOf(retired.c, retired.b) = 21
        /\ point = 89 => AddressOf(retired.c, retired.b) = 86
    BY <1>5, <1>8 DEF MultiplyLoaded, AddressOf, MultiplyEnd, SkipAdd, Loop, HaltLoop
  <2>3. Registers' = Registers /\ MemoriesStay
    BY <1>9, <1>22, <2>1, BranchRuns
  <2>4. /\ point = 31 => retired'.pc = IF Bit(retired.f, 3) = 1 THEN 32 ELSE 78
        /\ point = 39 => retired'.pc = IF Bit(retired.f, 6) = 1 THEN 40 ELSE 57
        /\ point = 77 => retired'.pc = 21
        /\ point = 89 => retired'.pc = 86
    BY <1>9, <1>22, <2>1, <2>2, BranchRuns
  <2>5. PICK q \in 0 .. 100 : retired'.pc = q
    BY <1>22, <2>4
  <2>6. q \in MultiplyPoints
    BY <1>22, <2>4, <2>5 DEF MultiplyPoints
  <2>7. MultiplyLoaded(q, retired'.a, retired'.b, retired'.c, retired'.f, n, k, s, x, y)
    BY <1>5, <1>8, <1>22, <2>3, <2>4, <2>5, NothingLoaded DEF Registers
  <2>8. MultiplyCells(q, n, k, s, x, y)
    <3>1. CASE point = 31
      <4>1. Bit(retired.f, 3) = IF n = 0 THEN 0 ELSE 1
        BY <1>5, <1>8, <3>1 DEF MultiplyLoaded
      <4>2. Owed(s, n * k, x, y)
        BY <1>6, <1>8, <3>1 DEF MultiplyCells
      <4>3. n = 0 => s = (x * y) % 256
        BY <1>3, <4>2, OwedNothing
      <4>4. q = 32 => MultiplyCells(q, n, k, s, x, y)
        BY <1>6, <1>8, <3>1, CellsStay
      <4>5. q = 78 /\ n = 0 => MultiplyCells(q, n, k, s, x, y)
        BY <4>3 DEF MultiplyCells
      <4> QED BY <2>4, <2>5, <3>1, <4>1, <4>4, <4>5
    <3>2. CASE point = 39
      <4>1. Bit(retired.f, 6) = n % 2 /\ (n % 2 # 1 => n % 2 = 0)
        BY <1>3, <1>5, <1>8, <3>2, OwedParity DEF MultiplyLoaded
      <4>2. Owed(s, n * k, x, y)
        BY <1>6, <1>8, <3>2 DEF MultiplyCells
      <4>3. n % 2 = 0 => Owed(s, (n - (n % 2)) * k, x, y)
        BY <1>3, <4>2, OwedParity
      <4>4. q = 40 /\ n % 2 = 1 => MultiplyCells(q, n, k, s, x, y)
        BY <4>2 DEF MultiplyCells
      <4>5. q = 57 /\ n % 2 = 0 => MultiplyCells(q, n, k, s, x, y)
        BY <4>3 DEF MultiplyCells
      <4> QED BY <2>4, <2>5, <3>2, <4>1, <4>4, <4>5
    <3>3. CASE point \in {77, 89}
      BY <1>6, <1>8, <2>4, <2>5, <3>3, CellsStay
    <3> QED BY <1>22, <3>1, <3>2, <3>3
  <2>9. (q >= 21 => point >= 21) /\ (q \in {86, 89} => point \in {86, 89})
    BY <1>22, <2>4, <2>5
  <2> QED BY <1>10, <2>3, <2>5, <2>6, <2>7, <2>8, <2>9
<1>23. CASE point \in {9, 15, 20, 52, 63, 73}
  <2>1. Code(point) = 100
    BY <1>1, <1>23, StartBytes, LoopBytes, AddBytes, SkipAddBytes, ResultBytes
  <2> DEFINE cell == IF point \in {9, 63} THEN 0 ELSE IF point \in {15, 73} THEN 1 ELSE 2
  <2>2. cell \in {0, 1, 2} /\ AddressOf(retired.c, retired.b) = cell
    <3>2. /\ point \in {9, 63} => retired.c = 0 /\ retired.b = 0
          /\ point \in {15, 73} => retired.c = 0 /\ retired.b = 1
          /\ point \in {20, 52} => retired.c = 0 /\ retired.b = 2
      BY <1>5, <1>7, <1>8 DEF MultiplyLoaded
    <3>1. /\ point \in {9, 63} => AddressOf(retired.c, retired.b) = 0
          /\ point \in {15, 73} => AddressOf(retired.c, retired.b) = 1
          /\ point \in {20, 52} => AddressOf(retired.c, retired.b) = 2
      BY <3>2 DEF AddressOf
    <3> QED BY <1>23, <3>1
  <2>3. /\ retired'.pc = point + 1 /\ Registers' = Registers /\ retired'.prog = retired.prog
        /\ retired'.data = Stored(retired.data, cell, retired.a)
        /\ retired'.out = Printed(retired.out, cell, retired.a)
    BY <1>9, <2>1, <2>2, StmRuns
  <2>4. retired'.out = retired.out
    BY <2>2, <2>3 DEF Printed, IsPort
  <2>5. /\ point = 9 => retired.a = x
        /\ point = 15 => retired.a = y
        /\ point = 20 => retired.a = 0
        /\ point = 52 => retired.a = (k + s) % 256
        /\ point = 63 => retired.a = n \div 2
        /\ point = 73 => retired.a = (k + k) % 256
    BY <1>5, <1>8 DEF MultiplyLoaded
  <2>6. retired.a \in Byte
    <3>1. /\ (k + s) % 256 \in Byte /\ (k + k) % 256 \in Byte
          /\ n \div 2 \in Byte /\ 0 \in Byte
      BY <1>3 DEF Byte
    <3> QED BY <1>23, <2>5, <3>1
  <2>7. /\ Cell(Operand1)' = IF cell = 0 THEN retired.a ELSE n
        /\ Cell(Operand2)' = IF cell = 1 THEN retired.a ELSE k
        /\ Cell(Accumulator)' = IF cell = 2 THEN retired.a ELSE s
    BY <1>7, <2>2, <2>3, StoredCell DEF n, k, s
  <2>8. point + 1 \in MultiplyPoints
    BY <1>23 DEF MultiplyPoints
  <2>9. /\ retired'.a = retired.a /\ retired'.b = retired.b
        /\ retired'.c = retired.c /\ retired'.f = retired.f
    BY <2>3 DEF Registers
  <2>10. \A n1, k1, s1 : MultiplyLoaded(point + 1, retired.a, retired.b, retired.c, retired.f,
                                        n1, k1, s1, x, y)
    BY <1>23, <2>6 DEF MultiplyLoaded
  <2>11. MultiplyCells(point + 1, Cell(Operand1)', Cell(Operand2)', Cell(Accumulator)', x, y)
    <3>1. CASE point \in {9, 15}
      BY <1>6, <1>8, <2>5, <2>7, <3>1 DEF MultiplyCells
    <3>2. CASE point = 20
      <4>1. n = x /\ k = y /\ Owed(0, x * y, x, y)
        BY <1>6, <1>8, <3>2, OwedAll DEF MultiplyCells
      <4>2. Cell(Operand1)' = x /\ Cell(Operand2)' = y /\ Cell(Accumulator)' = 0
        BY <2>5, <2>7, <3>2, <4>1
      <4> QED BY <3>2, <4>1, <4>2 DEF MultiplyCells
    <3>3. CASE point = 52
      <4>1. n % 2 = 1 /\ Owed(s, n * k, x, y)
        BY <1>6, <1>8, <3>3 DEF MultiplyCells
      <4>2. Owed((k + s) % 256, (n - 1) * k, x, y)
        BY <1>3, <4>1, OwedAfterAdding
      <4>3. Cell(Operand1)' = n /\ Cell(Operand2)' = k /\ Cell(Accumulator)' = (k + s) % 256
        BY <2>5, <2>7, <3>3
      <4> QED BY <3>3, <4>1, <4>2, <4>3 DEF MultiplyCells
    <3>4. CASE point = 63
      <4>1. Owed(s, (n - (n % 2)) * k, x, y)
        BY <1>6, <1>8, <3>4 DEF MultiplyCells
      <4>2. Owed(s, (2 * (n \div 2)) * k, x, y)
        BY <1>3, <4>1, OwedAfterHalving
      <4>3. Cell(Operand1)' = n \div 2 /\ Cell(Operand2)' = k /\ Cell(Accumulator)' = s
        BY <2>5, <2>7, <3>4
      <4> QED BY <3>4, <4>2, <4>3 DEF MultiplyCells
    <3>5. CASE point = 73
      <4>1. Owed(s, (2 * n) * k, x, y)
        BY <1>6, <1>8, <3>5 DEF MultiplyCells
      <4>2. Owed(s, n * ((k + k) % 256), x, y)
        BY <1>3, <4>1, OwedAfterDoubling
      <4>3. Cell(Operand1)' = n /\ Cell(Operand2)' = (k + k) % 256 /\ Cell(Accumulator)' = s
        BY <2>5, <2>7, <3>5
      <4> QED BY <3>5, <4>2, <4>3 DEF MultiplyCells
    <3> QED BY <1>23, <3>1, <3>2, <3>3, <3>4, <3>5
  <2>12. MultiplyNow(x, y, point + 1)
    BY <2>9, <2>10, <2>11 DEF MultiplyNow
  <2>13. (point + 1 >= 21 => retired.pc >= 21 \/ cell = 2) /\ point + 1 \notin {86, 89}
    BY <1>8, <1>23
  <2> HIDE DEF cell
  <2> QED BY <2>2, <2>3, <2>4, <2>6, <2>8, <2>12, <2>13, MultiplyStore
<1>24. CASE point \in {56, 85}
  <2>1. Code(point) = 100
    BY <1>1, <1>24, AddBytes, ResultBytes
  <2>2. AddressOf(retired.c, retired.b) = 32768
    BY <1>5, <1>8, <1>24 DEF MultiplyLoaded, AddressOf
  <2>3. /\ retired'.pc = point + 1 /\ Registers' = Registers /\ retired'.prog = retired.prog
        /\ retired'.data = Stored(retired.data, 32768, retired.a)
        /\ retired'.out = Printed(retired.out, 32768, retired.a)
    BY <1>9, <2>1, <2>2, StmRuns
  <2>4. retired'.out = Append(retired.out, retired.a) /\ retired'.data = retired.data
    BY <2>3 DEF Printed, Stored, IsPort
  <2>5. retired.a \in Byte /\ (point = 85 => retired.a = s)
    BY <1>3, <1>5, <1>8, <1>24 DEF MultiplyLoaded
  <2>6. retired'.out \in Seq(Byte) /\ Ends(retired'.out, retired.a)
    <3>1. Append(retired.out, retired.a) \in Seq(Byte)
      BY <1>2, <2>5
    <3>2. Ends(Append(retired.out, retired.a), retired.a)
      BY <1>2 DEF Ends
    <3> QED BY <2>4, <3>1, <3>2
  <2>7. Cell(Operand1)' = n /\ Cell(Operand2)' = k /\ Cell(Accumulator)' = s
    BY <2>4 DEF Cell, n, k, s
  <2>8. point + 1 \in MultiplyPoints
    BY <1>24 DEF MultiplyPoints
  <2>9. MultiplyLoaded(point + 1, retired'.a, retired'.b, retired'.c, retired'.f, n, k, s, x, y)
    BY <1>5, <1>8, <1>24, <2>3, NothingLoaded DEF Registers
  <2>10. MultiplyCells(point + 1, n, k, s, x, y)
    <3>1. CASE point = 56
      <4>1. n % 2 = 1 /\ Owed(s, (n - 1) * k, x, y)
        BY <1>6, <1>8, <3>1 DEF MultiplyCells
      <4>2. Owed(s, (n - (n % 2)) * k, x, y)
        BY <1>3, <4>1, OwedParity
      <4> QED BY <3>1, <4>2 DEF MultiplyCells
    <3>2. CASE point = 85
      BY <1>6, <1>8, <3>2, CellsStay
    <3> QED BY <1>24, <3>1, <3>2
  <2>11. Accumulator \in DOMAIN retired'.data
    BY <1>8, <1>24, <2>4 DEF MultiplyInv, MultiplyAt
  <2>12. point + 1 \in {86, 89} => Ends(retired'.out, s)
    BY <1>24, <2>5, <2>6
  <2>13. MultiplyAt(x, y)'
    BY <2>3, <2>7, <2>8, <2>9, <2>10, <2>11, <2>12 DEF MultiplyAt
  <2>14. /\ retired'.prog = Multiply8(x, y)
         /\ \A j \in {Operand1, Operand2, Accumulator} : Cell(j)' \in Byte
    BY <1>1, <1>3, <2>3, <2>7
  <2> QED BY <2>6, <2>13, <2>14 DEF MultiplyInv
<1> QED BY <1>8, <1>11, <1>12, <1>13, <1>14, <1>15, <1>16, <1>17, <1>18, <1>19, <1>20, <1>21,
           <1>22, <1>23, <1>24 DEF MultiplyPoints

-----------------------------------------------------------------------------
(* The reset, and the whole run.                                           *)

\* What the microcode register is switched on with may clobber a byte of data memory, but
\* writes nothing but the byte that it reads to program memory, and nothing to the port.
Harmless ==
  /\ On("upcrst")
  /\ On("wrp") => On("rdp") /\ On("pcoe") /\ ~On("ddir")
  /\ On("wrd") => ~IsPort(BC)

\* A zeroed structure is harmless.
LEMMA ZeroedHarmless == mcr = ActiveLow /\ b = 0 /\ c = 0 => Harmless
BY DEF Harmless, ActiveLow, On, BC, AddressOf, IsPort

ResetInv ==
  /\ phase = "reset1" => Harmless /\ pc = 0
  /\ phase = "reset2" => prog = retired.prog /\ out = retired.out

SampleInv == BranchInv \/ \E x, y \in Byte : MultiplyInv(x, y)

\* With the PC at zero the program address bus is at zero.
LEMMA ResetAddress ==
  ASSUME c \in Byte, b \in Byte, pc = 0, On("pcoe")
  PROVE  ProgramAddress = 0
<1>1. 0 \div 256 = 0 /\ 0 % 256 = 0 /\ 0 \in Byte
  BY DEF Byte
<1>2. \A y1 \in Byte : BitAnd(0, y1) = 0
  <2>1. \A y1 \in Byte : BitAnd(0, y1) \in Byte /\ BitAnd(0, y1) <= 0
    BY <1>1, BitAndByte, CommonBelow
  <2>2. \A j \in Byte : j <= 0 => j = 0
    BY DEF Byte
  <2> QED BY <2>1, <2>2
<1>3. BitAnd(pc \div 256, c) = 0 /\ BitAnd(pc % 256, b) = 0
  BY <1>1, <1>2
<1> QED BY <1>3 DEF ProgramAddress

\* The two programs have a byte at zero.
LEMMA SampleStarts ==
  ASSUME SampleInv
  PROVE  /\ retired.prog = [k \in DOMAIN retired.prog |-> retired.prog[k]]
         /\ 0 \in DOMAIN retired.prog
<1>1. CASE BranchInv
  BY <1>1 DEF BranchInv, BranchTest, Assemble
<1>2. CASE \E x, y \in Byte : MultiplyInv(x, y)
  BY <1>2 DEF MultiplyInv, Multiply8, Assemble
<1> QED BY <1>1, <1>2 DEF SampleInv

LEMMA ResetHarmless ==
  ASSUME IInv, InStep, ResetInv, SampleInv, ResetFirstClock
  PROVE  prog' = retired.prog /\ out' = retired.out
<1>1. Harmless /\ pc = 0 /\ retired = Architecture
  BY DEF ResetInv, ResetFirstClock, InStep
<1>2. retired.prog = prog /\ retired.out = out
  BY <1>1 DEF Architecture
<1>3. ClockRegisters
  BY DEF ResetFirstClock
<1>4. out' = out
  BY <1>1, <1>3 DEF ClockRegisters, Harmless, Printed
<1>5. prog' = prog
  <2>1. CASE ~On("wrp")
    BY <1>3, <2>1 DEF ClockRegisters
  <2>2. CASE On("wrp")
    <3>1. ProgramAddress = 0 /\ On("rdp") /\ ~On("ddir")
      BY <1>1, <2>2, ResetAddress DEF Harmless, IInv, TypeOK
    <3>2. 0 \in DOMAIN prog /\ prog = [k \in DOMAIN prog |-> prog[k]]
      BY <1>2, SampleStarts
    <3>3. ProgramData = prog[0]
      BY <3>1, <3>2 DEF ProgramData, FetchedByte, Driven, ReadProgram, Read
    <3>4. prog' = Write(prog, 0, prog[0])
      BY <1>3, <2>2, <3>1, <3>3 DEF ClockRegisters
    <3> QED BY <3>2, <3>4 DEF Write
  <2> QED BY <2>1, <2>2
<1> QED BY <1>2, <1>4, <1>5

\* The programs start at zero, where nothing is asked of the registers.
LEMMA SampleStart ==
  ASSUME SampleInv, retired.on = FALSE, retired'.on = TRUE, retired'.pc = 0,
         retired'.prog = retired.prog, retired'.out = retired.out, IsMemory(retired'.data)
  PROVE  SampleInv'
<1>1. CASE BranchInv
  <2>1. retired.prog = BranchTest /\ retired.out = << >>
    BY <1>1 DEF BranchInv
  <2>2. BranchCount(0, Len(<< >>)) /\ Counted(<< >>) /\ << >> \in Seq(Byte)
    BY DEF BranchCount, Counted
  <2>3. BranchLoaded(0, retired'.a, retired'.b, retired'.c, retired'.f) /\ 0 \in BranchPoints
    BY DEF BranchLoaded, BranchPoints
  <2>4. BranchAt'
    BY <2>1, <2>2, <2>3 DEF BranchAt
  <2> QED BY <2>1, <2>2, <2>4 DEF SampleInv, BranchInv
<1>2. ASSUME NEW x \in Byte, NEW y \in Byte, MultiplyInv(x, y) PROVE MultiplyInv(x, y)'
  <2>1. retired'.prog = Multiply8(x, y) /\ retired'.out \in Seq(Byte)
    BY <1>2 DEF MultiplyInv
  <2>2. \A k : Cell(k)' \in Byte
    BY DEF Cell, Read, IsMemory, Zeroed, Byte
  <2>3. \A n, k, s : /\ MultiplyLoaded(0, retired'.a, retired'.b, retired'.c, retired'.f, n, k, s, x, y)
                     /\ MultiplyCells(0, n, k, s, x, y)
    BY DEF MultiplyLoaded, MultiplyCells
  <2>4. 0 \in MultiplyPoints
    BY DEF MultiplyPoints
  <2>5. MultiplyAt(x, y)'
    BY <2>3, <2>4 DEF MultiplyAt
  <2> QED BY <2>1, <2>2, <2>5 DEF MultiplyInv
<1> QED BY <1>1, <1>2 DEF SampleInv

LEMMA SampleStays == SampleInv /\ retired' = retired => SampleInv'
BY DEF SampleInv, BranchInv, BranchAt, MultiplyInv, MultiplyAt, Cell

SamplePrograms == {BranchTest} \cup { Multiply8(x, y) : x, y \in Byte }

LEMMA InitSample ==
  ASSUME RetireInit, Harmless, Programs \subseteq SamplePrograms
  PROVE  ResetInv /\ SampleInv
<1>1. Init /\ retired = Architecture
  BY DEF RetireInit
<1>2. prog \in SamplePrograms /\ out = << >> /\ phase = "reset1" /\ pc = 0
      /\ data = [x \in {} |-> 0]
  BY <1>1 DEF Init
<1>3. /\ retired.prog = prog /\ retired.out = << >> /\ retired.on = FALSE
      /\ retired.data = [x \in {} |-> 0]
  BY <1>1, <1>2 DEF Architecture
<1>4. ResetInv
  BY <1>2 DEF ResetInv
<1>5. CASE prog = BranchTest
  <2>1. Counted(<< >>) /\ << >> \in Seq(Byte)
    BY DEF Counted
  <2> QED BY <1>3, <1>4, <1>5, <2>1 DEF SampleInv, BranchInv
<1>6. ASSUME NEW x \in Byte, NEW y \in Byte, prog = Multiply8(x, y) PROVE MultiplyInv(x, y)
  <2>1. \A k : Cell(k) \in Byte
    <3>1. \A k : k \notin DOMAIN retired.data
      BY <1>3
    <3> QED BY <3>1 DEF Cell, Read, Zeroed, Byte
  <2> QED BY <1>3, <1>6, <2>1 DEF MultiplyInv
<1> QED BY <1>2, <1>4, <1>5, <1>6 DEF SamplePrograms, SampleInv

LEMMA StepSample ==
  ASSUME RetireInv, ResetInv, SampleInv, [RetireNext]_retireVars
  PROVE  ResetInv' /\ SampleInv'
<1>1. IInv /\ InStep /\ RetireInv'
  BY StepMaps DEF RetireInv
<1>2. CASE RetireReset
  <2>1. phase' = "reset2" /\ retired' = retired /\ ResetFirstClock
    BY <1>2 DEF RetireReset, ResetFirstClock
  <2>2. prog' = retired.prog /\ out' = retired.out
    BY <1>1, <2>1, ResetHarmless
  <2> QED BY <2>1, <2>2, SampleStays DEF ResetInv
<1>3. CASE RetireStart
  <2>1. ResetSecondClock /\ retired' = Architecture' /\ phase' = "run"
    BY <1>3 DEF RetireStart, ResetSecondClock
  <2>2. pc' = 0 /\ prog' = prog /\ out' = out /\ retired.on = FALSE
    BY <1>1, <2>1, ResetSecond
  <2>3. prog = retired.prog /\ out = retired.out
    BY <2>1 DEF ResetInv, ResetSecondClock
  <2>4. IsMemory(data')
    BY <1>1 DEF RetireInv, IInv, TypeOK
  <2>5. /\ retired'.on = TRUE /\ retired'.pc = 0 /\ retired'.prog = retired.prog
        /\ retired'.out = retired.out /\ retired'.data = data'
    BY <2>1, <2>2, <2>3 DEF Architecture
  <2>6. SampleInv'
    BY <2>2, <2>4, <2>5, SampleStart
  <2> QED BY <2>1, <2>6 DEF ResetInv
<1>4. CASE RetireInstruction
  <2>1. Clock /\ Completes /\ retired' = Architecture' /\ phase = "run" /\ phase' = "run"
    BY <1>4 DEF RetireInstruction, Clock
  <2>2. Machine!Execute /\ retired.on = TRUE
    <3>1. /\ IInv /\ IInv' /\ InStep /\ Clock /\ Completes /\ retired' = Architecture'
          /\ phase = "run"
      BY <1>1, <2>1 DEF RetireInv
    <3>2. Machine!Execute
      BY ONLY <3>1, InstructionEnds
    <3> QED BY ONLY <3>1, <3>2 DEF InStep
  <2>3. retired'.on = TRUE
    BY <2>1 DEF Architecture
  <2>4. SampleInv'
    BY <2>2, <2>3, BranchStep, MultiplyStep DEF SampleInv
  <2> QED BY <2>1, <2>4 DEF ResetInv
<1>5. CASE RetireNothing
  <2>1. phase' = "run" /\ retired' = retired
    BY <1>5 DEF RetireNothing, Clock
  <2> QED BY <2>1, SampleStays DEF ResetInv
<1>6. CASE UNCHANGED retireVars
  <2>1. retired' = retired /\ (Harmless <=> Harmless') /\ phase' = phase /\ pc' = pc
        /\ prog' = prog /\ out' = out
    BY <1>6 DEF retireVars, vars, Harmless, On, BC
  <2> QED BY <2>1, SampleStays DEF ResetInv
<1> QED BY <1>2, <1>3, <1>4, <1>5, <1>6 DEF RetireNext

\* What the port has printed is what the completed instructions have printed.
LEMMA PrintedByRetired ==
  ASSUME RetireInv, ResetInv
  PROVE  prog = retired.prog /\ out = retired.out
<1>1. phase \in {"reset1", "reset2", "run"}
  BY DEF RetireInv, IInv, TypeOK
<1> QED BY <1>1 DEF RetireInv, InStep, Between, Architecture, ResetInv

(* The branch test prints 0, 1, 2, 3 and then only 4, on every computer    *)
(* that its own switching on does not overwrite.                           *)
THEOREM PrintsInOrderAlways ==
  ASSUME Programs \subseteq SamplePrograms
  PROVE  RetireSpec /\ Harmless => []PrintsInOrder
<1>1. RetireInit /\ Harmless => RetireInv /\ ResetInv /\ SampleInv
  BY InitInStep, InitSample DEF Harmless
<1>2. (RetireInv /\ ResetInv /\ SampleInv) /\ [RetireNext]_retireVars
        => (RetireInv /\ ResetInv /\ SampleInv)'
  BY StepMaps, StepSample
<1>3. RetireInv /\ ResetInv /\ SampleInv => PrintsInOrder
  <2> SUFFICES ASSUME RetireInv, ResetInv, SampleInv, prog = BranchTest
               PROVE  \A i \in 1 .. Len(out) : out[i] = IF i < 5 THEN i - 1 ELSE 4
    BY DEF PrintsInOrder, Branching
  <2>1. retired.prog = BranchTest /\ out = retired.out
    BY PrintedByRetired
  <2>2. ~ \E x, y \in Byte : MultiplyInv(x, y)
    <3>1. ASSUME NEW x, NEW y, MultiplyInv(x, y) PROVE FALSE
      <4>1. retired.prog = Multiply8(x, y)
        BY <3>1 DEF MultiplyInv
      <4>2. Code(0) = 252 /\ Code(0) = 240
        BY <2>1, <4>1, StartBytes, BranchBytes
      <4> QED BY <4>2
    <3> QED BY <3>1
  <2>3. Counted(retired.out)
    BY <2>2 DEF SampleInv, BranchInv
  <2> QED BY <2>1, <2>3 DEF Counted
<1> QED BY <1>1, <1>2, <1>3, PTL DEF RetireSpec

(* The multiplication multiplies, for all operands: when it has reached    *)
(* its end, it has printed the product modulo 256 last and left it in its  *)
(* accumulator.                                                            *)
THEOREM MultipliesAlways ==
  ASSUME Programs \subseteq SamplePrograms
  PROVE  RetireSpec /\ Harmless => []MultipliesModulo256
<1>1. RetireInit /\ Harmless => RetireInv /\ ResetInv /\ SampleInv
  BY InitInStep, InitSample DEF Harmless
<1>2. (RetireInv /\ ResetInv /\ SampleInv) /\ [RetireNext]_retireVars
        => (RetireInv /\ ResetInv /\ SampleInv)'
  BY StepMaps, StepSample
<1>3. RetireInv /\ ResetInv /\ SampleInv => MultipliesModulo256
  <2> SUFFICES ASSUME RetireInv, ResetInv, SampleInv, prog # BranchTest, AtEnd
               PROVE  out # << >> /\ out[Len(out)] = Product /\ data[Accumulator] = Product
    BY DEF MultipliesModulo256, Branching
  <2>1. phase = "run" /\ upc = 1 /\ pc = 86
    BY DEF AtEnd, HaltLoop
  <2>2. /\ prog = retired.prog /\ out = retired.out /\ data = retired.data
        /\ retired.pc = 86 /\ retired.on = TRUE
    BY <2>1 DEF RetireInv, InStep, Between
  <2>3. PICK x \in Byte, y \in Byte : MultiplyInv(x, y)
    BY <2>2 DEF SampleInv, BranchInv
  <2>4. retired.prog = Multiply8(x, y)
    BY <2>3 DEF MultiplyInv
  <2>5. Code(8) = x /\ Code(14) = y /\ 8 \in DOMAIN retired.prog /\ 14 \in DOMAIN retired.prog
    BY <2>4, StartBytes DEF Multiply8, Assemble
  <2>6. Product = (x * y) % 256
    BY <2>2, <2>5 DEF Product, Code, Read
  <2>7. /\ Accumulator \in DOMAIN data /\ Cell(Accumulator) = (x * y) % 256
        /\ Ends(out, Cell(Accumulator))
    BY <2>2, <2>3 DEF MultiplyInv, MultiplyAt, MultiplyCells
  <2> QED BY <2>2, <2>6, <2>7 DEF Ends, Cell, Read
<1> QED BY <1>1, <1>2, <1>3, PTL DEF RetireSpec

=============================================================================
