------------------------------ MODULE Emulator ------------------------------
(***************************************************************************)
(* The clock-level emulator of the computer.  One step of Next is one call *)
(* of microcomp_emulator_clock: two of them inside the reset, then one per *)
(* iteration of the do-while loop of microcomp_emulator_step, which main   *)
(* calls a fixed number of times.                                          *)
(***************************************************************************)
EXTENDS Alu, Memory, Microcode

CONSTANTS
  Programs,    \* the program images: functions from some addresses to bytes
  PowerOn,     \* what the uninitialised machine structure may hold
  StepCalls    \* the number of times main calls step

ASSUME ProgramsAssumption == \A image \in Programs : IsMemory(image)
ASSUME PowerOnAssumption ==
  \A r \in PowerOn : /\ r.a \in Byte /\ r.b \in Byte /\ r.c \in Byte
                     /\ r.f \in Byte /\ r.ir \in Byte /\ r.mcr \subseteq Signals
ASSUME StepCallsAssumption == StepCalls \in Nat

VARIABLES
  a, b, c, f,  \* the registers; f holds the flags
  ir,          \* the instruction register
  pc,          \* the program counter
  upc,         \* the microprogram counter
  mcr,         \* the microcode register, as the signals it asserts
  prog, data,  \* the two memories, at the addresses that were written
  out,         \* the bytes written to the output port, oldest first
  phase,       \* where main is: the two clocks of the reset, then the run
  steps        \* how many calls of step have returned

registers == << a, b, c, f, ir, mcr >>
vars == << a, b, c, f, ir, pc, upc, mcr, prog, data, out, phase, steps >>

On(signal) == signal \in mcr

-----------------------------------------------------------------------------
ReadProgram(address) == Read(prog, address, Erased)
ReadData(address)    == Read(data, address, Zeroed)

-----------------------------------------------------------------------------
(* The buses.  They float high and every asserted driver pulls bits down.  *)

Driven(signal, byte) == IF On(signal) THEN byte ELSE 255

BC == AddressOf(c, b)

\* Mutant: C and B never reach the program address bus.
ProgramAddressPcOnly == IF On("pcoe") THEN pc ELSE 65535

ProgramAddress ==
  CASE On("pcoe") /\ On("bcoe") ->
         (256 * BitAnd(pc \div 256, c)) + BitAnd(pc % 256, b)
    [] On("pcoe") /\ ~On("bcoe") -> pc
    [] ~On("pcoe") /\ On("bcoe") -> BC
    [] OTHER -> 65535

FetchedByte == Driven("rdp", ReadProgram(ProgramAddress))

Alu8 == AluResult(ir, a, b, f)

DataBus ==
  LET memoryRead == BitAnd(Driven("rdd", ReadData(BC)),
                           IF On("dtoe") /\ ~On("ddir") THEN FetchedByte ELSE 255)
      general    == BitAnd(BitAnd(Driven("coe", c), Driven("aoe", a)),
                           BitAnd(Driven("boe", b), Driven("foe", f)))
      arithmetic == BitAnd(Driven("ashoe", Shifted(a, f)), Driven("aluoe", Alu8))
  IN  BitAnd(memoryRead, BitAnd(general, arithmetic))

ProgramData ==
  IF On("dtoe") /\ On("ddir") THEN BitAnd(FetchedByte, DataBus) ELSE FetchedByte

-----------------------------------------------------------------------------
(* One clock.  Every right-hand side reads the machine before the clock,   *)
(* but the next microcode word is looked up with the new instruction.      *)

Latch(clk, old) == IF On(clk) THEN DataBus ELSE old

NextF ==
  IF On("fclk") /\ On("fsors") THEN AluFlags(ir, a, b, f) ELSE Latch("fclk", f)

NextPc ==
  CASE On("pcck") /\ ~On("jmp") -> (pc + 1) % 65536
    [] On("pcck") /\ On("jmp") /\ BranchTaken(ir, f) -> BC
    [] OTHER -> pc

\* Mutant: a microprogram counter that is never reset.
NextUpcNoReset == (upc + 1) % 256

NextUpc == IF On("upcrst") THEN 0 ELSE (upc + 1) % 256

\* The ROMs are addressed by the opcode or-ed with the microprogram counter.
MicrocodeAt(opcode, counter) ==
  RomWord(BitOr(opcode, counter \div 16) % 64, counter % 16)

\* All that a clock does but the two counters and the loop around it.
ClockRegisters ==
  /\ a' = Latch("aclk", a)
  /\ b' = Latch("bclk", b)
  /\ c' = Latch("cclk", c)
  /\ f' = NextF
  /\ ir' = IF upc = 0 THEN ProgramData ELSE ir
  /\ mcr' = MicrocodeAt(ir' \div 4, upc)
  /\ prog' = IF On("wrp") THEN Write(prog, ProgramAddress, ProgramData) ELSE prog
  /\ data' = IF On("wrd") THEN Stored(data, BC, DataBus) ELSE data
  /\ out' = IF On("wrd") THEN Printed(out, BC, DataBus) ELSE out

\* The machine structure is on main's stack and only the counters are set.
Init ==
  /\ \E r \in PowerOn : /\ a = r.a /\ b = r.b /\ c = r.c /\ f = r.f
                        /\ ir = r.ir /\ mcr = r.mcr
  /\ prog \in Programs
  /\ data = [x \in {} |-> 0]
  /\ out = << >>
  /\ pc = 0 /\ upc = 0
  /\ phase = "reset1"
  /\ steps = 0

\* The reset's first clock, with whatever the microcode register held.
ResetFirstClock ==
  /\ phase = "reset1"
  /\ ClockRegisters
  /\ pc' = NextPc /\ upc' = NextUpc
  /\ phase' = "reset2"
  /\ UNCHANGED steps

\* The reset's second clock, after which the counters are cleared again.
ResetSecondClock ==
  /\ phase = "reset2"
  /\ ClockRegisters
  /\ pc' = 0 /\ upc' = 0
  /\ phase' = "run"
  /\ UNCHANGED steps

\* Mutant: main's loop runs once too often.
ClockOnceMore ==
  /\ phase = "run" /\ steps <= StepCalls
  /\ ClockRegisters
  /\ pc' = NextPc /\ upc' = NextUpc
  /\ steps' = IF NextUpc = 0 THEN steps + 1 ELSE steps
  /\ UNCHANGED phase

\* One iteration of step's loop, which returns when the counter is zero.
Clock ==
  /\ phase = "run" /\ steps < StepCalls
  /\ ClockRegisters
  /\ pc' = NextPc /\ upc' = NextUpc
  /\ steps' = IF NextUpc = 0 THEN steps + 1 ELSE steps
  /\ UNCHANGED phase

Next == ResetFirstClock \/ ResetSecondClock \/ Clock

Spec == Init /\ [][Next]_vars /\ WF_vars(Next)

-----------------------------------------------------------------------------
(* The types of the machine's state.                                       *)
TypeOK ==
  /\ a \in Byte /\ b \in Byte /\ c \in Byte /\ f \in Byte /\ ir \in Byte
  /\ pc \in Address /\ upc \in Byte /\ mcr \subseteq Signals
  /\ IsMemory(prog) /\ IsMemory(data) /\ out \in Seq(Byte)
  /\ phase \in {"reset1", "reset2", "run"} /\ steps \in 0 .. StepCalls

(* The sequencer: what the microcode register holds at every count.  While *)
(* the counter is not zero the register holds the word just before it of   *)
(* the instruction register's opcode, so a microprogram is always run from *)
(* its first word to its last and the counter never strays into the bits   *)
(* of the ROM address that belong to the opcode.  At zero it can only read *)
(* an instruction.  This holds whatever the microcode register held when   *)
(* the machine was switched on.                                            *)
Sequenced ==
  /\ phase = "reset1" => upc = 0
  /\ phase = "reset2" => upc \in {0, 1} /\ mcr = RomWord(ir \div 4, 0)
  /\ phase = "run" /\ upc = 0 => mcr \subseteq {"rdp", "pcoe", "pcck", "upcrst"}
  /\ phase = "run" /\ upc # 0 => /\ upc \in 1 .. Len(Uops(ir \div 4))
                                /\ mcr = RomWord(ir \div 4, upc - 1)

DataDrivers ==
  { s \in {"rdd", "coe", "aoe", "ashoe", "foe", "aluoe", "boe"} : On(s) }
    \cup (IF On("dtoe") /\ ~On("ddir") THEN {"dtoe"} ELSE {})
AddressDrivers == { s \in {"pcoe", "bcoe"} : On(s) }
ProgramDrivers ==
  { s \in {"rdp"} : On(s) } \cup (IF On("dtoe") /\ On("ddir") THEN {"dtoe"} ELSE {})

AtMostOne(S) == \A s, t \in S : s = t

(* After the first clock of the reset no bus of the computer ever has two  *)
(* drivers (the emulator would silently and the values together, the TTL   *)
(* chips would fight), and nothing is latched or stored from a bus that    *)
(* floats: a clocked register, a store or a taken word has its one driver. *)
BusesDriven ==
  phase # "reset1" =>
    /\ AtMostOne(DataDrivers) /\ AtMostOne(AddressDrivers) /\ AtMostOne(ProgramDrivers)
    /\ (On("aclk") \/ On("bclk") \/ On("cclk") \/ On("wrd")
          \/ (On("fclk") /\ ~On("fsors"))) => DataDrivers # {}
    /\ (On("rdp") \/ On("wrp")) => AddressDrivers # {}
    /\ (On("wrp") \/ upc = 0) => ProgramDrivers # {}

(* Once the reset is over, program memory changes only while STP is in the *)
(* instruction register, and then only at the address in C and B.          *)
ProgramStoredBySTP ==
  [][phase = "run" /\ prog' # prog =>
       /\ ir \div 4 \in {26, 27}
       /\ prog' = Write(prog, BC, IF ir \div 4 = 26 THEN f ELSE a)]_vars

=============================================================================
