------------------------------- MODULE Memory -------------------------------
(***************************************************************************)
(* The two 64 KiB memories of the computer.  A memory is kept as a         *)
(* function on the addresses that hold something of their own; every other *)
(* address still has the erased value.                                     *)
(***************************************************************************)
EXTENDS Bytes, Sequences

\* What program memory holds past the end of the program file.
Erased == 255

\* Data memory is zeroed static storage.
Zeroed == 0

Read(memory, address, erased) ==
  IF address \in DOMAIN memory THEN memory[address] ELSE erased

Write(memory, address, byte) ==
  [x \in DOMAIN memory \cup {address} |-> IF x = address THEN byte ELSE memory[x]]

IsMemory(memory) ==
  /\ DOMAIN memory \subseteq Address
  /\ memory \in [DOMAIN memory -> Byte]

\* The upper half of the data addresses is the output port: a write there is
\* printed and not stored.
IsPort(address) == address >= 32768

Stored(data, address, byte) ==
  IF IsPort(address) THEN data ELSE Write(data, address, byte)
Printed(out, address, byte) ==
  IF IsPort(address) THEN Append(out, byte) ELSE out

\* The address that the registers C and B form.
AddressOf(high, low) == (256 * high) + low

=============================================================================
