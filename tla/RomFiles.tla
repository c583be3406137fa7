------------------------------ MODULE RomFiles ------------------------------
(***************************************************************************)
(* How an image gets from the microassembler into a ROM: as text in hex,   *)
(* through hex2mem, to the emulator; and as text in hex or in binary,      *)
(* through the Intel HEX generator, to a device programmer.                *)
(*                                                                         *)
(* A character is a hexadecimal digit, 0 to 15, or a separator.  A file is *)
(* a sequence of lines, which do not hold their newlines.                  *)
(***************************************************************************)
EXTENDS Integers, Sequences, SequencesExt, FiniteSetsExt

Space == 16
Newline == 17
IsDigit(c) == c < 16

\* What a filter leaves: the elements at the places it keeps, in their order.
Chosen(seq, places) ==
  LET upTo[i \in 0 .. Len(seq)] ==
        IF i = 0 THEN << >>
        ELSE IF i \in places THEN Append(upTo[i - 1], seq[i]) ELSE upTo[i - 1]
  IN  upTo[Len(seq)]
DigitPlaces(chars) == { i \in DOMAIN chars : IsDigit(chars[i]) }

SumOf(numbers) == MapThenSumSet(LAMBDA i : numbers[i], DOMAIN numbers)
Number8(bits) == MapThenSumSet(LAMBDA b : 2 ^ b, bits)

-----------------------------------------------------------------------------
(* The microassembler's formats, for ROMs of eight bits.                   *)

WordsOf(image, opcodes, depth) ==
  [op \in 1 .. opcodes |-> [k \in 1 .. depth |-> image[((op - 1) * depth) + k - 1]]]

HexWord(bits) == << Number8(bits) \div 16, Number8(bits) % 16, Space >>
BinWord(bits) == [i \in 1 .. 9 |-> IF i = 9 THEN Space ELSE IF 8 - i \in bits THEN 1 ELSE 0]

HexText(image, opcodes, depth) ==
  [op \in 1 .. opcodes |->
     FlattenSeq([k \in 1 .. depth |-> HexWord(WordsOf(image, opcodes, depth)[op][k])])]
BinText(image, opcodes, depth) ==
  [op \in 1 .. opcodes |->
     FlattenSeq([k \in 1 .. depth |-> BinWord(WordsOf(image, opcodes, depth)[op][k])])]

-----------------------------------------------------------------------------
(* hex2mem and the emulator's reader.                                      *)

Characters(text) == FlattenSeq([i \in DOMAIN text |-> Append(text[i], Newline)])

\* Mutant: every separator ends a token, also behind another one.
Hex2memKeepsEmpties(text) ==
  LET chars == Characters(text)
  IN  [i \in DOMAIN chars |-> IF IsDigit(chars[i]) THEN chars[i] ELSE Newline]

\* One token to a line: of several separators in a row, one is left.
Hex2mem(text) ==
  LET chars == Characters(text)
      digits == DigitPlaces(chars)
      kept == Chosen(chars, { i \in DOMAIN chars : i \in digits \/ i - 1 \in digits })
  IN  [i \in DOMAIN kept |-> IF IsDigit(kept[i]) THEN kept[i] ELSE Newline]

\* Three characters to a byte, as long as both file and buffer last.
ReadMem(buffer, chars) ==
  [i \in DOMAIN buffer |->
     IF (3 * i) + 2 <= Len(chars)
     THEN ((16 * chars[(3 * i) + 1]) + chars[(3 * i) + 2]) % 256
     ELSE buffer[i]]

-----------------------------------------------------------------------------
(* The Intel HEX generator.                                                *)

Condensed(line) == Chosen(line, DigitPlaces(line))

\* The bits of a line by fours; the last ones are repeated to fill up a digit.
Nibbles(line) ==
  LET bit(i) == IF i <= Len(line) THEN line[i] ELSE line[Len(line)]
  IN  [n \in 1 .. ((Len(line) + 3) \div 4) |->
         (8 * bit((4 * n) - 3)) + (4 * bit((4 * n) - 2)) + (2 * bit((4 * n) - 1)) + bit(4 * n)]

\* An odd digit at the end of a line is dropped.
BytesOf(digits) ==
  [i \in 1 .. (Len(digits) \div 2) |-> (16 * digits[(2 * i) - 1]) + digits[2 * i]]

\* The address of a line: the bytes of the lines before it.
AddressOfLine(data, n) == SumOf([i \in 1 .. n - 1 |-> Len(data[i])])

\* Mutant: the checksum is the complement to one.
CheckInverted(bytes) == 255 - (SumOf(bytes) % 256)
Check(bytes) == (256 - (SumOf(bytes) % 256)) % 256

\* The number of bytes, the address, the type and the data, then the checksum.
HexRecord(address, data) ==
  LET bytes == << Len(data) % 256, (address \div 256) % 256, address % 256, 0 >> \o data
  IN  Append(bytes, Check(bytes))

EndRecord == << 0, 0, 0, 1, 255 >>

IntelHex(base, text) ==
  LET condensed == [i \in DOMAIN text |-> Condensed(text[i])]
      data == [i \in DOMAIN text |->
                 IF condensed[i] = << >> THEN << >>
                 ELSE BytesOf(IF base = 2 THEN Nibbles(condensed[i]) ELSE condensed[i])]
      written == Chosen([i \in DOMAIN text |-> i], { i \in DOMAIN text : condensed[i] # << >> })
  IN  Append([n \in DOMAIN written |->
                HexRecord(AddressOfLine(data, written[n]), data[written[n]])], EndRecord)

-----------------------------------------------------------------------------
(* What a device programmer does with an Intel HEX file.                   *)

IsRecord(bytes) ==
  /\ Len(bytes) = bytes[1] + 5
  /\ SumOf(bytes) % 256 = 0

Programmed(records, erased) ==
  LET first(r) == (256 * r[2]) + r[3]
      holds(r, address) == r[4] = 0 /\ address \in first(r) .. first(r) + r[1] - 1
  IN  [address \in DOMAIN erased |->
         IF \E n \in DOMAIN records : IsRecord(records[n]) /\ holds(records[n], address)
         THEN LET r == records[CHOOSE n \in DOMAIN records :
                                 IsRecord(records[n]) /\ holds(records[n], address)]
              IN  r[5 + address - first(r)]
         ELSE erased[address]]

=============================================================================
