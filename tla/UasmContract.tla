---------------------------- MODULE UasmContract ----------------------------
(***************************************************************************)
(* What a microassembly source means, read off the whole file at once, and *)
(* what the microassembler promises of a source that is well formed.       *)
(***************************************************************************)
EXTENDS Microassembler, FiniteSets

-----------------------------------------------------------------------------
(* Comments.                                                               *)

\* The sources whose comments mean what they mean in C: no block comment opens
\* and closes on one line, and none ends behind the mark of a line comment.
PlainComments(file) ==
  \A i \in DOMAIN file :
    /\ ~(Has(file[i], Opening) /\ Has(file[i], Closing))
    /\ ~Has(After(file[i], Semicolon), Closing) /\ ~Has(After(file[i], Slashes), Closing)

\* A block comment that began on an earlier line and has not ended.
Inside(file, i) ==
  \E j \in 1 .. i - 1 :
    /\ Place(file[j], Opening) <= Len(file[j])
    /\ Place(file[j], Opening) < Place(file[j], Semicolon)
    /\ Place(file[j], Opening) < Place(file[j], Slashes)
    /\ \A k \in j + 1 .. i - 1 : ~Has(file[k], Closing)

CodeOf(file, i) ==
  LET rest == IF ~Inside(file, i) THEN file[i] ELSE After(file[i], Closing)
  IN  SubSeq(rest, 1, Min({ Place(rest, mark) : mark \in {Semicolon, Slashes, Opening} }) - 1)

IsBlank(file, i) == CodeOf(file, i) = << >>
\* The lines that hold code, and the number of each among them.
CodeLines(file) == { i \in DOMAIN file : ~IsBlank(file, i) }
Rank(file, i) == Cardinality({ j \in CodeLines(file) : j <= i })

\* The code of the file, line by line.  TLC evaluates a concatenation only once.
Code(file) ==
  LET kept == CodeLines(file)
  IN  << >> \o [n \in 1 .. Cardinality(kept) |->
         CodeOf(file, CHOOSE i \in kept : Cardinality({ j \in kept : j <= i }) = n)]

(* After its first loops the program has the code of a file of plain       *)
(* comments, every line of it in its place and nothing else: what          *)
(* removeCommentsAndWhitespace and removeEmptyLines do.                    *)
LinesAreCode ==
  stage = "size" /\ at = 1 /\ PlainComments(source) =>
    /\ Len(lines) = Cardinality(CodeLines(source))
    /\ \A i \in CodeLines(source) : lines[Rank(source, i)] = CodeOf(source, i)

-----------------------------------------------------------------------------
(* The meaning of the lines of code.                                       *)

Keyword(code, k) == CHOOSE i \in DOMAIN code : IsA(code[i], k)
Once(code, k) == \E i \in DOMAIN code : \A j \in DOMAIN code : IsA(code[j], k) <=> j = i
Number(code, k) == ValueOf(code[Keyword(code, k)][2])

Directives == Parameters \cup {"FILL", "VERSION"}
IsDirective(line) == \E k \in Directives : IsA(line, k)

\* The lines of bits, in ROMS, and those of opcodes, in ASM.
BitLines(code) ==
  { i \in Keyword(code, "ROMS") + 1 .. Keyword(code, "ASM") - 1 : StartsWithDigit(code[i]) }
OpcodeLines(code) ==
  { i \in Keyword(code, "ASM") + 1 .. Len(code) : StartsWithDigit(code[i]) }
WordLines(code) ==
  { i \in Keyword(code, "ASM") + 1 .. Len(code) :
      ~StartsWithDigit(code[i]) /\ ~IsDirective(code[i]) }

\* The line among the given ones under which line i stands.
Heading(headings, i) == Max({0} \cup { j \in headings : j < i })
RomLines(code) == { i \in DOMAIN code : IsA(code[i], "ROM") }
PositionOf(code, i) ==
  << ValueOf(code[Heading(RomLines(code), i)][2]) - 1, ValueOf(code[i][1]) >>
IsBarred(code, i) == code[i][2] \in DOMAIN Barred
NameOf(code, i) == IF IsBarred(code, i) THEN Barred[code[i][2]] ELSE code[i][2]

WordsUnder(code, h) ==
  LET opcodes == OpcodeLines(code)
  IN  { i \in WordLines(code) : Heading(opcodes, i) = h }
Names(line) == { line[l] : l \in DOMAIN line }

WellFormedBits(code) ==
  /\ \A i \in BitLines(code) :
       Len(code[i]) > 1 /\ Heading(RomLines(code), i) > Keyword(code, "ROMS")
  /\ { PositionOf(code, i) : i \in BitLines(code) } =
       (0 .. Number(code, "ROMS") - 1) \X (0 .. Number(code, "WIDTH") - 1)
  /\ \A i, j \in BitLines(code) :
       i # j => PositionOf(code, i) # PositionOf(code, j) /\ NameOf(code, i) # NameOf(code, j)

WellFormedWords(code) ==
  LET names == { NameOf(code, i) : i \in BitLines(code) }
  IN  /\ Names(Tail(code[Keyword(code, "FILL")])) \subseteq names
      /\ \A i \in WordLines(code) :
           Names(code[i]) \subseteq names /\ Heading(OpcodeLines(code), i) # 0
      /\ \A h \in OpcodeLines(code) :
           /\ ValueOf(code[h][1]) < Number(code, "ASM")
           /\ Cardinality(WordsUnder(code, h)) <= Number(code, "DEPTH")
           /\ \A g \in OpcodeLines(code) : g # h => ValueOf(code[g][1]) # ValueOf(code[h][1])

\* A source as the ones that there are: sizes and fill once, the sizes before
\* ASM and the version, a number alone, before ROMS, every bit of every ROM with
\* a name of its own, and every opcode once.  And it has a blank line or a comment.
\* The text allows a version behind ROMS as well, which the program takes for the
\* line of a bit or an opcode.  Numbers of ROMs and bits fit in a char.
WellFormed(file) ==
  LET code == Code(file)
  IN  /\ PlainComments(file)
      /\ \E i \in DOMAIN file : IsBlank(file, i)
      /\ \A k \in Parameters : Once(code, k) /\ Number(code, k) > 0
      /\ Number(code, "ROMS") <= 128 /\ Number(code, "WIDTH") <= 128
      /\ Once(code, "FILL")
      /\ \A k \in Parameters : Keyword(code, k) <= Keyword(code, "ASM")
      /\ \A i \in DOMAIN code :
           IsA(code[i], "VERSION") => Len(code[i]) = 2 /\ i < Keyword(code, "ROMS")
      /\ WellFormedBits(code)
      /\ WellFormedWords(code)

\* The names that the word at this offset of the opcode asserts.
Asserted(code, op, k) ==
  LET headings == { h \in OpcodeLines(code) : ValueOf(code[h][1]) = op }
      under == UNION { WordsUnder(code, h) : h \in headings }
      words == { i \in under : Cardinality({ j \in under : j < i }) = k }
  IN  IF words = {} THEN Names(Tail(code[Keyword(code, "FILL")]))
      ELSE Names(code[CHOOSE i \in words : TRUE])

\* A bit is high where its signal is asserted and not barred, or the reverse.
Meaning(code) ==
  LET depth == Number(code, "DEPTH")
      High(r, asserted) ==
        { PositionOf(code, i)[2] : i \in { i \in BitLines(code) :
            /\ PositionOf(code, i)[1] = r
            /\ (NameOf(code, i) \in asserted) # IsBarred(code, i) } }
  IN  [r \in 0 .. Number(code, "ROMS") - 1 |->
        [address \in 0 .. (Number(code, "ASM") * depth) - 1 |->
           High(r, Asserted(code, address \div depth, address % depth))]]

(* The images of a well-formed source hold what it says, bit for bit: every *)
(* word under its own opcode, the fill behind it, and every signal at the  *)
(* bit and with the polarity of its name.                                  *)
ImagesMeanSource ==
  stage = "done" /\ WellFormed(source) => images = Meaning(Code(source))

(* A well-formed source is assembled: no line of it makes the program stop. *)
Assembles ==
  (stage = "strip" /\ at = 1 /\ WellFormed(source)) ~> stage = "done"

=============================================================================
