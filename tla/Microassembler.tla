--------------------------- MODULE Microassembler ---------------------------
(***************************************************************************)
(* The microassembler, from a source file to the ROM images.  A line is    *)
(* the sequence of its tokens: the marks of comments, numerals and names.  *)
(* The lines of the file that hold nothing at all are not there any more   *)
(* (strtok drops them); those of white space are empty sequences.          *)
(***************************************************************************)
EXTENDS Integers, Sequences, FiniteSetsExt

CONSTANTS
  Sources,   \* the source files
  Numerals,  \* the tokens that begin with a digit, with their values
  Barred     \* the tokens that begin with "!", with the names they hold

ASSUME SourcesAssumption == Sources \subseteq Seq(Seq(STRING))
ASSUME NumeralsAssumption == \A t \in DOMAIN Numerals : Numerals[t] \in Nat
ASSUME KeywordsAssumption ==
  {"ASM", "ROMS", "WIDTH", "DEPTH", "ROM", "FILL", "VERSION"} \cap DOMAIN Numerals = {}
ASSUME BarredAssumption == \A t \in DOMAIN Barred : Barred[t] \in STRING

VARIABLES
  source,     \* the file
  stage,      \* which loop of the program is running, or how it ended
  at,         \* the line that loop is at
  lines,      \* what is left of the lines
  inComment,  \* blockComment
  sizes,      \* what ROMS, WIDTH, DEPTH and ASM say; zero for nothing yet
  roms,       \* the name and the polarity of every bit
  asm,        \* the words of every opcode, their number, and the fill
  cursor,     \* the section that is being parsed, and where in it
  images      \* for every ROM, the bits that are high at every address

vars == << source, stage, at, lines, inComment, sizes, roms, asm, cursor, images >>
parsed == << sizes, roms, asm, cursor, images >>

\* The marks of comments.
Semicolon == ";"
Slashes == "//"
Opening == "/*"
Closing == "*/"

Unnamed == "NULL"
Parameters == {"ASM", "ROMS", "WIDTH", "DEPTH"}
Loops == {"strip", "squish", "measure", "size", "allocate", "parse", "generate"}
Ends == {"done", "failed"}

Roms == 0 .. sizes["ROMS"] - 1
Bits == 0 .. sizes["WIDTH"] - 1
Opcodes == 0 .. sizes["ASM"] - 1
Offsets == 0 .. sizes["DEPTH"] - 1

-----------------------------------------------------------------------------
(* Tokens and lines.                                                       *)

Has(line, mark) == \E i \in DOMAIN line : line[i] = mark
Place(line, mark) == Min({ i \in DOMAIN line : line[i] = mark } \cup {Len(line) + 1})
Before(line, mark) == SubSeq(line, 1, Place(line, mark) - 1)
After(line, mark) == SubSeq(line, Place(line, mark) + 1, Len(line))

\* A keyword counts only with something behind it.
IsA(line, keyword) == Len(line) > 1 /\ line[1] = keyword

StartsWithDigit(line) == line # << >> /\ line[1] \in DOMAIN Numerals
ValueOf(token) == IF token \in DOMAIN Numerals THEN Numerals[token] ELSE 0

Blank(i) == [lines EXCEPT ![i] = << >>]

\* Mutant: a loop goes one line too far.
OnwardPastEnd(next) ==
  IF at <= Len(lines) THEN at' = at + 1 /\ UNCHANGED stage
                      ELSE at' = 1 /\ stage' = next

\* The loop is done with this line.
Onward(next) ==
  IF at < Len(lines) THEN at' = at + 1 /\ UNCHANGED stage
                     ELSE at' = 1 /\ stage' = next

Fail == stage' = "failed" /\ at' = 1

-----------------------------------------------------------------------------
Init ==
  /\ source \in Sources /\ lines = source
  /\ stage = (IF source = << >> THEN "failed" ELSE "strip") /\ at = 1
  /\ inComment = FALSE
  /\ sizes = [p \in Parameters |-> 0]
  /\ roms = [bits |-> << >>, invert |-> << >>]
  /\ asm = [words |-> << >>, length |-> << >>, fill |-> << >>, filled |-> FALSE]
  /\ cursor = [mode |-> "none", rom |-> 0, op |-> 0, uop |-> 0]
  /\ images = << >>

-----------------------------------------------------------------------------
(* removeCommentsAndWhitespace, one line at a time.                        *)

\* Mutant: an open block comment is forgotten at the end of the line.
StripForgets ==
  /\ stage = "strip"
  /\ lines' = [lines EXCEPT ![at] = Before(Before(Before(@, Semicolon), Slashes), Opening)]
  /\ Onward("squish")
  /\ UNCHANGED << source, inComment, parsed >>

Strip ==
  /\ stage = "strip"
  /\ LET text == Before(Before(lines[at], Semicolon), Slashes)
     IN  \/ /\ ~inComment /\ inComment' = Has(text, Opening)
            /\ lines' = [lines EXCEPT ![at] = Before(text, Opening)]
         \/ /\ inComment /\ Has(text, Closing) /\ inComment' = FALSE
            /\ lines' = [lines EXCEPT ![at] = After(text, Closing)]
         \/ /\ inComment /\ ~Has(text, Closing) /\ lines' = Blank(at)
            /\ UNCHANGED inComment
  /\ Onward("squish")
  /\ UNCHANGED << source, parsed >>

-----------------------------------------------------------------------------
(* removeEmptyLines.                                                       *)

Squish ==
  /\ stage = "squish"
  /\ LET later == { j \in at + 1 .. Len(lines) : lines[j] # << >> }
     IN  lines' = IF lines[at] # << >> \/ later = {} THEN lines
                  ELSE [lines EXCEPT ![at] = lines[Min(later)], ![Min(later)] = << >>]
  /\ Onward("measure")
  /\ UNCHANGED << source, inComment, parsed >>

Empties == { i \in DOMAIN lines : lines[i] = << >> }

Measure ==
  /\ stage = "measure" /\ Empties # {}
  /\ lines' = SubSeq(lines, 1, Min(Empties) - 1)
  /\ IF lines' = << >> THEN Fail ELSE stage' = "size" /\ at' = 1
  /\ UNCHANGED << source, inComment, parsed >>

\* The scan for the first empty line runs over the end of the array.  Most of
\* the time it meets no address there; it may also find an empty line at once.
MeasureOverrun ==
  /\ stage = "measure" /\ Empties = {}
  /\ Fail \/ (stage' = "size" /\ at' = 1)
  /\ UNCHANGED << source, inComment, lines, parsed >>

-----------------------------------------------------------------------------
(* parseUasm, first pass.                                                  *)

\* Mutant: the lines of WIDTH and DEPTH keep their numbers.
TakeSizeKeeps ==
  /\ stage = "size"
  /\ \E p \in Parameters :
       /\ IsA(lines[at], p)
       /\ sizes' = [sizes EXCEPT ![p] = ValueOf(lines[at][2])]
       /\ lines' = IF p \in {"WIDTH", "DEPTH"} THEN [lines EXCEPT ![at] = Tail(@)] ELSE lines
       /\ IF sizes'[p] > 0 THEN Onward("allocate") ELSE Fail
  /\ UNCHANGED << source, inComment, roms, asm, cursor, images >>

\* The lines of WIDTH and DEPTH are emptied, so as not to be parsed again.
TakeSize ==
  /\ stage = "size"
  /\ \E p \in Parameters :
       /\ IsA(lines[at], p)
       /\ sizes' = [sizes EXCEPT ![p] = ValueOf(lines[at][2])]
       /\ lines' = IF p \in {"WIDTH", "DEPTH"} THEN Blank(at) ELSE lines
       /\ IF sizes'[p] > 0 THEN Onward("allocate") ELSE Fail
  /\ UNCHANGED << source, inComment, roms, asm, cursor, images >>

\* Of the line of VERSION the number is left.
TakeVersion ==
  /\ stage = "size" /\ IsA(lines[at], "VERSION")
  /\ lines' = [lines EXCEPT ![at] = Tail(@)]
  /\ Onward("allocate")
  /\ UNCHANGED << source, inComment, parsed >>

PassOver ==
  /\ stage = "size"
  /\ \A p \in Parameters \cup {"VERSION"} : ~IsA(lines[at], p)
  /\ Onward("allocate")
  /\ UNCHANGED << source, inComment, lines, parsed >>

\* A size that the source does not give is a number nobody wrote; tables of
\* such a size cannot be had or are overrun.
Allocate ==
  /\ stage = "allocate"
  /\ IF \A p \in Parameters : sizes[p] > 0
     THEN /\ roms' = [bits   |-> [r \in Roms |-> [b \in Bits |-> Unnamed]],
                      invert |-> [r \in Roms |-> [b \in Bits |-> FALSE]]]
          /\ asm' = [asm EXCEPT !.words = [op \in Opcodes |-> [k \in Offsets |-> << >>]],
                                !.length = [op \in Opcodes |-> 0]]
          /\ stage' = "parse" /\ at' = 1
     ELSE Fail /\ UNCHANGED << roms, asm >>
  /\ UNCHANGED << source, lines, inComment, sizes, cursor, images >>

-----------------------------------------------------------------------------
(* parseUasm, second pass.                                                 *)

Line == lines[at]
IsSection == IsA(Line, "ROMS") \/ IsA(Line, "ASM")
Parses(mode) ==
  stage = "parse" /\ ~IsSection /\ ~IsA(Line, "FILL") /\ cursor.mode = mode

StartSection ==
  /\ stage = "parse" /\ IsSection
  /\ cursor' = [cursor EXCEPT !.mode = IF IsA(Line, "ROMS") THEN "rom" ELSE "asm"]
  /\ Onward("generate")
  /\ UNCHANGED << source, lines, inComment, sizes, roms, asm, images >>

TakeFill ==
  /\ stage = "parse" /\ IsA(Line, "FILL")
  /\ asm' = [asm EXCEPT !.fill = Tail(Line), !.filled = TRUE]
  /\ Onward("generate")
  /\ UNCHANGED << source, lines, inComment, sizes, roms, cursor, images >>

\* Before the first section, and what is neither a ROM nor a bit in ROMS.
Ignore ==
  /\ \/ Parses("none")
     \/ Parses("rom") /\ ~IsA(Line, "ROM") /\ ~StartsWithDigit(Line)
  /\ Onward("generate")
  /\ UNCHANGED << source, lines, inComment, parsed >>

StartRom ==
  /\ Parses("rom") /\ IsA(Line, "ROM")
  /\ cursor' = [cursor EXCEPT !.rom = ValueOf(Line[2]) - 1]
  /\ Onward("generate")
  /\ UNCHANGED << source, lines, inComment, sizes, roms, asm, images >>

Bit == ValueOf(Line[1])
Mark == IF Len(Line) = 1 THEN "" ELSE Line[2]

NameBit ==
  /\ Parses("rom") /\ StartsWithDigit(Line)
  /\ cursor.rom \in Roms /\ Bit \in Bits
  /\ roms' =
       [ bits   |-> [roms.bits EXCEPT ![cursor.rom][Bit] =
                      IF Mark \in DOMAIN Barred THEN Barred[Mark] ELSE Mark],
         invert |-> [roms.invert EXCEPT ![cursor.rom][Bit] = Mark \in DOMAIN Barred] ]
  /\ Onward("generate")
  /\ UNCHANGED << source, lines, inComment, sizes, asm, cursor, images >>

\* What is written behind a table is lost at best.
NameBitOutside ==
  /\ Parses("rom") /\ StartsWithDigit(Line)
  /\ ~(cursor.rom \in Roms /\ Bit \in Bits)
  /\ Fail \/ Onward("generate")
  /\ UNCHANGED << source, lines, inComment, parsed >>

StartOpcode ==
  /\ Parses("asm") /\ StartsWithDigit(Line)
  /\ cursor' = [cursor EXCEPT !.op = ValueOf(Line[1]), !.uop = 0]
  /\ Onward("generate")
  /\ UNCHANGED << source, lines, inComment, sizes, roms, asm, images >>

\* The line of a WIDTH or a DEPTH splits into no words at all, and an array of
\* length zero is taken for an allocation that failed.
AbortOnEmpty ==
  /\ Parses("asm") /\ Line = << >>
  /\ Fail
  /\ UNCHANGED << source, lines, inComment, parsed >>

AddsWord == Parses("asm") /\ ~StartsWithDigit(Line) /\ Line # << >>
Counted == [asm.length EXCEPT ![cursor.op] = @ + 1]

AddWord ==
  /\ AddsWord /\ cursor.op \in Opcodes /\ cursor.uop \in Offsets
  /\ asm' = [asm EXCEPT !.words[cursor.op][cursor.uop] = Line, !.length = Counted]
  /\ cursor' = [cursor EXCEPT !.uop = @ + 1]
  /\ Onward("generate")
  /\ UNCHANGED << source, lines, inComment, sizes, roms, images >>

AddWordOutside ==
  /\ AddsWord /\ ~(cursor.op \in Opcodes /\ cursor.uop \in Offsets)
  /\ \/ Fail /\ UNCHANGED << asm, cursor >>
     \/ /\ asm' = IF cursor.op \in Opcodes THEN [asm EXCEPT !.length = Counted] ELSE asm
        /\ cursor' = [cursor EXCEPT !.uop = @ + 1]
        /\ Onward("generate")
  /\ UNCHANGED << source, lines, inComment, sizes, roms, images >>

-----------------------------------------------------------------------------
(* The names become positions, and the positions images.                   *)

Positions == Roms \X Bits
Named(name) == { p \in Positions : roms.bits[p[1]][p[2]] = name }
LastOf(places) ==
  CHOOSE p \in places : \A q \in places : q[1] < p[1] \/ (q[1] = p[1] /\ q[2] <= p[2])

\* A position is kept in two chars.
Char(n) == ((n + 128) % 256) - 128
Kept(places) == << Char(LastOf(places)[1]), Char(LastOf(places)[2]) >>

\* Every name of a word, by its place.
Uses ==
  LET longest == Max({0} \cup { Len(asm.words[op][k]) : op \in Opcodes, k \in Offsets })
  IN  { u \in Opcodes \X Offsets \X (1 .. longest) : u[3] <= Len(asm.words[u[1]][u[2]]) }
Unknown == { u \in Uses : Named(asm.words[u[1]][u[2]][u[3]]) = {} }
UnknownFill == { l \in DOMAIN asm.fill : Named(asm.fill[l]) = {} }

\* strcmp is given the name of every bit whenever there is a name to look up.
Compares == asm.fill # << >> \/ Uses # {}
HasUnnamedBit == \E p \in Positions : roms.bits[p[1]][p[2]] = Unnamed

\* Mutant: the fill starts a word too late.
IsFilledLate(op, k) == k > asm.length[op]
IsFilled(op, k) == k >= asm.length[op]

\* generateRoms, where a name that no bit has stands for any position or none,
\* and what is written in front of a word is lost at best.
Image(guess, guessFill) ==
  LET word(op, k) ==
        { LET places == Named(asm.words[op][k][l])
          IN  IF places = {} THEN guess[<< op, k, l >>] ELSE Kept(places)
            : l \in DOMAIN asm.words[op][k] }
      filling ==
        { LET places == Named(asm.fill[l])
          IN  IF places = {} THEN guessFill[l] ELSE Kept(places) : l \in DOMAIN asm.fill }
      depth == sizes["DEPTH"]
      signals ==
        [op \in Opcodes |-> [k \in Offsets |->
           word(op, k) \cup (IF IsFilled(op, k) THEN filling ELSE {})]]
      high(r, on) == { b \in Bits : (<< r, b >> \in on) # roms.invert[r][b] }
  IN  [r \in Roms |-> [address \in 0 .. (sizes["ASM"] * depth) - 1 |->
         high(r, signals[address \div depth][address % depth])]]

Generate ==
  /\ stage = "generate"
  /\ ~(Compares /\ HasUnnamedBit)
  /\ \E guess \in [Unknown -> Positions \cup {<< -1, -1 >>}],
        guessFill \in [UnknownFill -> Positions \cup {<< -1, -1 >>}] :
       images' = Image(guess, guessFill)
  /\ stage' = "done" /\ at' = 1
  /\ UNCHANGED << source, lines, inComment, sizes, roms, asm, cursor >>

\* A bit without a name, a fill that was never set, what a name that no bit has
\* was taken for, a bit whose number is negative as a char, or more words to
\* free than there are.
GenerateFails ==
  /\ stage = "generate"
  /\ \/ Compares /\ HasUnnamedBit
     \/ ~asm.filled \/ Unknown # {} \/ UnknownFill # {}
     \/ Compares /\ \E b \in Bits : Char(b) < 0
     \/ \E op \in Opcodes : asm.length[op] > sizes["DEPTH"]
  /\ Fail
  /\ UNCHANGED << source, lines, inComment, parsed >>

-----------------------------------------------------------------------------
(* The types: a loop is at one of the lines, tables have the sizes asked   *)
(* for, and a name that was never given is NULL.  What is read or written  *)
(* outside of the lines and the tables is no part of the state: the        *)
(* actions have it lost, or the program failed.                            *)
BitName == STRING \cup {Unnamed, ""}

Tables ==
  /\ roms.bits \in [Roms -> [Bits -> BitName]]
  /\ roms.invert \in [Roms -> [Bits -> BOOLEAN]]
  /\ asm.words \in [Opcodes -> [Offsets -> Seq(STRING)]]
  /\ asm.length \in [Opcodes -> Nat]

TypeOK ==
  /\ source \in Seq(Seq(STRING)) /\ stage \in Loops \cup Ends
  /\ lines \in Seq(Seq(STRING)) /\ inComment \in BOOLEAN
  /\ at \in Nat /\ (stage \in Loops => at \in DOMAIN lines)
  /\ sizes \in [Parameters -> Nat]
  /\ asm.fill \in Seq(STRING) /\ asm.filled \in BOOLEAN
  /\ cursor \in [mode : {"none", "rom", "asm"}, rom : Int, op : Nat, uop : Nat]
  /\ stage \in {"parse", "generate", "done"} => Tables
  /\ stage = "done" =>
       images \in [Roms -> [0 .. (sizes["ASM"] * sizes["DEPTH"]) - 1 -> SUBSET Bits]]

-----------------------------------------------------------------------------
Parse ==
  \/ StartSection \/ TakeFill \/ Ignore \/ StartRom \/ NameBit \/ NameBitOutside
  \/ StartOpcode \/ AbortOnEmpty \/ AddWord \/ AddWordOutside

Next ==
  \/ Strip \/ Squish \/ Measure \/ MeasureOverrun
  \/ TakeSize \/ TakeVersion \/ PassOver \/ Allocate
  \/ Parse \/ Generate \/ GenerateFails

\* The program runs by itself to its end.
Spec == Init /\ [][Next]_vars /\ WF_vars(Next)

=============================================================================
