-------------------------- MODULE MCMicroassembler --------------------------
(***************************************************************************)
(* Four kinds of sources: every way to put comments into three lines; a    *)
(* small computer with its keywords at every place; the same with one      *)
(* thing wrong; and the microprogram, four opcodes at a time.              *)
(***************************************************************************)
EXTENDS MicrocodeRoms

MCNumerals ==
  [t \in { ToString(n) : n \in 0 .. 16 } \cup {"0.1"} |->
     IF t = "0.1" THEN 0 ELSE CHOOSE n \in 0 .. 16 : t = ToString(n)]
MCBarred ==
  [t \in { "!" \o s : s \in Micro!ActiveLow } \cup {"!x"} |->
     IF t = "!x" THEN "x" ELSE CHOOSE s \in Micro!ActiveLow : t = "!" \o s]

CommentLines ==
  { << "a" >>, << "a", ";", "b" >>, << "a", "//", "/*" >>, << ";", "*/", "a" >>, << >>,
    << "a", "/*", "b" >>, << "/*" >>, << "a", "*/", "b" >>, << "*/", "a", ";" >>,
    << "/*", "a", "*/", "b" >> }
FewerLines ==
  { << "a" >>, << "a", "//", "/*" >>, << >>, << "a", "/*", "b" >>, << "a", "*/", "b" >>,
    << "*/", "a", ";" >> }
CommentSources == UNION { [1 .. n -> CommentLines] : n \in 0 .. 3 } \cup [1 .. 4 -> FewerLines]

\* A ROM of two bits and two opcodes, in sections.
Small ==
  << << << ";", "small" >> >>, << << "ROMS", "1" >>, << "ROM", "1" >> >>,
     << << "0", "!x" >>, << "1", "y" >> >>, << << "ASM", "2" >> >>,
     << << "1" >>, << "x" >> >>, << << "y" >>, << "0" >> >>, << << "x", "y" >> >> >>

\* The keywords that may be put between two sections, each behind section g.
With(gaps) ==
  FlattenSeq([s \in DOMAIN Small |->
    Small[s] \o (IF gaps.width = s THEN << << "WIDTH", "2" >> >> ELSE << >>)
             \o (IF gaps.depth = s THEN << << "DEPTH", "2" >> >> ELSE << >>)
             \o (IF gaps.fill = s THEN << << "FILL", "y", "x" >> >> ELSE << >>)
             \o (IF gaps.version = s THEN << << "VERSION", "0.1" >> >> ELSE << >>)])
Gaps == [width : 1 .. 4, depth : {1, 2, 5}, fill : {0, 1, 3, 4, 5, 7}, version : {0, 1, 2, 3, 5, 6}]
KeywordSources == { With(gaps) : gaps \in Gaps }

Plain == With([width |-> 1, depth |-> 1, fill |-> 4, version |-> 1])
Lines == DOMAIN Plain
Without(i) == SubSeq(Plain, 1, i - 1) \o SubSeq(Plain, i + 1, Len(Plain))
Again(i) == SubSeq(Plain, 1, i) \o SubSeq(Plain, i, Len(Plain))
Other(i, line) == [Plain EXCEPT ![i] = line]
FaultySources ==
  { Without(i) : i \in Lines } \cup { Again(i) : i \in Lines }
    \cup { Other(i, line) : i \in Lines, line \in
             { << "0", "y" >>, << "2" >>, << "1", "z" >>, << "z" >>, << "ROM", "2" >>,
               << "ROMS", "0" >>, << "FILL", "z" >>, << "ASM" >> } }

Microcodes == { Listing(4 * n, 4) : n \in 0 .. 15 }

MCSources == CommentSources \cup KeywordSources \cup FaultySources \cup Microcodes
=============================================================================
