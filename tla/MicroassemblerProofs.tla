------------------------ MODULE MicroassemblerProofs ------------------------
(***************************************************************************)
(* The microassembler for every source, of any size: no loop leaves the    *)
(* lines or the tables, the first loops leave the code of the source, the  *)
(* images mean what a well-formed source says, and every image is read     *)
(* back as it was written, by the emulator and in a device.                *)
(***************************************************************************)
EXTENDS MicrocodeRoms, SequenceTheorems, FiniteSetTheorems, WellFoundedInduction, TLAPS

-----------------------------------------------------------------------------
(* Facts about lines of tokens: the first place of a mark, what is before  *)
(* and after it, and the number of a line among those that hold code.      *)

Lines == Seq(STRING)

\* A set of natural numbers has a least one.
LEMMA MinExists ==
  ASSUME NEW T, T \subseteq Nat, T # {}
  PROVE  \E x \in T : \A y \in T : x <= y
<1> DEFINE R == OpToRel(<, Nat)
<1>1. \A y, x \in Nat : y < x => << y, x >> \in R
  BY Zenon DEF OpToRel
<1>2. IsWellFoundedOn(R, Nat)
  BY NatLessThanWellFounded
<1> HIDE DEF R
<1>3. \E x \in T : \A y \in T : ~(<< y, x >> \in R)
  BY <1>2, WFMin, Zenon
<1>4. PICK x \in T : \A y \in T : ~(<< y, x >> \in R)
  BY <1>3
<1>5. \A y \in T : ~(y < x)
  BY <1>1, <1>4, Zenon
<1> HIDE <1>2
<1> QED BY <1>4, <1>5, SMT

\* Min is what its name says.
LEMMA MinIsLeast ==
  ASSUME NEW T, T \subseteq Nat, T # {}
  PROVE  Min(T) \in T /\ \A y \in T : Min(T) <= y
BY MinExists, Zenon DEF Min

\* The first place of a mark, or the one behind the line.
LEMMA PlaceFacts ==
  ASSUME NEW line \in Lines, NEW mark
  PROVE  /\ Place(line, mark) \in 1 .. Len(line) + 1
         /\ Place(line, mark) <= Len(line) => line[Place(line, mark)] = mark
         /\ \A i \in 1 .. Len(line) : line[i] = mark => Place(line, mark) <= i
         /\ Has(line, mark) <=> Place(line, mark) <= Len(line)
<1> DEFINE T == { i \in DOMAIN line : line[i] = mark } \cup {Len(line) + 1}
<1>1. DOMAIN line = 1 .. Len(line) /\ Len(line) \in Nat
  BY LenProperties DEF Lines
<1>2. T \subseteq Nat /\ T # {}
  BY <1>1
<1>3. Place(line, mark) = Min(T)
  BY DEF Place
<1>4. Min(T) \in T /\ \A y \in T : Min(T) <= y
  BY <1>2, MinIsLeast
<1> DEFINE p == Place(line, mark)
<1>5. p \in T /\ \A y \in T : p <= y
  BY <1>3, <1>4
<1>6. p \in 1 .. Len(line) + 1
  BY <1>1, <1>5
<1>7. p <= Len(line) => line[p] = mark
  BY <1>1, <1>5
<1>8. \A i \in 1 .. Len(line) : line[i] = mark => p <= i
  BY <1>1, <1>5
<1> HIDE DEF p, T
<1>9. Has(line, mark) <=> p <= Len(line)
  BY <1>1, <1>6, <1>7, <1>8 DEF Has
<1> QED BY <1>6, <1>7, <1>8, <1>9 DEF p

LEMMA PlaceRange ==
  ASSUME NEW line \in Lines, NEW mark
  PROVE  /\ Place(line, mark) \in Nat /\ 1 <= Place(line, mark)
         /\ Len(line) \in Nat /\ Place(line, mark) <= Len(line) + 1
<1>1. Place(line, mark) \in 1 .. Len(line) + 1
  BY PlaceFacts
<1>2. Len(line) \in Nat
  BY LenProperties DEF Lines
<1> QED BY <1>1, <1>2

\* What is before a mark and what is after it are lines.
LEMMA Cuts ==
  ASSUME NEW line \in Lines, NEW mark
  PROVE  /\ Before(line, mark) \in Lines /\ After(line, mark) \in Lines
         /\ Len(Before(line, mark)) = Place(line, mark) - 1
         /\ \A i \in 1 .. Place(line, mark) - 1 : Before(line, mark)[i] = line[i]
<1> DEFINE p == Place(line, mark)
<1>1. p \in 1 .. Len(line) + 1 /\ Len(line) \in Nat
  BY PlaceFacts, LenProperties DEF Lines
<1>2. \A i \in 1 .. p - 1 : line[i] \in STRING
  BY <1>1, ElementOfSeq DEF Lines
<1>3. \A i \in p + 1 .. Len(line) : line[i] \in STRING
  BY <1>1, ElementOfSeq DEF Lines
<1> HIDE DEF p
<1>4. /\ SubSeq(line, 1, p - 1) \in Lines /\ Len(SubSeq(line, 1, p - 1)) = p - 1
      /\ \A i \in 1 .. p - 1 : SubSeq(line, 1, p - 1)[i] = line[i]
  BY <1>1, <1>2, SubSeqProperties DEF Lines
<1>5. SubSeq(line, p + 1, Len(line)) \in Lines
  BY <1>1, <1>3, SubSeqProperties DEF Lines
<1> QED BY <1>4, <1>5 DEF Before, After, p

\* The first place of a mark in what is before another.
LEMMA PlaceBefore ==
  ASSUME NEW line \in Lines, NEW mark, NEW other
  PROVE  /\ Place(Before(line, mark), other) =
              IF Place(line, other) < Place(line, mark)
              THEN Place(line, other) ELSE Place(line, mark)
         /\ Has(Before(line, mark), other) <=> Place(line, other) < Place(line, mark)
<1> DEFINE p == Place(line, mark)
           q == Place(line, other)
           cut == Before(line, mark)
           c == Place(cut, other)
<1>1. /\ cut \in Lines /\ Len(cut) = p - 1
      /\ \A i \in 1 .. p - 1 : cut[i] = line[i]
  BY Cuts
<1>2. Len(line) \in Nat
  BY LenProperties DEF Lines
<1>3. /\ p \in 1 .. Len(line) + 1 /\ q \in 1 .. Len(line) + 1
      /\ q <= Len(line) => line[q] = other
      /\ \A i \in 1 .. Len(line) : line[i] = other => q <= i
  BY PlaceFacts
<1>4. /\ c \in 1 .. Len(cut) + 1
      /\ c <= Len(cut) => cut[c] = other
      /\ \A i \in 1 .. Len(cut) : cut[i] = other => c <= i
      /\ Has(cut, other) <=> c <= Len(cut)
  BY <1>1, PlaceFacts
<1> HIDE DEF p, q, cut, c
<1>5. c = IF q < p THEN q ELSE p
  <2>1. CASE q < p
    <3>1. q \in 1 .. Len(cut) /\ cut[q] = other
      BY <1>1, <1>2, <1>3, <2>1
    <3>2. c <= q /\ c \in 1 .. Len(line) /\ c \in 1 .. p - 1
      BY <1>1, <1>2, <1>3, <1>4, <3>1
    <3>3. line[c] = other
      BY <1>1, <1>4, <3>2
    <3>4. q <= c
      BY <1>3, <3>2, <3>3
    <3> QED BY <1>1, <1>2, <1>3, <2>1, <3>2, <3>4
  <2>2. CASE ~(q < p)
    <3>1. ASSUME c <= Len(cut) PROVE FALSE
      <4>1. c \in 1 .. p - 1 /\ c \in 1 .. Len(line) /\ cut[c] = other
        BY <1>1, <1>2, <1>3, <1>4, <3>1
      <4>2. line[c] = other
        BY <1>1, <4>1
      <4>3. q <= c
        BY <1>3, <4>1, <4>2
      <4> QED BY <1>2, <1>3, <2>2, <4>1, <4>3
    <3> QED BY <1>1, <1>2, <1>3, <1>4, <2>2, <3>1
  <2> QED BY <2>1, <2>2
<1>6. Has(cut, other) <=> q < p
  BY <1>1, <1>2, <1>3, <1>4, <1>5
<1> QED BY <1>5, <1>6 DEF p, q, cut, c

\* The place of a mark in what is after another that comes before it.
LEMMA PlaceAfter ==
  ASSUME NEW line \in Lines, NEW mark, NEW other,
         Place(line, mark) <= Len(line), Place(line, mark) < Place(line, other)
  PROVE  /\ Place(After(line, mark), other) = Place(line, other) - Place(line, mark)
         /\ Len(After(line, mark)) = Len(line) - Place(line, mark)
         /\ \A i \in 1 .. Len(line) - Place(line, mark) :
               After(line, mark)[i] = line[i + Place(line, mark)]
<1> DEFINE p == Place(line, mark)
           q == Place(line, other)
           tail == After(line, mark)
           c == Place(tail, other)
<1>1. Len(line) \in Nat /\ p \in 1 .. Len(line) /\ q \in p + 1 .. Len(line) + 1
  BY PlaceFacts, LenProperties DEF Lines
<1>2. /\ q <= Len(line) => line[q] = other
      /\ \A i \in 1 .. Len(line) : line[i] = other => q <= i
  BY PlaceFacts
<1>3. tail \in Lines /\ tail = SubSeq(line, p + 1, Len(line))
  BY Cuts DEF After
<1>4. \A i \in p + 1 .. Len(line) : line[i] \in STRING
  BY <1>1, ElementOfSeq DEF Lines
<1>5. /\ c \in 1 .. Len(tail) + 1
      /\ c <= Len(tail) => tail[c] = other
      /\ \A i \in 1 .. Len(tail) : tail[i] = other => c <= i
  BY <1>3, PlaceFacts
<1> HIDE DEF p, q, tail, c
<1>6. /\ Len(tail) = IF p + 1 <= Len(line) THEN Len(line) - (p + 1) + 1 ELSE 0
      /\ \A i \in 1 .. Len(line) - (p + 1) + 1 :
            tail[i] = line[(p + 1) + i - 1]
  BY <1>1, <1>3, <1>4, SubSeqProperties
<1>7. /\ Len(tail) = Len(line) - p
      /\ \A i \in 1 .. Len(line) - p : tail[i] = line[i + p]
  <2>1. Len(line) - (p + 1) + 1 = Len(line) - p
    BY <1>1
  <2>2. Len(tail) = Len(line) - p
    BY <1>1, <1>6
  <2>3. ASSUME NEW i \in 1 .. Len(line) - p PROVE tail[i] = line[i + p]
    <3>1. (p + 1) + i - 1 = i + p /\ i \in 1 .. Len(line) - (p + 1) + 1
      BY <1>1, <2>1
    <3>2. tail[i] = line[(p + 1) + i - 1]
      BY <1>6, <3>1
    <3> QED BY <3>1, <3>2
  <2> QED BY <2>2, <2>3
<1>8. c = q - p
  <2>1. CASE q <= Len(line)
    <3>1. q - p \in 1 .. Len(tail) /\ q - p \in 1 .. Len(line) - p /\ (q - p) + p = q
      BY <1>1, <1>7, <2>1
    <3>2. tail[q - p] = other
      BY <1>2, <1>7, <2>1, <3>1
    <3>3. c <= q - p
      BY <1>5, <3>1, <3>2
    <3>4. c \in 1 .. Len(tail) /\ c \in 1 .. Len(line) - p /\ c + p \in 1 .. Len(line)
      BY <1>1, <1>5, <1>7, <3>1, <3>3
    <3>5. line[c + p] = other
      BY <1>5, <1>7, <3>4
    <3>6. q <= c + p
      BY <1>2, <3>4, <3>5
    <3> QED BY <1>1, <3>3, <3>4, <3>6
  <2>2. CASE ~(q <= Len(line))
    <3>1. ASSUME c <= Len(tail) PROVE FALSE
      <4>1. c \in 1 .. Len(line) - p /\ c + p \in 1 .. Len(line) /\ tail[c] = other
        BY <1>1, <1>5, <1>7, <3>1
      <4>2. line[c + p] = other
        BY <1>7, <4>1
      <4>3. q <= c + p
        BY <1>2, <4>1, <4>2
      <4> QED BY <1>1, <2>2, <4>1, <4>3
    <3> QED BY <1>1, <1>5, <1>7, <2>2, <3>1
  <2> QED BY <2>1, <2>2
<1> QED BY <1>7, <1>8 DEF p, q, tail, c

\* Where the code of a line ends that is in no comment at first.
CodeEnd(line) == Min({ Place(line, mark) : mark \in {Semicolon, Slashes, Opening} })

LEMMA CodeEndFacts ==
  ASSUME NEW line \in Lines
  PROVE  /\ CodeEnd(line) \in 1 .. Len(line) + 1
         /\ CodeEnd(line) \in {Place(line, Semicolon), Place(line, Slashes), Place(line, Opening)}
         /\ CodeEnd(line) <= Place(line, Semicolon) /\ CodeEnd(line) <= Place(line, Slashes)
         /\ CodeEnd(line) <= Place(line, Opening)
<1> DEFINE T == { Place(line, mark) : mark \in {Semicolon, Slashes, Opening} }
<1>1. T = {Place(line, Semicolon), Place(line, Slashes), Place(line, Opening)}
  OBVIOUS
<1>2. \A mark : Place(line, mark) \in 1 .. Len(line) + 1
  BY PlaceFacts
<1>3. Len(line) \in Nat
  BY LenProperties DEF Lines
<1> HIDE DEF T
<1>4. T \subseteq Nat /\ T # {}
  <2>1. /\ Place(line, Semicolon) \in Nat /\ Place(line, Slashes) \in Nat
        /\ Place(line, Opening) \in Nat
    <3>1. ASSUME NEW mark PROVE Place(line, mark) \in Nat
      BY <1>2, <1>3
    <3> QED BY <3>1
  <2> QED BY <1>1, <2>1
<1>5. Min(T) \in T /\ \A y \in T : Min(T) <= y
  BY <1>4, MinIsLeast
<1>6. CodeEnd(line) = Min(T)
  BY DEF CodeEnd, T
<1> QED BY <1>1, <1>2, <1>5, <1>6

\* The beginning of a line is one.
LEMMA Prefix ==
  ASSUME NEW line \in Lines, NEW n \in 0 .. Len(line)
  PROVE  /\ SubSeq(line, 1, n) \in Lines /\ Len(SubSeq(line, 1, n)) = n
         /\ \A i \in 1 .. n : SubSeq(line, 1, n)[i] = line[i]
<1>1. Len(line) \in Nat
  BY LenProperties DEF Lines
<1>2. \A i \in 1 .. n : line[i] \in STRING
  BY <1>1, ElementOfSeq DEF Lines
<1> QED BY <1>1, <1>2, SubSeqProperties DEF Lines

\* What the first two tests of removeCommentsAndWhitespace leave.
Text(line) == Before(Before(line, Semicolon), Slashes)
TextEnd(line) == IF Place(line, Slashes) < Place(line, Semicolon)
                 THEN Place(line, Slashes) ELSE Place(line, Semicolon)

LEMMA TextFacts ==
  ASSUME NEW line \in Lines
  PROVE  /\ Text(line) \in Lines /\ Len(Text(line)) = TextEnd(line) - 1
         /\ TextEnd(line) \in 1 .. Len(line) + 1
         /\ \A i \in 1 .. TextEnd(line) - 1 : Text(line)[i] = line[i]
         /\ \A mark :
              /\ Has(Text(line), mark) <=> Place(line, mark) < TextEnd(line)
              /\ Place(Text(line), mark) =
                   IF Place(line, mark) < TextEnd(line)
                   THEN Place(line, mark) ELSE TextEnd(line)
<1> DEFINE cut == Before(line, Semicolon)
           p == Place(line, Semicolon)
           q == Place(line, Slashes)
<1>1. Len(line) \in Nat /\ p \in 1 .. Len(line) + 1 /\ q \in 1 .. Len(line) + 1
  BY PlaceFacts, LenProperties DEF Lines
<1>2. /\ cut \in Lines /\ Len(cut) = p - 1
      /\ \A i \in 1 .. p - 1 : cut[i] = line[i]
  BY Cuts
<1>3. Place(cut, Slashes) = TextEnd(line)
  BY PlaceBefore DEF TextEnd
<1>4. TextEnd(line) \in 1 .. Len(line) + 1 /\ TextEnd(line) <= p
  <2>1. TextEnd(line) = IF q < p THEN q ELSE p
    BY DEF TextEnd
  <2> HIDE DEF p, q
  <2> QED BY <1>1, <2>1
<1>5. /\ Text(line) \in Lines /\ Len(Text(line)) = Place(cut, Slashes) - 1
      /\ \A i \in 1 .. Place(cut, Slashes) - 1 : Text(line)[i] = cut[i]
  BY <1>2, Cuts DEF Text
<1>6. ASSUME NEW i \in 1 .. TextEnd(line) - 1 PROVE Text(line)[i] = line[i]
  <2>1. Text(line)[i] = cut[i]
    BY <1>3, <1>5
  <2>2. i \in 1 .. p - 1
    <3> HIDE DEF p
    <3> QED BY <1>1, <1>4
  <2> QED BY <1>2, <2>1, <2>2
<1>7. ASSUME NEW mark
      PROVE  /\ Has(Text(line), mark) <=> Place(line, mark) < TextEnd(line)
             /\ Place(Text(line), mark) =
                  IF Place(line, mark) < TextEnd(line)
                  THEN Place(line, mark) ELSE TextEnd(line)
  <2> DEFINE r == Place(line, mark)
  <2>1. Place(cut, mark) = IF r < p THEN r ELSE p
    BY PlaceBefore
  <2>2. /\ Place(Text(line), mark) =
             IF Place(cut, mark) < Place(cut, Slashes) THEN Place(cut, mark) ELSE Place(cut, Slashes)
        /\ Has(Text(line), mark) <=> Place(cut, mark) < Place(cut, Slashes)
    BY <1>2, PlaceBefore DEF Text
  <2>3. r \in 1 .. Len(line) + 1
    BY PlaceFacts
  <2> HIDE DEF r, cut, p
  <2>4. Place(cut, mark) < Place(cut, Slashes) <=> r < TextEnd(line)
    BY <1>1, <1>3, <1>4, <2>1, <2>3
  <2>5. r < TextEnd(line) => Place(cut, mark) = r
    BY <1>1, <1>4, <2>1, <2>3
  <2> QED BY <1>3, <2>2, <2>4, <2>5 DEF r
<1> QED BY <1>3, <1>4, <1>5, <1>6, <1>7

\* A line outside of a comment is cut where its code ends.
LEMMA OutsideLine ==
  ASSUME NEW line \in Lines
  PROVE  Before(Text(line), Opening) = SubSeq(line, 1, CodeEnd(line) - 1)
<1> DEFINE cut == Before(Text(line), Opening)
           q == Place(Text(line), Opening)
           n == CodeEnd(line)
<1>1. /\ Text(line) \in Lines /\ TextEnd(line) \in 1 .. Len(line) + 1
      /\ Len(Text(line)) = TextEnd(line) - 1
      /\ \A i \in 1 .. TextEnd(line) - 1 : Text(line)[i] = line[i]
  BY TextFacts
<1>2. Len(line) \in Nat
  BY LenProperties DEF Lines
<1>3. /\ cut \in Lines /\ Len(cut) = q - 1
      /\ \A i \in 1 .. q - 1 : cut[i] = Text(line)[i]
  BY <1>1, Cuts
<1>4. q = n /\ n \in 1 .. Len(line) + 1
  <2>1. /\ n \in 1 .. Len(line) + 1
        /\ n \in {Place(line, Semicolon), Place(line, Slashes), Place(line, Opening)}
        /\ n <= Place(line, Semicolon) /\ n <= Place(line, Slashes) /\ n <= Place(line, Opening)
    BY CodeEndFacts
  <2>2. /\ Place(line, Semicolon) \in 1 .. Len(line) + 1 /\ Place(line, Slashes) \in 1 .. Len(line) + 1
        /\ Place(line, Opening) \in 1 .. Len(line) + 1
    BY PlaceFacts
  <2>3. q = IF Place(line, Opening) < TextEnd(line) THEN Place(line, Opening) ELSE TextEnd(line)
    BY TextFacts
  <2> HIDE DEF q, n
  <2> QED BY <1>2, <2>1, <2>2, <2>3 DEF TextEnd
<1>5. q <= TextEnd(line)
  BY <1>1, PlaceFacts
<1>6. /\ SubSeq(line, 1, n - 1) \in Lines /\ Len(SubSeq(line, 1, n - 1)) = n - 1
      /\ \A i \in 1 .. n - 1 : SubSeq(line, 1, n - 1)[i] = line[i]
  <2>1. n - 1 \in 0 .. Len(line)
    <3> HIDE DEF n
    <3> QED BY <1>2, <1>4
  <2> QED BY <2>1, Prefix
<1> HIDE DEF cut, q, n
<1>7. ASSUME NEW i \in 1 .. n - 1 PROVE cut[i] = SubSeq(line, 1, n - 1)[i]
  <2>1. i \in 1 .. TextEnd(line) - 1
    BY <1>1, <1>2, <1>4, <1>5
  <2> QED BY <1>1, <1>3, <1>4, <1>6, <2>1
<1>8. Len(cut) = n - 1
  BY <1>3, <1>4
<1> QED BY <1>3, <1>6, <1>7, <1>8, SeqEqual DEF cut, n, Lines

\* A line that ends a comment keeps what is behind the end.
LEMMA ClosingLine ==
  ASSUME NEW line \in Lines, Has(Text(line), Closing), ~Has(line, Opening)
  PROVE  After(Text(line), Closing)
           = SubSeq(After(line, Closing), 1, CodeEnd(After(line, Closing)) - 1)
<1> DEFINE p == Place(line, Closing)
           e == TextEnd(line)
           rest == After(line, Closing)
           tail == After(Text(line), Closing)
           n == CodeEnd(rest)
<1>1. /\ Text(line) \in Lines /\ e \in 1 .. Len(line) + 1 /\ Len(Text(line)) = e - 1
      /\ \A i \in 1 .. e - 1 : Text(line)[i] = line[i]
  BY TextFacts
<1>2. Len(line) \in Nat /\ p \in 1 .. Len(line) + 1
  BY PlaceFacts, LenProperties DEF Lines
<1>3. p < e /\ Place(Text(line), Closing) = p
  BY TextFacts
<1>4. e \in {Place(line, Semicolon), Place(line, Slashes)}
      /\ e <= Place(line, Semicolon) /\ e <= Place(line, Slashes)
  <2>1. Place(line, Semicolon) \in 1 .. Len(line) + 1 /\ Place(line, Slashes) \in 1 .. Len(line) + 1
    BY PlaceFacts
  <2> QED BY <1>2, <2>1 DEF TextEnd
<1>5. Place(line, Opening) = Len(line) + 1
  <2>1. Place(line, Opening) \in 1 .. Len(line) + 1 /\ ~(Place(line, Opening) <= Len(line))
    BY PlaceFacts
  <2> QED BY <1>2, <2>1
<1>6. p <= Len(line)
  <2> HIDE DEF p, e
  <2> QED BY <1>1, <1>2, <1>3
<1>7. /\ Len(rest) = Len(line) - p
      /\ \A i \in 1 .. Len(line) - p : rest[i] = line[i + p]
  <2>1. p < Place(line, Opening)
    <3> HIDE DEF p
    <3> QED BY <1>2, <1>5, <1>6
  <2> QED BY <1>6, <2>1, PlaceAfter
<1>8. n = e - p
  <2>1. /\ Place(rest, Semicolon) = Place(line, Semicolon) - p
        /\ Place(rest, Slashes) = Place(line, Slashes) - p
        /\ Place(rest, Opening) = Place(line, Opening) - p
    <3>1. ASSUME NEW mark, p < Place(line, mark) PROVE Place(rest, mark) = Place(line, mark) - p
      BY <1>6, <3>1, PlaceAfter
    <3>2. Place(line, Semicolon) \in Nat /\ Place(line, Slashes) \in Nat
      BY PlaceRange
    <3>3. p < Place(line, Semicolon) /\ p < Place(line, Slashes) /\ p < Place(line, Opening)
      <4> HIDE DEF p, e
      <4>1. e \in Int /\ p \in Int
        BY <1>1, <1>2
      <4> QED BY <1>2, <1>3, <1>4, <1>5, <1>6, <3>2, <4>1
    <3> QED BY <3>1, <3>3
  <2>2. rest \in Lines
    BY Cuts
  <2>3. /\ n \in {Place(rest, Semicolon), Place(rest, Slashes), Place(rest, Opening)}
        /\ n <= Place(rest, Semicolon) /\ n <= Place(rest, Slashes) /\ n <= Place(rest, Opening)
    BY <2>2, CodeEndFacts
  <2>4. Place(line, Semicolon) \in Nat /\ Place(line, Slashes) \in Nat
    BY PlaceRange
  <2> HIDE DEF p, e, n, rest
  <2>5. e \in Int /\ p \in Int /\ Len(line) \in Int /\ e <= Len(line) + 1
    BY <1>1, <1>2
  <2> QED BY <1>4, <1>5, <2>1, <2>3, <2>4, <2>5
<1>9. /\ tail \in Lines /\ Len(tail) = (e - 1) - p
      /\ \A i \in 1 .. (e - 1) - p : tail[i] = Text(line)[i + p]
  <2>1. tail \in Lines
    BY <1>1, Cuts
  <2>2. tail = SubSeq(Text(line), p + 1, e - 1)
    BY <1>1, <1>3 DEF After
  <2> HIDE DEF p, e, tail
  <2>3. \A i \in p + 1 .. e - 1 : Text(line)[i] \in STRING
    BY <1>1, <1>2, ElementOfSeq DEF Lines
  <2>4. /\ Len(tail) = IF p + 1 <= e - 1 THEN (e - 1) - (p + 1) + 1 ELSE 0
        /\ \A i \in 1 .. (e - 1) - (p + 1) + 1 : tail[i] = Text(line)[(p + 1) + i - 1]
    BY <1>1, <1>2, <2>2, <2>3, SubSeqProperties
  <2>5. Len(tail) = (e - 1) - p
    BY <1>1, <1>2, <1>3, <2>4
  <2>6. ASSUME NEW i \in 1 .. (e - 1) - p PROVE tail[i] = Text(line)[i + p]
    <3>1. (p + 1) + i - 1 = i + p /\ i \in 1 .. (e - 1) - (p + 1) + 1
      BY <1>1, <1>2
    <3>2. tail[i] = Text(line)[(p + 1) + i - 1]
      BY <2>4, <3>1
    <3> QED BY <3>1, <3>2
  <2> QED BY <2>1, <2>5, <2>6
<1>10. /\ SubSeq(rest, 1, n - 1) \in Lines /\ Len(SubSeq(rest, 1, n - 1)) = n - 1
       /\ \A i \in 1 .. n - 1 : SubSeq(rest, 1, n - 1)[i] = rest[i]
  <2>1. rest \in Lines
    BY Cuts
  <2>2. n - 1 \in 0 .. Len(rest)
    <3> HIDE DEF p, e, n, rest
    <3> QED BY <1>1, <1>2, <1>3, <1>7, <1>8
  <2> HIDE DEF n, rest
  <2> QED BY <2>1, <2>2, Prefix
<1> HIDE DEF p, e, n, rest, tail
<1>11. Len(tail) = n - 1
  BY <1>1, <1>2, <1>8, <1>9
<1>12. ASSUME NEW i \in 1 .. n - 1 PROVE tail[i] = SubSeq(rest, 1, n - 1)[i]
  <2>1. i \in 1 .. (e - 1) - p /\ i + p \in 1 .. e - 1 /\ i \in 1 .. Len(line) - p
    BY <1>1, <1>2, <1>8
  <2> QED BY <1>1, <1>7, <1>9, <1>10, <2>1
<1> QED BY <1>9, <1>10, <1>11, <1>12, SeqEqual DEF tail, rest, n, Lines

LEMMA MarksDiffer == Closing # Semicolon /\ Closing # Slashes
BY Zenon DEF Closing, Semicolon, Slashes

\* A line within a comment holds no end of it, unless a line comment hides it.
LEMMA CommentLine ==
  ASSUME NEW line \in Lines, ~Has(Text(line), Closing),
         ~Has(After(line, Semicolon), Closing), ~Has(After(line, Slashes), Closing)
  PROVE  ~Has(line, Closing)
<1> SUFFICES ASSUME Has(line, Closing) PROVE FALSE
  OBVIOUS
<1> DEFINE p == Place(line, Closing)
           e == TextEnd(line)
<1>1. PICK mark \in {Semicolon, Slashes} : e = Place(line, mark)
  BY DEF TextEnd
<1>2. Len(line) \in Nat /\ p \in 1 .. Len(line) /\ line[p] = Closing
  <2>1. p \in Nat /\ 1 <= p /\ Len(line) \in Nat
    BY PlaceRange
  <2>2. p <= Len(line) /\ line[p] = Closing
    BY PlaceFacts, Zenon
  <2> HIDE DEF p
  <2> QED BY <2>1, <2>2
<1>3. ~(p < e)
  BY TextFacts, Zenon
<1>4. e \in 1 .. Len(line) + 1 /\ (e <= Len(line) => line[e] = mark)
  BY <1>1, PlaceFacts
<1>5. e < p
  <2>1. mark # Closing
    BY MarksDiffer
  <2> HIDE DEF p, e
  <2> QED BY <1>2, <1>3, <1>4, <2>1
<1>6. e <= Len(line)
  <2> HIDE DEF p, e
  <2> QED BY <1>2, <1>4, <1>5
<1>7. /\ Place(After(line, mark), Closing) = p - e
      /\ Len(After(line, mark)) = Len(line) - e
  BY <1>1, <1>5, <1>6, PlaceAfter
<1>8. After(line, mark) \in Lines
  BY Cuts
<1>9. p - e <= Len(line) - e
  <2> HIDE DEF p, e
  <2> QED BY <1>2, <1>4
<1>10. Has(After(line, mark), Closing)
  BY <1>7, <1>8, <1>9, PlaceFacts
<1> QED BY <1>1, <1>10

\* Behind an end that is not there is nothing.
LEMMA NothingAfter ==
  ASSUME NEW line \in Lines, ~Has(line, Closing)
  PROVE  SubSeq(After(line, Closing), 1, CodeEnd(After(line, Closing)) - 1) = << >>
<1> DEFINE rest == After(line, Closing)
           p == Place(line, Closing)
<1>1. Len(line) \in Nat /\ p \in 1 .. Len(line) + 1 /\ ~(p <= Len(line))
  BY PlaceFacts, LenProperties DEF Lines
<1>2. rest = << >>
  <2>1. rest = SubSeq(line, p + 1, Len(line))
    BY DEF After
  <2> HIDE DEF p, rest
  <2> QED BY <1>1, <2>1, SubSeqEmpty
<1>3. rest \in Lines /\ Len(rest) = 0
  BY <1>2, EmptySeq DEF Lines
<1>4. CodeEnd(rest) \in 1 .. 0 + 1
  <2> HIDE DEF rest
  <2> QED BY <1>3, CodeEndFacts, Zenon
<1> HIDE DEF rest
<1>5. CodeEnd(rest) - 1 \in Int /\ CodeEnd(rest) - 1 < 1
  BY <1>4
<1> QED BY <1>5, SubSeqEmpty DEF rest

\* What a line is after it was changed.
LEMMA Changed ==
  ASSUME NEW file \in Seq(Lines), NEW i \in 1 .. Len(file), NEW line
  PROVE  \A j \in 1 .. Len(file) : [file EXCEPT ![i] = line][j] = IF j = i THEN line ELSE file[j]
<1>1. DOMAIN file = 1 .. Len(file)
  BY LenProperties
<1> QED BY <1>1

\* Whether a line begins a block comment that goes on behind it.
Opens(line) ==
  /\ Place(line, Opening) <= Len(line)
  /\ Place(line, Opening) < Place(line, Semicolon)
  /\ Place(line, Opening) < Place(line, Slashes)

LEMMA InsideNext ==
  ASSUME NEW file, NEW i \in Nat \ {0}
  PROVE  Inside(file, i + 1) <=> Opens(file[i]) \/ (Inside(file, i) /\ ~Has(file[i], Closing))
<1> DEFINE Open(j) == Opens(file[j])
           Closes(k) == Has(file[k], Closing)
           In(n) == \E j \in 1 .. n - 1 : Open(j) /\ \A k \in j + 1 .. n - 1 : ~Closes(k)
<1>1. \A n : Inside(file, n) <=> In(n)
  BY DEF Inside, Opens
<1> HIDE DEF Open, Closes
<1>2. In(i + 1) <=> Open(i) \/ (In(i) /\ ~Closes(i))
  <2>1. (i + 1) - 1 = i
    OBVIOUS
  <2>2. ASSUME In(i + 1) PROVE Open(i) \/ (In(i) /\ ~Closes(i))
    <3>1. PICK j \in 1 .. i : Open(j) /\ \A k \in j + 1 .. i : ~Closes(k)
      BY <2>1, <2>2
    <3>2. CASE j = i
      BY <3>1, <3>2
    <3>3. CASE j # i
      <4>1. j \in 1 .. i - 1 /\ i \in j + 1 .. i /\ \A k \in j + 1 .. i - 1 : k \in j + 1 .. i
        BY <3>3
      <4> QED BY <3>1, <4>1
    <3> QED BY <3>2, <3>3
  <2>3. ASSUME Open(i) PROVE In(i + 1)
    <3>1. i \in 1 .. (i + 1) - 1 /\ \A k \in i + 1 .. (i + 1) - 1 : FALSE
      OBVIOUS
    <3> QED BY <2>3, <3>1
  <2>4. ASSUME In(i), ~Closes(i) PROVE In(i + 1)
    <3>1. PICK j \in 1 .. i - 1 : Open(j) /\ \A k \in j + 1 .. i - 1 : ~Closes(k)
      BY <2>4
    <3>2. j \in 1 .. (i + 1) - 1 /\ \A k \in j + 1 .. (i + 1) - 1 : k \in j + 1 .. i - 1 \/ k = i
      OBVIOUS
    <3>3. \A k \in j + 1 .. (i + 1) - 1 : ~Closes(k)
      BY <2>4, <3>1, <3>2
    <3> QED BY <3>1, <3>2, <3>3
  <2> QED BY <2>2, <2>3, <2>4
<1> QED BY <1>1, <1>2 DEF Open, Closes

-----------------------------------------------------------------------------
(* The number of a line among those that hold code.                        *)

\* The number of a line among those that hold code grows by one at each.
LEMMA RankFacts ==
  ASSUME NEW file \in Seq(Lines)
  PROVE  /\ Len(file) \in Nat /\ CodeLines(file) \subseteq 1 .. Len(file)
         /\ Rank(file, 0) = 0 /\ Cardinality(CodeLines(file)) = Rank(file, Len(file))
         /\ \A i \in 0 .. Len(file) : Rank(file, i) \in Nat /\ Rank(file, i) <= i
         /\ \A i \in 1 .. Len(file) :
               Rank(file, i) = Rank(file, i - 1) + IF i \in CodeLines(file) THEN 1 ELSE 0
         /\ \A i, j \in 0 .. Len(file) : i <= j => Rank(file, i) <= Rank(file, j)
<1> DEFINE C == CodeLines(file)
           n == Len(file)
           T(i) == { j \in C : j <= i }
<1>1. n \in Nat /\ C \subseteq 1 .. n
  BY LenProperties DEF CodeLines
<1>0. n \in Nat /\ \A j \in C : j \in Int /\ 1 <= j /\ j <= n
  BY <1>1
<1>2. \A i : Rank(file, i) = Cardinality(T(i))
  BY DEF Rank
<1> HIDE DEF C, n
<1>3. ASSUME NEW i \in 0 .. n
      PROVE  IsFiniteSet(T(i)) /\ Cardinality(T(i)) \in Nat /\ Cardinality(T(i)) <= i
  <2>1. IsFiniteSet(1 .. i) /\ Cardinality(1 .. i) = i
    <3>1. IsFiniteSet(1 .. i) /\ Cardinality(1 .. i) = IF 1 > i THEN 0 ELSE i - 1 + 1
      BY <1>1, FS_Interval
    <3> QED BY <1>1, <3>1
  <2>2. T(i) \in SUBSET (1 .. i)
    BY <1>0
  <2>3. IsFiniteSet(T(i)) /\ Cardinality(T(i)) <= i
    BY <2>1, <2>2, FS_Subset
  <2> QED BY <2>3, FS_CardinalityType
<1>4. ASSUME NEW i \in 1 .. n
      PROVE  Cardinality(T(i)) = Cardinality(T(i - 1)) + IF i \in C THEN 1 ELSE 0
  <2>1. i - 1 \in 0 .. n
    BY <1>1
  <2>2. IsFiniteSet(T(i - 1)) /\ Cardinality(T(i - 1)) \in Nat
    BY <1>3, <2>1
  <2>3. CASE i \in C
    <3>1. \A j \in C : j <= i <=> (j <= i - 1 \/ j = i)
      BY <1>0
    <3>2. T(i) = T(i - 1) \cup {i} /\ i \notin T(i - 1)
      <4>1. i \notin T(i - 1)
        BY <1>0
      <4>2. T(i) = T(i - 1) \cup {i}
        <5>1. ASSUME NEW x PROVE x \in T(i) <=> x \in T(i - 1) \cup {i}
          BY <2>3, <3>1
        <5> HIDE DEF T
        <5> QED BY <5>1
      <4> QED BY <4>1, <4>2
    <3> QED BY <2>2, <2>3, <3>2, FS_AddElement
  <2>4. CASE i \notin C
    <3>1. \A j \in C : j <= i <=> j <= i - 1
      BY <1>0, <2>4
    <3>2. T(i) = T(i - 1)
      BY <3>1
    <3> QED
      <4> HIDE DEF T
      <4> QED BY <2>2, <2>4, <3>2
  <2> QED BY <2>3, <2>4
<1>5. ASSUME NEW i \in 0 .. n, NEW j \in 0 .. n, i <= j
      PROVE  Cardinality(T(i)) <= Cardinality(T(j))
  <2>1. T(i) \in SUBSET T(j)
    BY <1>0, <1>5
  <2>2. IsFiniteSet(T(j))
    BY <1>3
  <2> QED BY <2>1, <2>2, FS_Subset
<1>6. Cardinality(T(0)) = 0
  <2>1. T(0) = {}
    BY <1>0
  <2> QED BY <2>1, FS_EmptySet
<1>7. T(n) = C
  BY <1>0
<1> HIDE DEF T
<1> QED BY <1>1, <1>2, <1>3, <1>4, <1>5, <1>6, <1>7 DEF C, n

\* Between two lines with no code between them it stays.
LEMMA RankStays ==
  ASSUME NEW file \in Seq(Lines), NEW i \in 0 .. Len(file), NEW j \in 0 .. Len(file), i <= j,
         \A k \in i + 1 .. j : k \notin CodeLines(file)
  PROVE  Rank(file, i) = Rank(file, j)
<1>1. Len(file) \in Nat /\ CodeLines(file) \subseteq 1 .. Len(file)
  BY RankFacts
<1>2. { k \in CodeLines(file) : k <= i } = { k \in CodeLines(file) : k <= j }
  BY <1>1
<1> QED BY <1>2 DEF Rank

\* Behind line b only code that has not been moved is left.
LEMMA NoCodeLeft ==
  ASSUME NEW file \in Seq(Lines), NEW b \in 0 .. Len(file),
         Rank(file, Len(file)) = Rank(file, b), NEW i \in b + 1 .. Len(file)
  PROVE  i \notin CodeLines(file)
<1>1. Len(file) \in Nat
  BY RankFacts
<1>2. i \in 1 .. Len(file) /\ i - 1 \in 0 .. Len(file) /\ i \in 0 .. Len(file)
      /\ Len(file) \in 0 .. Len(file) /\ b <= i - 1 /\ i <= Len(file)
  BY <1>1
<1>3. Rank(file, b) <= Rank(file, i - 1) /\ Rank(file, i) <= Rank(file, Len(file))
  BY <1>2, RankFacts
<1>4. Rank(file, i) = Rank(file, i - 1) + IF i \in CodeLines(file) THEN 1 ELSE 0
  BY <1>2, RankFacts
<1>5. Rank(file, b) \in Nat /\ Rank(file, i - 1) \in Nat /\ Rank(file, i) \in Nat
  BY <1>2, RankFacts
<1> QED BY <1>3, <1>4, <1>5

-----------------------------------------------------------------------------
(* The type invariant.                                                     *)

Parsing == {"parse", "generate", "done"}

\* TypeOK of a step that leaves the tables alone.
LEMMA TypesKept ==
  ASSUME TypeOK, source' = source, lines' \in Seq(Lines), inComment' \in BOOLEAN,
         stage' \in Loops \cup Ends, at' \in Nat,
         stage' \in Loops => at' \in DOMAIN lines',
         UNCHANGED parsed, stage' \in Parsing => stage \in Parsing,
         stage' = "done" => stage = "done"
  PROVE  TypeOK'
<1>1. UNCHANGED << sizes, roms, asm, cursor, images >>
  BY DEF parsed
<1>2. UNCHANGED << Roms, Bits, Opcodes, Offsets >>
  BY <1>1 DEF Roms, Bits, Opcodes, Offsets
<1>3. Tables => Tables'
  BY <1>1, <1>2 DEF Tables
<1>4. stage' \in Parsing => Tables'
  BY <1>3 DEF TypeOK, Parsing
<1>5. stage' = "done" => images' \in [Roms' -> [0 .. (sizes'["ASM"] * sizes'["DEPTH"]) - 1 -> SUBSET Bits']]
  <2> SUFFICES ASSUME stage' = "done"
               PROVE images' \in [Roms' -> [0 .. (sizes'["ASM"] * sizes'["DEPTH"]) - 1 -> SUBSET Bits']]
    OBVIOUS
  <2>1. images \in [Roms -> [0 .. (sizes["ASM"] * sizes["DEPTH"]) - 1 -> SUBSET Bits]]
    BY DEF TypeOK
  <2> QED BY <1>1, <1>2, <2>1
<1>6. /\ source' \in Seq(Lines) /\ sizes' \in [Parameters -> Nat]
      /\ asm'.fill \in Seq(STRING) /\ asm'.filled \in BOOLEAN
      /\ cursor' \in [mode : {"none", "rom", "asm"}, rom : Int, op : Nat, uop : Nat]
  BY <1>1 DEF TypeOK, Lines
<1> QED BY <1>4, <1>5, <1>6 DEF TypeOK, Lines, Parsing

\* Where a loop goes on.
LEMMA OnwardType ==
  ASSUME TypeOK, stage \in Loops, lines' \in Seq(Lines), Len(lines') = Len(lines),
         NEW next \in Loops, Onward(next)
  PROVE  /\ at' \in Nat /\ stage' \in {stage, next} /\ at' \in DOMAIN lines'
<1>1. lines \in Seq(Lines) /\ at \in DOMAIN lines
  BY DEF TypeOK, Lines
<1>2. DOMAIN lines = 1 .. Len(lines) /\ Len(lines) \in Nat /\ DOMAIN lines' = 1 .. Len(lines')
  BY <1>1, LenProperties
<1>3. at \in 1 .. Len(lines)
  BY <1>1, <1>2
<1>4. CASE at < Len(lines)
  <2>1. at' = at + 1 /\ stage' = stage
    BY <1>4 DEF Onward
  <2> QED BY <1>2, <1>3, <1>4, <2>1
<1>5. CASE ~(at < Len(lines))
  <2>1. at' = 1 /\ stage' = next
    BY <1>5 DEF Onward
  <2> QED BY <1>2, <1>3, <2>1
<1> QED BY <1>4, <1>5

\* A line of the file.
LEMMA LineType ==
  ASSUME TypeOK, stage \in Loops
  PROVE  /\ lines \in Seq(Lines) /\ Len(lines) \in Nat /\ DOMAIN lines = 1 .. Len(lines)
         /\ at \in 1 .. Len(lines) /\ lines[at] \in Lines
         /\ \A new \in Lines :
              /\ [lines EXCEPT ![at] = new] \in Seq(Lines)
              /\ Len([lines EXCEPT ![at] = new]) = Len(lines)
<1>1. lines \in Seq(Lines) /\ at \in DOMAIN lines
  BY DEF TypeOK, Lines
<1>2. DOMAIN lines = 1 .. Len(lines) /\ Len(lines) \in Nat
  BY <1>1, LenProperties
<1>3. at \in 1 .. Len(lines)
  BY <1>1, <1>2
<1>4. lines[at] \in Lines
  BY <1>1, <1>3, ElementOfSeq
<1>5. ASSUME NEW new \in Lines
      PROVE  /\ [lines EXCEPT ![at] = new] \in Seq(Lines)
             /\ Len([lines EXCEPT ![at] = new]) = Len(lines)
  BY <1>1, <1>3, ExceptSeq
<1> QED BY <1>1, <1>2, <1>3, <1>4, <1>5

LEMMA EmptyLine == << >> \in Lines
BY EmptySeq DEF Lines

LEMMA StripTypes ==
  ASSUME TypeOK, Strip
  PROVE  TypeOK'
<1>1. stage = "strip" /\ stage \in Loops /\ "squish" \in Loops /\ Onward("squish")
  BY DEF Strip, Loops
<1>2. /\ lines \in Seq(Lines) /\ Len(lines) \in Nat /\ DOMAIN lines = 1 .. Len(lines)
      /\ at \in 1 .. Len(lines) /\ lines[at] \in Lines
      /\ \A new \in Lines :
           /\ [lines EXCEPT ![at] = new] \in Seq(Lines)
           /\ Len([lines EXCEPT ![at] = new]) = Len(lines)
  BY <1>1, LineType
<1>3. Text(lines[at]) \in Lines
  BY <1>2, TextFacts
<1>4. \/ lines' = [lines EXCEPT ![at] = Before(Text(lines[at]), Opening)]
      \/ lines' = [lines EXCEPT ![at] = After(Text(lines[at]), Closing)]
      \/ lines' = [lines EXCEPT ![at] = << >>]
  BY DEF Strip, Text, Blank
<1>5. Before(Text(lines[at]), Opening) \in Lines /\ After(Text(lines[at]), Closing) \in Lines
  BY <1>3, Cuts
<1>6. lines' \in Seq(Lines) /\ Len(lines') = Len(lines)
  BY <1>2, <1>4, <1>5, EmptyLine
<1>7. inComment' \in BOOLEAN
  BY DEF Strip, TypeOK, Has
<1>8. at' \in Nat /\ stage' \in {stage, "squish"} /\ at' \in DOMAIN lines'
  BY <1>1, <1>6, OnwardType
<1>9. source' = source /\ UNCHANGED parsed
  BY DEF Strip
<1> QED BY <1>1, <1>6, <1>7, <1>8, <1>9, TypesKept DEF Loops, Parsing

LEMMA SquishTypes ==
  ASSUME TypeOK, Squish
  PROVE  TypeOK'
<1> DEFINE later == { j \in at + 1 .. Len(lines) : lines[j] # << >> }
<1>1. stage = "squish" /\ stage \in Loops /\ "measure" \in Loops /\ Onward("measure")
  BY DEF Squish, Loops
<1>2. /\ lines \in Seq(Lines) /\ Len(lines) \in Nat /\ DOMAIN lines = 1 .. Len(lines)
      /\ at \in 1 .. Len(lines)
  BY <1>1, LineType
<1>3. lines' \in Seq(Lines) /\ Len(lines') = Len(lines)
  <2>1. CASE lines[at] # << >> \/ later = {}
    <3>1. lines' = lines
      BY <2>1 DEF Squish
    <3> QED BY <1>2, <3>1
  <2>2. CASE ~(lines[at] # << >> \/ later = {})
    <3>1. later \subseteq Nat /\ later # {}
      BY <1>2, <2>2
    <3>2. Min(later) \in later
      BY <3>1, MinIsLeast
    <3>3. lines' = [[lines EXCEPT ![at] = lines[Min(later)]] EXCEPT ![Min(later)] = << >>]
      BY <2>2 DEF Squish
    <3>4. Min(later) \in 1 .. Len(lines)
      BY <1>2, <3>2
    <3> DEFINE first == [lines EXCEPT ![at] = lines[Min(later)]]
    <3>5. lines[Min(later)] \in Lines
      BY <1>2, <3>4, ElementOfSeq
    <3>6. first \in Seq(Lines) /\ Len(first) = Len(lines)
      BY <1>2, <3>5, ExceptSeq
    <3> HIDE DEF first, later
    <3>7. /\ [first EXCEPT ![Min(later)] = << >>] \in Seq(Lines)
          /\ Len([first EXCEPT ![Min(later)] = << >>]) = Len(first)
      BY <3>4, <3>6, EmptyLine, ExceptSeq
    <3> QED BY <3>3, <3>6, <3>7 DEF first
  <2> QED BY <2>1, <2>2
<1>4. at' \in Nat /\ stage' \in {stage, "measure"} /\ at' \in DOMAIN lines'
  BY <1>1, <1>3, OnwardType
<1>5. source' = source /\ UNCHANGED parsed /\ inComment' \in BOOLEAN
  BY DEF Squish, TypeOK
<1> QED BY <1>1, <1>3, <1>4, <1>5, TypesKept DEF Loops, Parsing

LEMMA MeasureTypes ==
  ASSUME TypeOK, Measure \/ MeasureOverrun
  PROVE  TypeOK'
<1>1. stage = "measure" /\ stage \in Loops /\ source' = source /\ UNCHANGED parsed
      /\ inComment' \in BOOLEAN
  BY DEF Measure, MeasureOverrun, Loops, TypeOK
<1>2. /\ lines \in Seq(Lines) /\ Len(lines) \in Nat /\ DOMAIN lines = 1 .. Len(lines)
      /\ at \in 1 .. Len(lines)
  BY <1>1, LineType
<1>3. CASE Measure
  <2>1. Empties \subseteq Nat /\ Empties # {}
    BY <1>2, <1>3 DEF Measure, Empties
  <2>2. Min(Empties) \in 1 .. Len(lines)
    BY <1>2, <2>1, MinIsLeast DEF Empties
  <2>3. \A i \in 1 .. Min(Empties) - 1 : lines[i] \in Lines
    BY <1>2, <2>2, ElementOfSeq
  <2> DEFINE n == Min(Empties) - 1
  <2>4. n \in Nat
    BY <1>2, <2>2
  <2>5. lines' = SubSeq(lines, 1, n)
    BY <1>3 DEF Measure
  <2> HIDE DEF n
  <2>6. lines' \in Seq(Lines)
    BY <2>3, <2>4, <2>5, SubSeqProperties DEF n
  <2>7. CASE lines' = << >>
    <3>1. stage' = "failed" /\ at' = 1
      BY <1>3, <2>7 DEF Measure, Fail
    <3> QED BY <1>1, <2>6, <3>1, TypesKept DEF Loops, Ends, Parsing
  <2>8. CASE lines' # << >>
    <3>1. stage' = "size" /\ at' = 1
      BY <1>3, <2>8 DEF Measure
    <3>2. Len(lines') \in Nat \ {0} /\ DOMAIN lines' = 1 .. Len(lines')
      BY <2>6, <2>8, EmptySeq, LenProperties
    <3>3. at' \in DOMAIN lines'
      BY <3>1, <3>2
    <3> QED BY <1>1, <2>6, <3>1, <3>3, TypesKept DEF Loops, Ends, Parsing
  <2> QED BY <2>7, <2>8
<1>4. CASE MeasureOverrun
  <2>1. lines' = lines /\ at' = 1 /\ stage' \in {"failed", "size"}
    BY <1>4 DEF MeasureOverrun, Fail
  <2>2. at' \in DOMAIN lines'
    BY <1>2, <2>1
  <2> QED BY <1>1, <1>2, <2>1, <2>2, TypesKept DEF Loops, Ends, Parsing
<1> QED BY <1>3, <1>4

\* A number that a line holds, and the line of a keyword without it.
LEMMA Values == \A token : ValueOf(token) \in Nat
BY NumeralsAssumption DEF ValueOf

LEMMA KeywordLine ==
  ASSUME NEW line \in Lines, NEW keyword, IsA(line, keyword)
  PROVE  Tail(line) \in Lines /\ line[2] \in STRING
<1>1. Len(line) \in Nat /\ Len(line) > 1 /\ line # << >>
  BY LenProperties, EmptySeq DEF IsA, Lines
<1>2. 2 \in 1 .. Len(line)
  BY <1>1
<1> QED BY <1>1, <1>2, ElementOfSeq, HeadTailProperties DEF Lines

LEMMA SizeTypes ==
  ASSUME TypeOK, TakeSize
  PROVE  TypeOK'
<1>1. stage = "size" /\ stage \in Loops /\ "allocate" \in Loops
      /\ UNCHANGED << source, inComment, roms, asm, cursor, images >>
  BY DEF TakeSize, Loops
<1>2. PICK p \in Parameters :
        /\ sizes' = [sizes EXCEPT ![p] = ValueOf(lines[at][2])]
        /\ lines' = IF p \in {"WIDTH", "DEPTH"} THEN Blank(at) ELSE lines
        /\ IF sizes'[p] > 0 THEN Onward("allocate") ELSE Fail
  BY DEF TakeSize
<1>3. sizes' \in [Parameters -> Nat]
  BY <1>2, Values DEF TypeOK
<1>4. /\ lines \in Seq(Lines)
      /\ \A new \in Lines :
           /\ [lines EXCEPT ![at] = new] \in Seq(Lines)
           /\ Len([lines EXCEPT ![at] = new]) = Len(lines)
  BY <1>1, LineType
<1>5. lines' \in Seq(Lines) /\ Len(lines') = Len(lines)
  BY <1>2, <1>4, EmptyLine DEF Blank
<1>6. /\ at' \in Nat /\ stage' \in {"size", "allocate", "failed"}
      /\ stage' \in Loops => at' \in DOMAIN lines'
  <2>1. CASE Onward("allocate")
    BY <1>1, <1>5, <2>1, OnwardType
  <2>2. CASE Fail
    BY <2>2 DEF Fail, Loops
  <2> QED BY <1>2, <2>1, <2>2
<1> QED BY <1>1, <1>3, <1>5, <1>6 DEF TypeOK, Lines, Loops, Ends

LEMMA VersionTypes ==
  ASSUME TypeOK, TakeVersion
  PROVE  TypeOK'
<1>1. stage = "size" /\ stage \in Loops /\ "allocate" \in Loops /\ Onward("allocate")
      /\ source' = source /\ UNCHANGED parsed /\ inComment' \in BOOLEAN
  BY DEF TakeVersion, Loops, TypeOK
<1>2. /\ lines[at] \in Lines
      /\ \A new \in Lines :
           /\ [lines EXCEPT ![at] = new] \in Seq(Lines)
           /\ Len([lines EXCEPT ![at] = new]) = Len(lines)
  BY <1>1, LineType
<1>3. Tail(lines[at]) \in Lines
  BY <1>2, KeywordLine DEF TakeVersion
<1>4. lines' \in Seq(Lines) /\ Len(lines') = Len(lines)
  BY <1>2, <1>3 DEF TakeVersion
<1>5. at' \in Nat /\ stage' \in {stage, "allocate"} /\ at' \in DOMAIN lines'
  BY <1>1, <1>4, OnwardType
<1> QED BY <1>1, <1>4, <1>5, TypesKept DEF Loops, Parsing

\* The steps that only go to another line.
LEMMA PassingTypes ==
  ASSUME TypeOK, PassOver \/ Ignore \/ NameBitOutside \/ AbortOnEmpty \/ GenerateFails
  PROVE  TypeOK'
<1>1. source' = source /\ lines' = lines /\ UNCHANGED parsed /\ inComment' = inComment
  BY DEF PassOver, Ignore, NameBitOutside, AbortOnEmpty, GenerateFails
<1>2. lines' \in Seq(Lines) /\ inComment' \in BOOLEAN /\ Len(lines') = Len(lines)
  BY <1>1 DEF TypeOK, Lines
<1>3. /\ stage \in {"size", "parse", "generate"}
      /\ \/ stage = "size" /\ Onward("allocate")
         \/ stage = "parse" /\ Onward("generate")
         \/ Fail
  BY DEF PassOver, Ignore, Parses, NameBitOutside, AbortOnEmpty, GenerateFails
<1>4. CASE stage = "size" /\ Onward("allocate")
  <2>1. stage \in Loops /\ "allocate" \in Loops
    BY <1>4 DEF Loops
  <2>2. at' \in Nat /\ stage' \in {stage, "allocate"} /\ at' \in DOMAIN lines'
    BY <1>2, <1>4, <2>1, OnwardType
  <2> QED BY <1>1, <1>2, <1>4, <2>2, TypesKept DEF Loops, Parsing
<1>5. CASE stage = "parse" /\ Onward("generate")
  <2>1. stage \in Loops /\ "generate" \in Loops
    BY <1>5 DEF Loops
  <2>2. at' \in Nat /\ stage' \in {stage, "generate"} /\ at' \in DOMAIN lines'
    BY <1>2, <1>5, <2>1, OnwardType
  <2> QED BY <1>1, <1>2, <1>5, <2>2, TypesKept DEF Loops, Parsing
<1>6. CASE Fail
  <2>1. stage' = "failed" /\ at' = 1
    BY <1>6 DEF Fail
  <2> QED BY <1>1, <1>2, <2>1, TypesKept DEF Loops, Ends, Parsing
<1> QED BY <1>3, <1>4, <1>5, <1>6

LEMMA AllocateTypes ==
  ASSUME TypeOK, Allocate
  PROVE  TypeOK'
<1>1. stage = "allocate" /\ stage \in Loops
      /\ UNCHANGED << source, lines, inComment, sizes, cursor, images >>
  BY DEF Allocate, Loops
<1>2. UNCHANGED << Roms, Bits, Opcodes, Offsets >>
  BY <1>1 DEF Roms, Bits, Opcodes, Offsets
<1>3. at' = 1 /\ (stage' = "parse" \/ stage' = "failed")
  BY DEF Allocate, Fail
<1>4. at' \in DOMAIN lines'
  <2>1. DOMAIN lines = 1 .. Len(lines) /\ at \in 1 .. Len(lines) /\ Len(lines) \in Nat
    BY <1>1, LineType
  <2> QED BY <1>1, <1>3, <2>1
<1>5. asm'.fill \in Seq(STRING) /\ asm'.filled \in BOOLEAN /\ (stage' = "parse" => Tables')
  <2>1. CASE stage' = "failed"
    <3>1. asm' = asm
      BY <2>1 DEF Allocate
    <3> QED BY <2>1, <3>1 DEF TypeOK
  <2>2. CASE stage' = "parse"
    <3>1. /\ roms' = [bits   |-> [r \in Roms |-> [b \in Bits |-> Unnamed]],
                      invert |-> [r \in Roms |-> [b \in Bits |-> FALSE]]]
          /\ asm' = [asm EXCEPT !.words = [op \in Opcodes |-> [k \in Offsets |-> << >>]],
                                !.length = [op \in Opcodes |-> 0]]
      BY <2>2 DEF Allocate, Fail
    <3>2. roms'.bits = [r \in Roms |-> [b \in Bits |-> Unnamed]]
          /\ roms'.invert = [r \in Roms |-> [b \in Bits |-> FALSE]]
      BY <3>1
    <3>3. Unnamed \in BitName
      BY DEF BitName
    <3>4. roms'.bits \in [Roms -> [Bits -> BitName]] /\ roms'.invert \in [Roms -> [Bits -> BOOLEAN]]
      BY <3>2, <3>3
    <3>5. /\ asm'.words = [op \in Opcodes |-> [k \in Offsets |-> << >>]]
          /\ asm'.length = [op \in Opcodes |-> 0]
          /\ asm'.fill = asm.fill /\ asm'.filled = asm.filled
      BY <3>1 DEF TypeOK
    <3>6. << >> \in Seq(STRING)
      BY EmptySeq
    <3>7. asm'.words \in [Opcodes -> [Offsets -> Seq(STRING)]]
          /\ asm'.length \in [Opcodes -> Nat]
      BY <3>5, <3>6
    <3> QED BY <1>2, <3>4, <3>5, <3>7 DEF TypeOK, Tables
  <2> QED BY <1>3, <2>1, <2>2
<1> QED BY <1>1, <1>3, <1>4, <1>5 DEF TypeOK, Loops, Ends, Lines

\* TypeOK of a step of the second pass that goes on.
LEMMA ParsingTypes ==
  ASSUME TypeOK, stage = "parse", Onward("generate") \/ Fail,
         UNCHANGED << source, lines, inComment, sizes, images >>,
         asm'.fill \in Seq(STRING), asm'.filled \in BOOLEAN,
         cursor' \in [mode : {"none", "rom", "asm"}, rom : Int, op : Nat, uop : Nat],
         Tables'
  PROVE  TypeOK'
<1>1. lines' \in Seq(Lines) /\ Len(lines') = Len(lines) /\ stage \in Loops /\ "generate" \in Loops
  BY DEF TypeOK, Lines, Loops
<1>2. /\ at' \in Nat /\ stage' \in {"parse", "generate", "failed"}
      /\ stage' \in Loops => at' \in DOMAIN lines'
  <2>1. CASE Onward("generate")
    BY <1>1, <2>1, OnwardType
  <2>2. CASE Fail
    BY <2>2 DEF Fail, Loops
  <2> QED BY <2>1, <2>2
<1> QED BY <1>1, <1>2 DEF TypeOK, Lines, Loops, Ends

\* What the tables are of, when sizes stay.
LEMMA SameTables ==
  ASSUME UNCHANGED sizes
  PROVE  UNCHANGED << Roms, Bits, Opcodes, Offsets >>
BY DEF Roms, Bits, Opcodes, Offsets

LEMMA CursorTypes ==
  ASSUME TypeOK, StartSection \/ StartRom \/ StartOpcode
  PROVE  TypeOK'
<1>1. /\ stage = "parse" /\ Onward("generate")
      /\ UNCHANGED << source, lines, inComment, sizes, roms, asm, images >>
  BY DEF StartSection, StartRom, StartOpcode, Parses
<1>2. cursor' \in [mode : {"none", "rom", "asm"}, rom : Int, op : Nat, uop : Nat]
  <2>1. CASE StartSection
    BY <2>1 DEF StartSection, TypeOK
  <2>2. CASE StartRom
    <3>1. ValueOf(Line[2]) - 1 \in Int
      BY Values
    <3> QED BY <2>2, <3>1 DEF StartRom, TypeOK
  <2>3. CASE StartOpcode
    <3>1. ValueOf(Line[1]) \in Nat
      BY Values
    <3> QED BY <2>3, <3>1 DEF StartOpcode, TypeOK
  <2> QED BY <2>1, <2>2, <2>3
<1>3. Tables'
  <2>1. Tables
    BY <1>1 DEF TypeOK
  <2> QED BY <1>1, <2>1, SameTables DEF Tables
<1>4. asm'.fill \in Seq(STRING) /\ asm'.filled \in BOOLEAN
  BY <1>1 DEF TypeOK
<1> QED BY <1>1, <1>2, <1>3, <1>4, ParsingTypes

LEMMA FillTypes ==
  ASSUME TypeOK, TakeFill
  PROVE  TypeOK'
<1>1. /\ stage = "parse" /\ stage \in Loops /\ Onward("generate") /\ IsA(Line, "FILL")
      /\ asm' = [asm EXCEPT !.fill = Tail(Line), !.filled = TRUE]
      /\ UNCHANGED << source, lines, inComment, sizes, roms, cursor, images >>
  BY DEF TakeFill, Loops
<1>2. Line \in Lines
  BY <1>1, LineType DEF Line
<1>3. Tail(Line) \in Seq(STRING)
  BY <1>1, <1>2, KeywordLine DEF Lines
<1>4. Tables
  BY <1>1 DEF TypeOK
<1>5. asm'.words = asm.words /\ asm'.length = asm.length
  BY <1>1
<1>6. Tables'
  BY <1>1, <1>4, <1>5, SameTables DEF Tables
<1>7. asm'.fill \in Seq(STRING) /\ asm'.filled \in BOOLEAN
      /\ cursor' \in [mode : {"none", "rom", "asm"}, rom : Int, op : Nat, uop : Nat]
  BY <1>1, <1>3 DEF TypeOK
<1> QED BY <1>1, <1>6, <1>7, ParsingTypes

LEMMA BitTypes ==
  ASSUME TypeOK, NameBit
  PROVE  TypeOK'
<1>1. /\ stage = "parse" /\ stage \in Loops /\ Onward("generate")
      /\ cursor.rom \in Roms /\ Bit \in Bits /\ StartsWithDigit(Line)
      /\ UNCHANGED << source, lines, inComment, sizes, asm, cursor, images >>
  BY DEF NameBit, Parses, Loops
<1>2. Line \in Lines
  BY <1>1, LineType DEF Line
<1>3. Mark \in BitName
  <2>1. Len(Line) \in Nat /\ Len(Line) # 0
    BY <1>1, <1>2, EmptySeq, LenProperties DEF StartsWithDigit, Lines
  <2>2. CASE Len(Line) = 1
    <3>1. Mark = ""
      BY <2>2 DEF Mark
    <3> QED BY <3>1 DEF BitName
  <2>3. CASE Len(Line) # 1
    <3>1. 2 \in 1 .. Len(Line)
      <4> DEFINE n == Len(Line)
      <4>1. n \in Nat /\ n # 0 /\ n # 1
        BY <2>1, <2>3
      <4> HIDE DEF n
      <4>2. 2 \in 1 .. n
        BY <4>1
      <4> QED BY <4>2 DEF n
    <3>2. Line[2] \in STRING /\ Mark = Line[2]
      BY <1>2, <2>3, <3>1, ElementOfSeq DEF Mark, Lines
    <3> QED BY <3>2 DEF BitName
  <2> QED BY <2>2, <2>3
<1> DEFINE name == IF Mark \in DOMAIN Barred THEN Barred[Mark] ELSE Mark
           polarity == Mark \in DOMAIN Barred
<1>4. name \in BitName /\ polarity \in BOOLEAN
  <2> HIDE DEF Mark
  <2>1. CASE Mark \in DOMAIN Barred
    <3>1. Barred[Mark] \in STRING
      BY <2>1, BarredAssumption, Zenon
    <3> QED BY <2>1, <3>1 DEF BitName
  <2>2. CASE Mark \notin DOMAIN Barred
    BY <1>3, <2>2
  <2> QED BY <2>1, <2>2
<1>5. /\ roms'.bits = [roms.bits EXCEPT ![cursor.rom][Bit] = name]
      /\ roms'.invert = [roms.invert EXCEPT ![cursor.rom][Bit] = polarity]
  BY DEF NameBit
<1> HIDE DEF name, polarity
<1>6. Tables
  BY <1>1 DEF TypeOK
<1>7. roms'.bits \in [Roms -> [Bits -> BitName]]
  BY <1>1, <1>4, <1>5, <1>6 DEF Tables
<1>8. roms'.invert \in [Roms -> [Bits -> BOOLEAN]]
  BY <1>1, <1>4, <1>5, <1>6 DEF Tables
<1>9. Tables'
  BY <1>1, <1>6, <1>7, <1>8, SameTables DEF Tables
<1>10. asm'.fill \in Seq(STRING) /\ asm'.filled \in BOOLEAN
       /\ cursor' \in [mode : {"none", "rom", "asm"}, rom : Int, op : Nat, uop : Nat]
  BY <1>1 DEF TypeOK
<1> QED BY <1>1, <1>9, <1>10, ParsingTypes

LEMMA WordTypes ==
  ASSUME TypeOK, AddWord \/ AddWordOutside
  PROVE  TypeOK'
<1>1. /\ stage = "parse" /\ stage \in Loops /\ (Onward("generate") \/ Fail)
      /\ UNCHANGED << source, lines, inComment, sizes, roms, images >>
  BY DEF AddWord, AddWordOutside, AddsWord, Parses, Loops
<1>2. Line \in Seq(STRING)
  BY <1>1, LineType DEF Line, Lines
<1>3. Tables
  BY <1>1 DEF TypeOK
<1>4. cursor.op \in Opcodes => Counted \in [Opcodes -> Nat]
  BY <1>3 DEF Counted, Tables
<1>5. cursor' \in [mode : {"none", "rom", "asm"}, rom : Int, op : Nat, uop : Nat]
  <2>1. cursor' = cursor \/ cursor' = [cursor EXCEPT !.uop = @ + 1]
    BY DEF AddWord, AddWordOutside
  <2> QED BY <2>1 DEF TypeOK
<1>6. /\ asm'.words \in [Opcodes -> [Offsets -> Seq(STRING)]]
      /\ asm'.length \in [Opcodes -> Nat]
      /\ asm'.fill = asm.fill /\ asm'.filled = asm.filled
  <2>1. CASE asm' = asm
    BY <1>3, <2>1 DEF Tables
  <2>2. CASE cursor.op \in Opcodes /\ asm' = [asm EXCEPT !.length = Counted]
    BY <1>3, <1>4, <2>2 DEF Tables
  <2>3. CASE AddWord
    <3>1. /\ cursor.op \in Opcodes /\ cursor.uop \in Offsets
          /\ asm'.words = [asm.words EXCEPT ![cursor.op][cursor.uop] = Line]
          /\ asm'.length = Counted /\ asm'.fill = asm.fill /\ asm'.filled = asm.filled
      BY <2>3 DEF AddWord
    <3>2. asm'.words \in [Opcodes -> [Offsets -> Seq(STRING)]]
      BY <1>2, <1>3, <3>1 DEF Tables
    <3> QED BY <1>4, <3>1, <3>2
  <2> QED BY <2>1, <2>2, <2>3 DEF AddWordOutside
<1>7. Tables'
  BY <1>1, <1>3, <1>6, SameTables DEF Tables
<1>8. asm'.fill \in Seq(STRING) /\ asm'.filled \in BOOLEAN
  BY <1>6 DEF TypeOK
<1> QED BY <1>1, <1>5, <1>7, <1>8, ParsingTypes

LEMMA GenerateTypes ==
  ASSUME TypeOK, Generate
  PROVE  TypeOK'
<1>1. /\ stage = "generate" /\ stage' = "done" /\ at' = 1
      /\ UNCHANGED << source, lines, inComment, sizes, roms, asm, cursor >>
  BY DEF Generate
<1>2. PICK guess, guessFill : images' = Image(guess, guessFill)
  BY DEF Generate
<1>3. images' \in [Roms -> [0 .. (sizes["ASM"] * sizes["DEPTH"]) - 1 -> SUBSET Bits]]
  BY <1>2, Zenon DEF Image
<1>4. Tables'
  <2>1. Tables
    BY <1>1 DEF TypeOK
  <2> QED BY <1>1, <2>1, SameTables DEF Tables
<1>5. images' \in [Roms' -> [0 .. (sizes'["ASM"] * sizes'["DEPTH"]) - 1 -> SUBSET Bits']]
  BY <1>1, <1>3, SameTables
<1> QED BY <1>1, <1>4, <1>5 DEF TypeOK, Loops, Ends

LEMMA InitTypes == Init => TypeOK
<1> SUFFICES ASSUME Init PROVE TypeOK
  OBVIOUS
<1>1. source \in Seq(Lines) /\ lines = source /\ at = 1 /\ inComment = FALSE
  BY SourcesAssumption DEF Init, Lines
<1>2. stage \in {"failed", "strip"} /\ (stage = "strip" => source # << >>)
  BY DEF Init
<1>3. stage \in Loops => at \in DOMAIN lines
  <2> SUFFICES ASSUME stage = "strip" PROVE 1 \in DOMAIN source
    BY <1>1, <1>2 DEF Loops
  <2>1. Len(source) \in Nat \ {0} /\ DOMAIN source = 1 .. Len(source)
    BY <1>1, <1>2, EmptySeq, LenProperties
  <2> QED BY <2>1
<1>4. /\ sizes \in [Parameters -> Nat]
      /\ asm.fill \in Seq(STRING) /\ asm.filled \in BOOLEAN
      /\ cursor \in [mode : {"none", "rom", "asm"}, rom : Int, op : Nat, uop : Nat]
  BY EmptySeq DEF Init
<1> QED BY <1>1, <1>2, <1>3, <1>4 DEF TypeOK, Loops, Ends, Lines

LEMMA TypeStep == TypeOK /\ [Next]_vars => TypeOK'
<1> SUFFICES ASSUME TypeOK, [Next]_vars PROVE TypeOK'
  OBVIOUS
<1>1. CASE Next
  BY <1>1, StripTypes, SquishTypes, MeasureTypes, SizeTypes, VersionTypes, PassingTypes,
     AllocateTypes, CursorTypes, FillTypes, BitTypes, WordTypes, GenerateTypes
     DEF Next, Parse
<1>2. CASE UNCHANGED vars
  BY <1>2 DEF vars, TypeOK, Tables, Roms, Bits, Opcodes, Offsets
<1> QED BY <1>1, <1>2

(* The types of the model, whatever the source: what parseUasm writes      *)
(* inside of its tables is of the kind and in the place it was allocated   *)
(* for.  It says nothing of what the code writes outside of them.          *)
THEOREM MicroassemblerTypesAlways == Spec => []TypeOK
BY InitTypes, TypeStep, PTL DEF Spec

-----------------------------------------------------------------------------
(* The lines that the first loops leave.  CodeSoFar is the inductive       *)
(* invariant: what each of the loops has done when it is at a line.        *)

\* removeCommentsAndWhitespace: the lines that are done hold their code.
Stripped ==
  /\ Len(lines) = Len(source)
  /\ \A i \in 1 .. Len(source) :
       lines[i] = IF i < at THEN CodeOf(source, i) ELSE source[i]
  /\ inComment <=> Inside(source, at)

\* removeEmptyLines, before line r: the code of the first b lines is in its
\* place, with no empty line among it; the lines behind are as they were, and
\* empty up to b.  Either every place before r is taken, or no code is left.
SquishedFrom(r, b) ==
  /\ Len(lines) = Len(source)
  /\ \/ Rank(source, b) = r - 1
     \/ Rank(source, b) < r - 1 /\ Rank(source, Len(source)) = Rank(source, b)
  /\ \A i \in CodeLines(source) : i <= b => lines[Rank(source, i)] = CodeOf(source, i)
  /\ \A n \in 1 .. Rank(source, b) : lines[n] # << >>
  /\ \A j \in Rank(source, b) + 1 .. Len(source) :
       lines[j] = IF j > b THEN CodeOf(source, j) ELSE << >>
Squished(r) == \E b \in 0 .. Len(source) : SquishedFrom(r, b)

CodeSoFar ==
  PlainComments(source) =>
    /\ stage = "strip" => Stripped
    /\ stage = "squish" => Squished(at)
    /\ stage = "measure" => Squished(Len(source) + 1)
    /\ LinesAreCode

\* What removeCommentsAndWhitespace makes of one line.
LEMMA StripLine ==
  ASSUME TypeOK, Strip, PlainComments(source), Stripped
  PROVE  /\ lines' = [lines EXCEPT ![at] = CodeOf(source, at)]
         /\ inComment' <=> Inside(source, at + 1)
<1> DEFINE line == source[at]
<1>1. stage \in Loops /\ at \in 1 .. Len(lines) /\ at \in Nat \ {0} /\ Len(lines) = Len(source)
  <2>1. stage \in Loops
    BY DEF Strip, Loops
  <2> QED BY <2>1, LineType DEF Stripped
<1>2. lines[at] = line /\ line \in Lines /\ at \in DOMAIN source
  <2>1. lines[at] = line
    BY <1>1 DEF Stripped
  <2>2. source \in Seq(Lines) /\ at \in 1 .. Len(source)
    BY <1>1 DEF TypeOK, Lines
  <2> QED BY <2>1, <2>2, ElementOfSeq, LenProperties
<1>3. /\ ~(Has(line, Opening) /\ Has(line, Closing))
      /\ ~Has(After(line, Semicolon), Closing) /\ ~Has(After(line, Slashes), Closing)
  BY <1>2 DEF PlainComments
<1>4. inComment <=> Inside(source, at)
  BY DEF Stripped
<1>5. Inside(source, at + 1) <=> Opens(line) \/ (inComment /\ ~Has(line, Closing))
  BY <1>1, <1>4, InsideNext
<1>6. /\ ~inComment => CodeOf(source, at) = SubSeq(line, 1, CodeEnd(line) - 1)
      /\ inComment => CodeOf(source, at)
                        = SubSeq(After(line, Closing), 1, CodeEnd(After(line, Closing)) - 1)
  BY <1>4 DEF CodeOf, CodeEnd
<1>7. \/ /\ ~inComment /\ inComment' = Has(Text(line), Opening)
         /\ lines' = [lines EXCEPT ![at] = Before(Text(line), Opening)]
      \/ /\ inComment /\ Has(Text(line), Closing) /\ inComment' = FALSE
         /\ lines' = [lines EXCEPT ![at] = After(Text(line), Closing)]
      \/ /\ inComment /\ ~Has(Text(line), Closing) /\ inComment' = inComment
         /\ lines' = [lines EXCEPT ![at] = << >>]
  BY <1>2 DEF Strip, Text, Blank
<1>8. /\ Has(Text(line), Opening) <=> Opens(line)
      /\ Has(Text(line), Closing) => Has(line, Closing)
      /\ Opens(line) => Has(line, Opening)
  <2>1. /\ TextEnd(line) \in 1 .. Len(line) + 1
        /\ Has(Text(line), Opening) <=> Place(line, Opening) < TextEnd(line)
        /\ Has(Text(line), Closing) <=> Place(line, Closing) < TextEnd(line)
    BY <1>2, TextFacts
  <2>2. /\ Has(line, Opening) <=> Place(line, Opening) <= Len(line)
        /\ Has(line, Closing) <=> Place(line, Closing) <= Len(line)
    BY <1>2, PlaceFacts
  <2>3. /\ Place(line, Semicolon) \in Nat /\ Place(line, Slashes) \in Nat
        /\ Place(line, Opening) \in Nat /\ Place(line, Closing) \in Nat
        /\ Len(line) \in Nat
        /\ Place(line, Semicolon) <= Len(line) + 1 /\ Place(line, Slashes) <= Len(line) + 1
    BY <1>2, PlaceRange
  <2> HIDE DEF line
  <2> QED BY <2>1, <2>2, <2>3 DEF Opens, TextEnd
<1> HIDE DEF line
<1>9. CASE ~inComment
  <2>1. Before(Text(line), Opening) = CodeOf(source, at)
    BY <1>2, <1>6, <1>9, OutsideLine
  <2>2. inComment' = Has(Text(line), Opening)
        /\ lines' = [lines EXCEPT ![at] = Before(Text(line), Opening)]
    BY <1>7, <1>9
  <2> QED BY <1>5, <1>8, <1>9, <2>1, <2>2
<1>10. CASE inComment /\ Has(Text(line), Closing)
  <2>1. After(Text(line), Closing) = CodeOf(source, at)
    BY <1>2, <1>3, <1>6, <1>8, <1>10, ClosingLine
  <2>2. inComment' = FALSE /\ lines' = [lines EXCEPT ![at] = After(Text(line), Closing)]
    BY <1>7, <1>10
  <2> QED BY <1>3, <1>5, <1>8, <1>10, <2>1, <2>2
<1>11. CASE inComment /\ ~Has(Text(line), Closing)
  <2>1. ~Has(line, Closing)
    BY <1>2, <1>3, <1>11, CommentLine
  <2>2. CodeOf(source, at) = << >>
    BY <1>2, <1>6, <1>11, <2>1, NothingAfter
  <2>3. inComment' = inComment /\ lines' = [lines EXCEPT ![at] = << >>]
    BY <1>7, <1>11
  <2> QED BY <1>5, <1>11, <2>1, <2>2, <2>3
<1> QED BY <1>9, <1>10, <1>11

LEMMA StripKeeps ==
  ASSUME TypeOK, TypeOK', Strip, PlainComments(source), Stripped
  PROVE  \/ stage' = "strip" /\ Stripped'
         \/ stage' = "squish" /\ Squished(at)'
<1>1. source' = source /\ Onward("squish") /\ stage = "strip" /\ stage \in Loops
  BY DEF Strip, Loops
<1>2. /\ lines' = [lines EXCEPT ![at] = CodeOf(source, at)]
      /\ inComment' <=> Inside(source, at + 1)
  BY StripLine
<1>3. /\ lines \in Seq(Lines) /\ Len(lines) \in Nat /\ at \in 1 .. Len(lines)
      /\ source \in Seq(Lines) /\ Len(lines) = Len(source)
  BY <1>1, LineType DEF TypeOK, Lines, Stripped
<1>4. \A i \in 1 .. Len(source) :
        lines'[i] = IF i = at THEN CodeOf(source, at) ELSE lines[i]
  BY <1>2, <1>3, Changed
<1>5. \A i \in 1 .. Len(source) :
        lines'[i] = IF i < at + 1 THEN CodeOf(source, i) ELSE source[i]
  <2> SUFFICES ASSUME NEW i \in 1 .. Len(source)
               PROVE lines'[i] = IF i < at + 1 THEN CodeOf(source, i) ELSE source[i]
    OBVIOUS
  <2>1. lines[i] = IF i < at THEN CodeOf(source, i) ELSE source[i]
    BY DEF Stripped
  <2>2. i < at + 1 <=> i < at \/ i = at
    BY <1>3
  <2>3. lines'[i] = IF i = at THEN CodeOf(source, at) ELSE lines[i]
    BY <1>4
  <2> QED BY <2>1, <2>2, <2>3
<1>6. Len(lines') = Len(source)
  <2>1. DOMAIN lines' = DOMAIN lines /\ lines' \in Seq(Lines)
    BY <1>2 DEF TypeOK, Lines
  <2> QED BY <1>3, <2>1, LenProperties
<1>7. CASE at < Len(lines)
  <2>1. at' = at + 1 /\ stage' = "strip"
    BY <1>1, <1>7 DEF Onward
  <2>2. Stripped'
    BY <1>1, <1>2, <1>5, <1>6, <2>1 DEF Stripped
  <2> QED BY <2>1, <2>2
<1>8. CASE ~(at < Len(lines))
  <2>1. at' = 1 /\ stage' = "squish" /\ at = Len(source)
    BY <1>1, <1>3, <1>8 DEF Onward
  <2>2. \A i \in 1 .. Len(source) : lines'[i] = CodeOf(source, i)
    BY <1>3, <1>5, <2>1
  <2>3. /\ Rank(source, 0) = 0 /\ CodeLines(source) \subseteq 1 .. Len(source)
    BY <1>3, RankFacts
  <2>4. SquishedFrom(1, 0)'
    <3>1. \A i \in CodeLines(source) : ~(i <= 0)
      BY <1>3, <2>3
    <3>2. \A n \in 1 .. Rank(source, 0) : FALSE
      BY <2>3
    <3>3. \A j \in Rank(source, 0) + 1 .. Len(source) : j \in 1 .. Len(source) /\ j > 0
      BY <1>3, <2>3
    <3> QED BY <1>1, <1>6, <2>2, <2>3, <3>1, <3>2, <3>3 DEF SquishedFrom
  <2>5. 0 \in 0 .. Len(source')
    BY <1>1, <1>3
  <2>6. Squished(1)'
    BY <2>4, <2>5 DEF Squished
  <2>7. Squished(at)'
    BY <2>1, <2>6 DEF Squished
  <2> QED BY <2>1, <2>7
<1> QED BY <1>7, <1>8

LEMMA SquishKeepsCode ==
  ASSUME TypeOK, Squish, NEW CONSTANT r, r = at,
         NEW CONSTANT b \in 0 .. Len(source), SquishedFrom(r, b)
  PROVE  \E c \in 0 .. Len(source) : SquishedFrom(r + 1, c)'
<1> DEFINE N == Len(source)
           code(i) == CodeOf(source, i)
           C == CodeLines(source)
           rank(i) == Rank(source, i)
           m == Rank(source, b)
           later == { j \in r + 1 .. Len(lines) : lines[j] # << >> }
<1>1. source' = source /\ stage = "squish" /\ stage \in Loops /\ source \in Seq(Lines)
  BY DEF Squish, Loops, TypeOK, Lines
<1>2. /\ lines \in Seq(Lines) /\ N \in Nat /\ Len(lines) = N /\ r \in 1 .. N /\ b \in 0 .. N
  BY <1>1, LineType DEF SquishedFrom
<1>3. /\ C \subseteq 1 .. N /\ m \in Nat /\ m <= b
      /\ \A i \in 0 .. N : rank(i) \in Nat /\ rank(i) <= i
      /\ \A i \in 1 .. N : rank(i) = rank(i - 1) + IF i \in C THEN 1 ELSE 0
      /\ \A i, j \in 0 .. N : i <= j => rank(i) <= rank(j)
  BY <1>1, <1>2, RankFacts
<1>4. /\ m = r - 1 \/ (m < r - 1 /\ rank(N) = m)
      /\ \A i \in C : i <= b => lines[rank(i)] = code(i)
      /\ \A n \in 1 .. m : lines[n] # << >>
      /\ \A j \in m + 1 .. N : lines[j] = IF j > b THEN code(j) ELSE << >>
  BY DEF SquishedFrom
<1>5. \A i \in 1 .. N : i \in C <=> code(i) # << >>
  <2>1. DOMAIN source = 1 .. N
    BY <1>1, LenProperties
  <2> QED BY <2>1 DEF CodeLines, IsBlank
<1>6. \/ lines' = lines /\ (lines[r] # << >> \/ later = {})
      \/ /\ lines[r] = << >> /\ later # {}
         /\ lines' = [[lines EXCEPT ![r] = lines[Min(later)]] EXCEPT ![Min(later)] = << >>]
  BY DEF Squish
<1>7. \A c \in 0 .. N :
        /\ Len(lines') = N
        /\ rank(c) = r \/ (rank(c) < r /\ rank(N) = rank(c))
        /\ \A i \in C : i <= c => lines'[rank(i)] = code(i)
        /\ \A n \in 1 .. rank(c) : lines'[n] # << >>
        /\ \A j \in rank(c) + 1 .. N : lines'[j] = IF j > c THEN code(j) ELSE << >>
        => SquishedFrom(r + 1, c)'
  <2>1. (r + 1) - 1 = r
    BY <1>2
  <2> QED BY <1>1, <2>1 DEF SquishedFrom
<1>8. \A i \in b + 1 .. N : rank(N) = m => i \notin C
  BY <1>1, NoCodeLeft
<1>9. ASSUME NEW j \in r + 1 .. N, later = {} PROVE lines[j] = << >>
  BY <1>2, <1>9
<1>10. ASSUME NEW j \in b + 1 .. N, \A i \in b + 1 .. j : i \notin C PROVE rank(j) = m
  <2>1. j \in 0 .. N /\ b <= j
    BY <1>2
  <2> QED BY <1>1, <1>10, <2>1, RankStays
<1>11. later \subseteq Nat /\ (later # {} => Min(later) \in later /\ \A j \in later : Min(later) <= j)
  <2>1. later \subseteq Nat
    BY <1>2
  <2> HIDE DEF later
  <2> QED BY <2>1, MinIsLeast
<1>12. \A j : j \in later <=> j \in r + 1 .. N /\ lines[j] # << >>
  BY <1>2
<1>13. Len(lines') = N
  <2>1. Squish => TypeOK'
    BY SquishTypes
  <2>2. lines' \in Seq(Lines)
    BY <2>1 DEF TypeOK, Lines
  <2>3. DOMAIN lines' = DOMAIN lines
    BY <1>6
  <2> QED BY <1>2, <2>2, <2>3, LenProperties
<1> HIDE DEF N, code, C, rank, m, later
<1>14. \E c \in 0 .. N :
         /\ rank(c) = r \/ (rank(c) < r /\ rank(N) = rank(c))
         /\ \A i \in C : i <= c => lines'[rank(i)] = code(i)
         /\ \A n \in 1 .. rank(c) : lines'[n] # << >>
         /\ \A j \in rank(c) + 1 .. N : lines'[j] = IF j > c THEN code(j) ELSE << >>
  <2>1. CASE lines[r] # << >> /\ m = r - 1
    <3>1. r > b /\ lines[r] = code(r)
      BY <1>2, <1>3, <1>4, <2>1
    <3>2. r = b + 1 /\ r - 1 = b /\ r \in 0 .. N /\ r \in C
      BY <1>2, <1>3, <1>5, <2>1, <3>1
    <3>3. rank(r) = r
      BY <1>2, <1>3, <2>1, <3>2 DEF m, rank
    <3>4. lines' = lines
      BY <1>6, <2>1
    <3>5. \A i \in C : i <= r => lines[rank(i)] = code(i)
      <4>1. \A i \in C : i <= r => i <= b \/ i = r
        BY <1>2, <1>3, <3>2
      <4> QED BY <1>4, <3>1, <3>3, <4>1
    <3>6. \A n \in 1 .. r : lines[n] # << >>
      <4>1. \A n \in 1 .. r : n \in 1 .. m \/ n = r
        BY <1>2, <2>1
      <4> QED BY <1>4, <2>1, <4>1
    <3>7. \A j \in r + 1 .. N : lines[j] = IF j > r THEN code(j) ELSE << >>
      <4>1. \A j \in r + 1 .. N : j \in m + 1 .. N /\ j > b /\ j > r
        BY <1>2, <1>3, <2>1, <3>2
      <4> QED BY <1>4, <4>1
    <3> QED BY <3>2, <3>3, <3>4, <3>5, <3>6, <3>7
  <2>2. CASE lines[r] = << >> /\ later # {} /\ m = r - 1
    <3> DEFINE k == Min(later)
               first == [lines EXCEPT ![r] = lines[k]]
    <3>1. k \in r + 1 .. N /\ lines[k] # << >> /\ \A j \in later : k <= j
      BY <1>11, <1>12, <2>2
    <3>2. lines' = [first EXCEPT ![k] = << >>]
      BY <1>6, <2>2
    <3> HIDE DEF k
    <3>3. /\ k \in 1 .. N /\ k \in 0 .. N /\ k - 1 \in 0 .. N /\ k \in m + 1 .. N /\ k > r /\ k > m
      BY <1>2, <1>3, <2>2, <3>1
    <3>4. k > b /\ lines[k] = code(k) /\ k \in C
      BY <1>4, <1>5, <3>1, <3>3
    <3>5. ASSUME NEW i \in b + 1 .. k - 1 PROVE i \notin C
      <4>1. i \in m + 1 .. N /\ i \in 1 .. N /\ i > b /\ i < k /\ i >= r
        BY <1>2, <1>3, <2>2, <3>3
      <4>2. lines[i] = code(i)
        BY <1>4, <4>1
      <4>3. CASE i = r
        BY <1>5, <2>2, <4>1, <4>2, <4>3
      <4>4. CASE i # r
        <5>1. i \in r + 1 .. N /\ ~(k <= i)
          BY <1>2, <3>3, <4>1, <4>4
        <5>2. lines[i] = << >>
          BY <1>12, <3>1, <5>1
        <5> QED BY <1>5, <4>1, <4>2, <5>2
      <4> QED BY <4>3, <4>4
    <3>6. rank(k - 1) = m
      <4>1. CASE k - 1 = b
        BY <4>1 DEF rank, m
      <4>2. CASE k - 1 # b
        <5>1. k - 1 \in b + 1 .. N
          BY <1>2, <3>3, <3>4, <4>2
        <5> QED BY <1>10, <3>5, <5>1
      <4> QED BY <4>1, <4>2
    <3>7. rank(k) = r
      BY <1>2, <1>3, <2>2, <3>3, <3>4, <3>6
    <3>8. \A j \in 1 .. N :
            lines'[j] = IF j = k THEN << >> ELSE IF j = r THEN lines[k] ELSE lines[j]
      <4>1. lines \in Seq(Lines) /\ r \in 1 .. Len(lines)
        BY <1>2
      <4>2. \A j \in 1 .. N : first[j] = IF j = r THEN lines[k] ELSE lines[j]
        BY <1>2, <4>1, Changed
      <4>3. DOMAIN first = 1 .. N
        BY <1>2, LenProperties
      <4> HIDE DEF first
      <4> QED BY <3>2, <3>3, <4>2, <4>3
    <3>9. ASSUME NEW i \in C, i <= k PROVE lines'[rank(i)] = code(i)
      <4>0. i \in 1 .. N /\ k \in Int /\ b \in Int
        BY <1>2, <1>3, <3>3
      <4>1. CASE i <= b
        <5>1. rank(i) \in Nat /\ rank(i) <= m
          <6>1. i \in 0 .. N /\ b \in 0 .. N
            BY <1>2, <4>0
          <6> QED BY <1>3, <4>1, <6>1 DEF m, rank
        <5>2. rank(i) \in 1 .. N /\ rank(i) # k /\ rank(i) # r
          <6>1. rank(i) = rank(i - 1) + 1 /\ rank(i - 1) \in Nat
            <7>1. i - 1 \in 0 .. N
              BY <1>2, <4>0
            <7> QED BY <1>3, <3>9, <4>0, <7>1
          <6> QED BY <1>2, <2>2, <3>3, <5>1, <6>1
        <5>3. lines'[rank(i)] = lines[rank(i)]
          BY <3>8, <5>2
        <5> QED BY <1>4, <4>1, <5>3
      <4>2. CASE ~(i <= b)
        <5>1. i = k
          <6>1. i \notin b + 1 .. k - 1
            BY <3>5, <3>9
          <6> QED BY <3>9, <4>0, <4>2, <6>1
        <5>2. lines'[r] = lines[k]
          BY <1>2, <3>3, <3>8
        <5> QED BY <3>4, <3>7, <5>1, <5>2
      <4> QED BY <4>1, <4>2
    <3>10. ASSUME NEW n \in 1 .. r PROVE lines'[n] # << >>
      <4>1. n \in 1 .. N /\ n # k /\ (n = r \/ n \in 1 .. m)
        BY <1>2, <2>2, <3>3
      <4> QED BY <1>4, <3>1, <3>8, <4>1
    <3>11. ASSUME NEW j \in r + 1 .. N PROVE lines'[j] = IF j > k THEN code(j) ELSE << >>
      <4>1. j \in 1 .. N /\ j # r /\ j \in m + 1 .. N
        BY <1>2, <1>3, <2>2
      <4>2. CASE j > k
        <5>1. j # k /\ j > b
          BY <1>2, <3>3, <3>4, <4>1, <4>2
        <5> QED BY <1>4, <3>8, <4>1, <4>2, <5>1
      <4>3. CASE j = k
        BY <3>3, <3>8, <4>1, <4>3
      <4>4. CASE ~(j > k) /\ j # k
        <5>1. ~(k <= j)
          BY <3>3, <4>1, <4>4
        <5>2. lines[j] = << >>
          BY <1>12, <3>1, <5>1
        <5> QED BY <3>8, <4>1, <4>4, <5>2
      <4> QED BY <4>2, <4>3, <4>4
    <3> QED BY <3>3, <3>7, <3>9, <3>10, <3>11
  <2>3. CASE (lines[r] = << >> /\ later = {} /\ m = r - 1) \/ m < r - 1
    <3>1. \A i \in b + 1 .. N : i \notin C
      <4>1. CASE m < r - 1
        BY <1>2, <1>3, <1>4, <1>8, <4>1
      <4>2. CASE lines[r] = << >> /\ later = {} /\ m = r - 1
        <5> SUFFICES ASSUME NEW i \in b + 1 .. N PROVE i \notin C
          OBVIOUS
        <5>1. i \in m + 1 .. N /\ i \in 1 .. N /\ i > b /\ (i = r \/ i \in r + 1 .. N)
          BY <1>2, <1>3, <4>2
        <5>2. lines[i] = code(i) /\ lines[i] = << >>
          BY <1>4, <1>9, <4>2, <5>1
        <5> QED BY <1>5, <5>1, <5>2
      <4> QED BY <2>3, <4>1, <4>2
    <3>2. rank(N) = m
      <4>1. CASE N = b
        BY <4>1 DEF rank, m
      <4>2. CASE N # b
        <5>1. N \in b + 1 .. N
          BY <1>2, <4>2
        <5> QED BY <1>10, <3>1, <5>1
      <4> QED BY <4>1, <4>2
    <3>3. ASSUME m < r - 1, NEW j \in m + 1 .. N PROVE lines[j] = << >>
      <4>1. j \in 1 .. N /\ (j > b => j \in b + 1 .. N)
        BY <1>2, <1>3
      <4> QED BY <1>4, <1>5, <3>1, <4>1
    <3>4. lines' = lines
      <4>1. CASE m < r - 1
        <5>1. r \in m + 1 .. N /\ \A j \in r + 1 .. N : j \in m + 1 .. N
          BY <1>2, <1>3, <4>1
        <5>2. lines[r] = << >> /\ later = {}
          BY <1>12, <3>3, <4>1, <5>1
        <5> QED BY <1>6, <5>2
      <4>2. CASE later = {} /\ m = r - 1
        BY <1>6, <4>2
      <4> QED BY <2>3, <4>1, <4>2
    <3>5. rank(b) = m
      BY DEF rank, m
    <3>6. rank(b) < r
      BY <1>2, <1>3, <2>3, <3>5
    <3> QED BY <1>2, <1>4, <3>2, <3>4, <3>5, <3>6
  <2> QED BY <1>4, <2>1, <2>2, <2>3
<1> QED BY <1>1, <1>7, <1>13, <1>14 DEF N

LEMMA SquishKeeps ==
  ASSUME TypeOK, Squish, Squished(at)
  PROVE  \/ stage' = "squish" /\ Squished(at)'
         \/ stage' = "measure" /\ Squished(Len(source) + 1)'
<1>1. PICK r : r = at
  OBVIOUS
<1>2. PICK b \in 0 .. Len(source) : SquishedFrom(r, b)
  BY <1>1 DEF Squished
<1>3. PICK n : n = Len(source)
  OBVIOUS
<1>4. \E c \in 0 .. n : SquishedFrom(r + 1, c)'
  BY <1>1, <1>2, <1>3, SquishKeepsCode
<1>5. source' = source /\ stage = "squish" /\ stage \in Loops /\ Onward("measure")
  BY DEF Squish, Loops
<1>6. /\ Len(lines) = n /\ n \in Nat /\ r \in 1 .. n
  BY <1>1, <1>2, <1>3, <1>5, LineType DEF SquishedFrom
<1>7. Squished(r + 1)'
  BY <1>3, <1>4, <1>5 DEF Squished
<1>8. CASE at < Len(lines)
  <2>1. at' = r + 1 /\ stage' = "squish"
    BY <1>1, <1>5, <1>8 DEF Onward
  <2>2. Squished(at)'
    BY <1>7, <2>1 DEF Squished, SquishedFrom
  <2> QED BY <2>1, <2>2
<1>9. CASE ~(at < Len(lines))
  <2>1. stage' = "measure" /\ r = Len(source)'
    BY <1>1, <1>3, <1>5, <1>6, <1>9 DEF Onward
  <2>2. Squished(Len(source) + 1)'
    BY <1>7, <2>1 DEF Squished, SquishedFrom
  <2> QED BY <2>1, <2>2
<1> QED BY <1>8, <1>9

\* What removeEmptyLines leaves, whether or not its scan found an empty line.
LEMMA MeasureKeeps ==
  ASSUME TypeOK, Measure \/ MeasureOverrun, Squished(Len(source) + 1), stage' = "size"
  PROVE  /\ Len(lines') = Cardinality(CodeLines(source))
         /\ \A i \in CodeLines(source) : lines'[Rank(source, i)] = CodeOf(source, i)
<1> DEFINE N == Len(source)
           C == CodeLines(source)
           rank(i) == Rank(source, i)
           code(i) == CodeOf(source, i)
<1>1. /\ stage \in Loops /\ source \in Seq(Lines) /\ N \in Nat
  BY LenProperties DEF Measure, MeasureOverrun, Loops, TypeOK, Lines
<1>2. PICK b \in 0 .. N : SquishedFrom(N + 1, b)
  BY DEF Squished
<1>3. /\ lines \in Seq(Lines) /\ Len(lines) = N /\ DOMAIN lines = 1 .. N
  BY <1>1, <1>2, LineType DEF SquishedFrom
<1> DEFINE m == Rank(source, b)
<1>4. /\ C \subseteq 1 .. N /\ Cardinality(C) = rank(N) /\ m \in Nat /\ m <= N
      /\ rank(N) \in Nat /\ m <= rank(N) /\ rank(N) <= N
  <2>1. N \in 0 .. N /\ b \in 0 .. N /\ b <= N
    BY <1>1, <1>2
  <2>2. rank(N) \in Nat /\ m \in Nat /\ m <= b /\ m <= rank(N) /\ rank(N) <= N
    BY <1>1, <2>1, RankFacts
  <2>3. C \subseteq 1 .. N /\ Cardinality(C) = rank(N)
    BY <1>1, RankFacts
  <2> HIDE DEF m, rank, N
  <2> QED BY <1>1, <2>1, <2>2, <2>3
<1>5. /\ m = (N + 1) - 1 \/ (m < (N + 1) - 1 /\ rank(N) = m)
      /\ \A i \in C : i <= b => lines[rank(i)] = code(i)
      /\ \A n \in 1 .. m : lines[n] # << >>
      /\ \A j \in m + 1 .. N : lines[j] = IF j > b THEN code(j) ELSE << >>
  BY <1>2 DEF SquishedFrom
<1>6. rank(N) = m
  <2> HIDE DEF m, N, rank
  <2> QED BY <1>1, <1>4, <1>5
<1>7. \A i \in b + 1 .. N : i \notin C /\ (i \in 1 .. N => code(i) = << >>)
  <2> SUFFICES ASSUME NEW i \in b + 1 .. N
               PROVE i \notin C /\ (i \in 1 .. N => code(i) = << >>)
    OBVIOUS
  <2>1. i \notin C
    BY <1>1, <1>2, <1>6, NoCodeLeft
  <2> QED BY <1>3, <1>1, <2>1, LenProperties DEF CodeLines, IsBlank
<1>8. \A j \in m + 1 .. N : lines[j] = << >>
  <2> HIDE DEF m, N, code, C
  <2> QED BY <1>1, <1>2, <1>4, <1>5, <1>7
<1>9. ASSUME NEW i \in C PROVE rank(i) \in 1 .. m /\ lines[rank(i)] = code(i)
  <2>1. i \in 1 .. N /\ i \in 0 .. N /\ i - 1 \in 0 .. N
    BY <1>1, <1>4
  <2>2. i <= b
    <3> HIDE DEF N, C
    <3> QED BY <1>1, <1>2, <1>7, <2>1
  <2>3. rank(i) = rank(i - 1) + 1 /\ rank(i - 1) \in Nat /\ rank(i) <= m
    BY <1>1, <1>2, <2>1, <2>2, RankFacts
  <2> HIDE DEF m, rank
  <2> QED BY <1>4, <1>5, <2>2, <2>3
<1> HIDE DEF N, C, rank, code, m
<1>10. CASE MeasureOverrun
  <2>1. lines' = lines /\ Empties = {}
    BY <1>10 DEF MeasureOverrun
  <2>2. m = N
    <3> SUFFICES ASSUME m < N PROVE FALSE
      BY <1>1, <1>4
    <3>1. m + 1 \in 1 .. N /\ m + 1 \in m + 1 .. N
      BY <1>1, <1>4
    <3>2. lines[m + 1] = << >>
      BY <1>8, <3>1
    <3> QED BY <1>3, <2>1, <3>1, <3>2 DEF Empties
  <2> QED BY <1>3, <1>4, <1>6, <1>9, <2>1, <2>2 DEF C, rank, code
<1>11. CASE Measure
  <2>1. Empties # {} /\ lines' = SubSeq(lines, 1, Min(Empties) - 1)
    BY <1>11 DEF Measure
  <2>2. Empties \subseteq Nat
    BY <1>1, <1>3 DEF Empties
  <2>3. /\ Min(Empties) \in 1 .. N /\ lines[Min(Empties)] = << >>
        /\ \A i \in 1 .. N : lines[i] = << >> => Min(Empties) <= i
    BY <1>3, <2>1, <2>2, MinIsLeast DEF Empties
  <2>4. Min(Empties) = m + 1
    <3> DEFINE k == Min(Empties)
    <3>1. k \in 1 .. N /\ k \notin 1 .. m
      BY <1>5, <2>3
    <3> HIDE DEF k
    <3>2. m + 1 \in 1 .. N /\ m + 1 \in m + 1 .. N /\ k >= m + 1
      BY <1>1, <1>4, <3>1
    <3>3. k <= m + 1
      BY <1>8, <2>3, <3>2 DEF k
    <3> QED BY <1>4, <3>1, <3>2, <3>3 DEF k
  <2>5. lines' = SubSeq(lines, 1, m)
    <3>1. (m + 1) - 1 = m
      BY <1>4
    <3> QED BY <2>1, <2>4, <3>1
  <2>6. \A i \in 1 .. m : lines[i] \in Lines
    <3>1. \A i \in 1 .. m : i \in 1 .. Len(lines)
      BY <1>1, <1>3, <1>4
    <3> QED BY <1>3, <3>1, ElementOfSeq
  <2>7. Len(lines') = m /\ \A i \in 1 .. m : lines'[i] = lines[i]
    <3>1. /\ Len(lines') = IF 1 <= m THEN m - 1 + 1 ELSE 0
          /\ \A i \in 1 .. m - 1 + 1 : lines'[i] = lines[1 + i - 1]
      BY <1>4, <2>5, <2>6, SubSeqProperties
    <3>2. m - 1 + 1 = m /\ Len(lines') = m
      BY <1>4, <3>1
    <3>3. \A i \in 1 .. m : 1 + i - 1 = i
      BY <1>4
    <3> QED BY <3>1, <3>2, <3>3
  <2> QED BY <1>4, <1>6, <1>9, <2>7 DEF C, rank, code
<1> QED BY <1>10, <1>11

LEMMA CodeStep == TypeOK /\ TypeOK' /\ CodeSoFar /\ [Next]_vars => CodeSoFar'
<1> SUFFICES ASSUME TypeOK, TypeOK', CodeSoFar, [Next]_vars, PlainComments(source)'
             PROVE  /\ stage' = "strip" => Stripped'
                    /\ stage' = "squish" => Squished(at)'
                    /\ stage' = "measure" => Squished(Len(source) + 1)'
                    /\ LinesAreCode'
  BY DEF CodeSoFar
<1>1. source' = source
  BY DEF Next, Parse, vars, Strip, Squish, Measure, MeasureOverrun, TakeSize, TakeVersion,
     PassOver, Allocate, StartSection, TakeFill, Ignore, StartRom, NameBit, NameBitOutside,
     StartOpcode, AbortOnEmpty, AddWord, AddWordOutside, Generate, GenerateFails
<1>2. PlainComments(source)
  BY <1>1 DEF PlainComments
<1>3. CASE Strip
  <2>1. stage = "strip"
    BY <1>3 DEF Strip
  <2>2. Stripped
    BY <1>2, <2>1 DEF CodeSoFar
  <2>3. \/ stage' = "strip" /\ Stripped'
        \/ stage' = "squish" /\ Squished(at)'
    BY <1>2, <1>3, <2>2, StripKeeps
  <2> QED BY <2>3 DEF LinesAreCode
<1>4. CASE Squish
  <2>1. stage = "squish"
    BY <1>4 DEF Squish
  <2>2. Squished(at)
    BY <1>2, <2>1 DEF CodeSoFar
  <2>3. \/ stage' = "squish" /\ Squished(at)'
        \/ stage' = "measure" /\ Squished(Len(source) + 1)'
    BY <1>4, <2>2, SquishKeeps
  <2> QED BY <2>3 DEF LinesAreCode
<1>5. CASE Measure \/ MeasureOverrun
  <2>1. stage = "measure" /\ stage' \in {"size", "failed"}
    BY <1>5 DEF Measure, MeasureOverrun, Fail
  <2>2. Squished(Len(source) + 1)
    BY <1>2, <2>1 DEF CodeSoFar
  <2>3. stage' = "size" =>
          /\ Len(lines') = Cardinality(CodeLines(source))
          /\ \A i \in CodeLines(source) : lines'[Rank(source, i)] = CodeOf(source, i)
    BY <1>5, <2>2, MeasureKeeps
  <2> QED BY <1>1, <2>1, <2>3 DEF LinesAreCode
<1>6. CASE TakeSize \/ TakeVersion \/ PassOver
  <2>1. stage = "size" /\ stage \in Loops /\ (Onward("allocate") \/ Fail)
    BY <1>6 DEF TakeSize, TakeVersion, PassOver, Loops
  <2>2. at \in Nat /\ 1 <= at
    BY <2>1, LineType
  <2>3. stage' \in {"size", "allocate", "failed"} /\ (stage' = "size" => at' # 1)
    BY <2>1, <2>2 DEF Onward, Fail
  <2> QED BY <2>3 DEF LinesAreCode
<1>7. CASE Allocate \/ Parse \/ Generate \/ GenerateFails
  <2>1. stage' \in {"allocate", "parse", "generate", "done", "failed"}
    BY <1>7 DEF Allocate, Parse, Generate, GenerateFails, Fail, Onward, Parses, AddsWord,
       StartSection, TakeFill, Ignore, StartRom, NameBit, NameBitOutside, StartOpcode,
       AbortOnEmpty, AddWord, AddWordOutside
  <2> QED BY <2>1 DEF LinesAreCode
<1>8. CASE UNCHANGED vars
  BY <1>2, <1>8 DEF vars, CodeSoFar, Stripped, Squished, SquishedFrom, LinesAreCode
<1> QED BY <1>3, <1>4, <1>5, <1>6, <1>7, <1>8 DEF Next

LEMMA CodeInit == Init => CodeSoFar
<1> SUFFICES ASSUME Init PROVE CodeSoFar
  OBVIOUS
<1>1. lines = source /\ at = 1 /\ inComment = FALSE /\ stage \in {"strip", "failed"}
      /\ source \in Seq(Lines)
  BY SourcesAssumption DEF Init, Lines
<1>2. Stripped
  <2>1. \A i \in 1 .. Len(source) : ~(i < 1)
    BY <1>1, LenProperties
  <2>2. ~Inside(source, 1)
    BY DEF Inside
  <2> QED BY <1>1, <2>1, <2>2 DEF Stripped
<1> QED BY <1>1, <1>2 DEF CodeSoFar, LinesAreCode

(* Of every source whose comments mean what they mean in C, the first      *)
(* loops leave the lines of code in their order, each without its comment, *)
(* and nothing else (removeCommentsAndWhitespace, removeEmptyLines).       *)
THEOREM LinesAreCodeAlways == Spec => []LinesAreCode
<1>1. Init => TypeOK /\ CodeSoFar
  BY InitTypes, CodeInit
<1>2. TypeOK /\ CodeSoFar /\ [Next]_vars => TypeOK' /\ CodeSoFar'
  BY TypeStep, CodeStep
<1>3. CodeSoFar => LinesAreCode
  BY DEF CodeSoFar, LinesAreCode
<1> QED BY <1>1, <1>2, <1>3, PTL DEF Spec

-----------------------------------------------------------------------------
(* What the source means and what the tables hold of it so far.           *)

\* What the first pass leaves of a line.
Left(line) ==
  IF IsA(line, "WIDTH") \/ IsA(line, "DEPTH") THEN << >>
  ELSE IF IsA(line, "VERSION") THEN Tail(line) ELSE line

\* The words of an opcode, and how many of them are before a line.
Under(code, op) ==
  UNION { WordsUnder(code, h) : h \in { h \in OpcodeLines(code) : ValueOf(code[h][1]) = op } }
Order(places, n) == Cardinality({ j \in places : j < n })

\* The first pass has done the lines before n.
Sizing(code, n) ==
  /\ cursor.mode = "none" /\ Len(lines) = Len(code)
  /\ \A i \in 1 .. Len(code) : lines[i] = IF i < n THEN Left(code[i]) ELSE code[i]
  /\ \A p \in Parameters : sizes[p] = IF Keyword(code, p) < n THEN Number(code, p) ELSE 0

\* The first pass is over.
Sized(code) ==
  /\ Len(lines) = Len(code)
  /\ \A i \in 1 .. Len(code) : lines[i] = Left(code[i])
  /\ \A p \in Parameters : sizes[p] = Number(code, p)

\* The second pass has done the lines before n: the section, ...
ModeSoFar(code, n) ==
  cursor.mode = IF n > Keyword(code, "ASM") THEN "asm"
                ELSE IF n > Keyword(code, "ROMS") THEN "rom" ELSE "none"

\* ... the bits of the ROMs, ...
BitsSoFar(code, n) ==
  /\ LET h == Heading(RomLines(code), n)
     IN  Keyword(code, "ROMS") < h /\ n <= Keyword(code, "ASM") =>
           cursor.rom = ValueOf(code[h][2]) - 1
  /\ \A i \in BitLines(code) : i < n =>
       LET p == PositionOf(code, i)
       IN  roms.bits[p[1]][p[2]] = NameOf(code, i) /\ roms.invert[p[1]][p[2]] = IsBarred(code, i)

\* ... the fill, ...
FillSoFar(code, n) ==
  Keyword(code, "FILL") < n => asm.fill = Tail(code[Keyword(code, "FILL")])

\* ... and the words of the opcodes.
CursorSoFar(code, n) ==
  LET h == Heading(OpcodeLines(code), n)
  IN  h # 0 => cursor.op = ValueOf(code[h][1]) /\ cursor.uop = Order(WordsUnder(code, h), n)
WordsSoFar(code, n) ==
  \A op \in Opcodes :
    LET under == Under(code, op)
    IN  /\ asm.length[op] = Order(under, n)
        /\ \A k \in Offsets : k >= asm.length[op] => asm.words[op][k] = << >>
        /\ \A i \in under : i < n => asm.words[op][Order(under, i)] = code[i]
        /\ \A k \in 0 .. asm.length[op] - 1 : \E i \in under : i < n /\ Order(under, i) = k

Parsed(code, n) ==
  /\ Sized(code) /\ ModeSoFar(code, n) /\ BitsSoFar(code, n) /\ FillSoFar(code, n)
  /\ CursorSoFar(code, n) /\ WordsSoFar(code, n)

SourceSoFar ==
  WellFormed(source) =>
    LET code == Code(source)
    IN  /\ stage \in {"strip", "squish", "measure"} =>
             cursor.mode = "none" /\ \A p \in Parameters : sizes[p] = 0
        /\ stage = "size" => Sizing(code, at)
        /\ stage = "allocate" => Sizing(code, Len(code) + 1)
        /\ stage = "parse" => Parsed(code, at)
        /\ stage = "generate" => Parsed(code, Len(code) + 1)
        /\ ImagesMeanSource

\* How many of a set's places come before a line.
LEMMA OrderFacts ==
  ASSUME NEW N \in Nat, NEW places, places \subseteq 1 .. N, NEW n \in Nat
  PROVE  /\ Order(places, n) \in Nat
         /\ Order(places, n + 1) = Order(places, n) + IF n \in places THEN 1 ELSE 0
         /\ n \in places => Order(places, n) < Cardinality(places)
         /\ (\A j \in places : ~(j < n)) => Order(places, n) = 0
<1> DEFINE T(m) == { j \in places : j < m }
<1>1. \A j \in places : j \in Int /\ 1 <= j /\ j <= N
  OBVIOUS
<1>2. IsFiniteSet(places)
  <2>1. IsFiniteSet(1 .. N)
    BY FS_Interval
  <2> QED BY <2>1, FS_Subset
<1>3. \A m : T(m) \in SUBSET places /\ IsFiniteSet(T(m)) /\ Order(places, m) = Cardinality(T(m))
  BY <1>2, FS_Subset DEF Order
<1>4. Cardinality(T(n)) \in Nat
  BY <1>3, FS_CardinalityType
<1>5. CASE n \in places
  <2>1. T(n + 1) = T(n) \cup {n} /\ n \notin T(n)
    <3>1. ASSUME NEW x \in places PROVE x < n + 1 <=> (x < n \/ x = n)
      BY <1>1
    <3>2. ~(n < n)
      OBVIOUS
    <3> QED BY <1>5, <3>1, <3>2
  <2>2. Cardinality(T(n) \cup {n}) = Cardinality(T(n)) + 1
    BY <1>3, <2>1, FS_AddElement
  <2>3. Cardinality(T(n)) < Cardinality(places)
    <3>1. Cardinality(T(n) \cup {n}) <= Cardinality(places) /\ Cardinality(places) \in Nat
      <4>1. T(n) \cup {n} \in SUBSET places
        BY <1>5
      <4> HIDE DEF T
      <4> QED BY <1>2, <4>1, FS_Subset, FS_CardinalityType
    <3> HIDE DEF T
    <3> QED BY <1>4, <2>2, <3>1
  <2>4. ~(\A j \in places : ~(j < n)) \/ T(n) = {}
    OBVIOUS
  <2> HIDE DEF T
  <2> QED BY <1>3, <1>4, <1>5, <2>1, <2>2, <2>3, <2>4, FS_EmptySet
<1>6. CASE n \notin places
  <2>1. T(n + 1) = T(n)
    <3>1. ASSUME NEW x \in places PROVE x < n + 1 <=> x < n
      BY <1>1, <1>6
    <3> QED BY <3>1
  <2>2. ~(\A j \in places : ~(j < n)) \/ T(n) = {}
    OBVIOUS
  <2> HIDE DEF T
  <2> QED BY <1>3, <1>4, <1>6, <2>1, <2>2, FS_EmptySet
<1> QED BY <1>5, <1>6

\* Of two places the earlier has fewer before it.
LEMMA OrderGrows ==
  ASSUME NEW N \in Nat, NEW places, places \subseteq 1 .. N,
         NEW i \in places, NEW j \in places, i < j
  PROVE  Order(places, i) < Order(places, j)
<1> DEFINE T == { k \in places : k < j }
<1>1. T \subseteq 1 .. N /\ i \in T
  OBVIOUS
<1>2. { k \in T : k < i } = { k \in places : k < i }
  <2>1. ASSUME NEW k \in places, k < i PROVE k < j
    <3>1. k \in Int /\ i \in Int /\ j \in Int
      OBVIOUS
    <3> QED BY <2>1, <3>1
  <2> QED BY <2>1
<1>3. i \in Nat
  BY <1>1
<1> HIDE DEF T
<1>4. Order(T, i) < Cardinality(T)
  BY <1>1, <1>3, OrderFacts
<1>5. Order(T, i) = Order(places, i)
  BY <1>2 DEF Order
<1> QED BY <1>4, <1>5 DEF Order, T

LEMMA CodeOfType ==
  ASSUME NEW file \in Seq(Lines), NEW i \in 1 .. Len(file)
  PROVE  CodeOf(file, i) \in Lines
<1>1. file[i] \in Lines
  BY ElementOfSeq
<1> DEFINE rest == IF ~Inside(file, i) THEN file[i] ELSE After(file[i], Closing)
<1>2. rest \in Lines
  BY <1>1, Cuts
<1>3. CodeOf(file, i) = SubSeq(rest, 1, CodeEnd(rest) - 1)
  BY DEF CodeOf, CodeEnd
<1> HIDE DEF rest
<1>4. CodeEnd(rest) \in 1 .. Len(rest) + 1 /\ Len(rest) \in Nat
  BY <1>2, CodeEndFacts, LenProperties DEF Lines
<1>5. CodeEnd(rest) - 1 \in 0 .. Len(rest)
  BY <1>4
<1> QED BY <1>2, <1>3, <1>5, Prefix

\* A line of code by its number.
LEMMA NumberedLine ==
  ASSUME NEW file \in Seq(Lines)
  PROVE  /\ Cardinality(CodeLines(file)) \in Nat
         /\ \A i \in CodeLines(file) : Rank(file, i) \in 1 .. Cardinality(CodeLines(file))
         /\ \A i, j \in CodeLines(file) : Rank(file, i) = Rank(file, j) => i = j
         /\ \A n \in 1 .. Cardinality(CodeLines(file)) :
              \E i \in CodeLines(file) : Rank(file, i) = n
<1> DEFINE C == CodeLines(file)
           c == Cardinality(C)
           f == [i \in C |-> Rank(file, i)]
<1>1. /\ Len(file) \in Nat /\ C \subseteq 1 .. Len(file)
      /\ Rank(file, 0) = 0 /\ c = Rank(file, Len(file))
      /\ \A i \in 0 .. Len(file) : Rank(file, i) \in Nat
      /\ \A i \in 1 .. Len(file) :
            Rank(file, i) = Rank(file, i - 1) + IF i \in C THEN 1 ELSE 0
      /\ \A i, j \in 0 .. Len(file) : i <= j => Rank(file, i) <= Rank(file, j)
  BY RankFacts
<1> HIDE DEF C, c
<1>2. c \in Nat
  BY <1>1
<1>3. ASSUME NEW i \in C PROVE Rank(file, i) \in 1 .. c
  <2>1. i \in 1 .. Len(file) /\ i - 1 \in 0 .. Len(file) /\ i \in 0 .. Len(file)
        /\ Len(file) \in 0 .. Len(file) /\ i <= Len(file)
    BY <1>1
  <2>2. Rank(file, i) = Rank(file, i - 1) + 1 /\ Rank(file, i - 1) \in Nat
    BY <1>1, <2>1
  <2>3. Rank(file, i) <= c /\ Rank(file, i) \in Nat
    BY <1>1, <2>1
  <2> QED BY <1>2, <2>2, <2>3
<1>4. ASSUME NEW i \in C, NEW j \in C, i < j PROVE Rank(file, i) < Rank(file, j)
  <2>1. j \in 1 .. Len(file) /\ j - 1 \in 0 .. Len(file) /\ i \in 0 .. Len(file) /\ i <= j - 1
    BY <1>1, <1>4
  <2>2. Rank(file, j) = Rank(file, j - 1) + 1 /\ Rank(file, j - 1) \in Nat
        /\ Rank(file, i) \in Nat
    BY <1>1, <2>1
  <2>3. Rank(file, i) <= Rank(file, j - 1)
    BY <1>1, <2>1
  <2> QED BY <2>2, <2>3
<1>5. ASSUME NEW i \in C, NEW j \in C, Rank(file, i) = Rank(file, j) PROVE i = j
  <2>1. i \in Int /\ j \in Int /\ Rank(file, i) \in Int
    BY <1>1, <1>3
  <2>2. ~(i < j) /\ ~(j < i)
    BY <1>4, <1>5, <2>1
  <2> QED BY <2>1, <2>2
<1>6. f \in Injection(C, 1 .. c)
  BY <1>3, <1>5 DEF Injection, IsInjective
<1>7. IsFiniteSet(1 .. c) /\ Cardinality(1 .. c) = c
  BY <1>2, FS_Interval
<1>8. f \in Surjection(C, 1 .. c)
  <2> HIDE DEF f
  <2> QED BY <1>6, <1>7, FS_Injection DEF c
<1>9. \A n \in 1 .. c : \E i \in C : f[i] = n
  <2> HIDE DEF f
  <2> QED BY <1>8 DEF Surjection
<1> QED BY <1>2, <1>3, <1>5, <1>9 DEF C, c

LEMMA CodeFacts ==
  ASSUME NEW file \in Seq(Lines)
  PROVE  /\ Code(file) \in Seq(Lines) /\ Len(Code(file)) = Cardinality(CodeLines(file))
         /\ \A i \in CodeLines(file) : Code(file)[Rank(file, i)] = CodeOf(file, i)
<1> DEFINE C == CodeLines(file)
           c == Cardinality(C)
           place(n) == CHOOSE i \in C : Rank(file, i) = n
           code == [n \in 1 .. c |-> CodeOf(file, place(n))]
<1>1. /\ c \in Nat /\ C \subseteq 1 .. Len(file)
      /\ \A i \in C : Rank(file, i) \in 1 .. c
      /\ \A i, j \in C : Rank(file, i) = Rank(file, j) => i = j
      /\ \A n \in 1 .. c : \E i \in C : Rank(file, i) = n
  BY NumberedLine, RankFacts
<1>2. Code(file) = << >> \o code
  BY DEF Code, Rank
<1>3. \A n \in 1 .. c : place(n) \in C /\ Rank(file, place(n)) = n
  BY <1>1
<1>4. \A n \in 1 .. c : CodeOf(file, place(n)) \in Lines
  BY <1>1, <1>3, CodeOfType
<1>5. code \in [1 .. c -> Lines]
  BY <1>4
<1>6. code \in Seq(Lines)
  <2> HIDE DEF code, c
  <2> QED BY <1>1, <1>5, SeqDef
<1>7. Len(code) = c
  BY <1>1, <1>5, <1>6, LenProperties
<1>8. Code(file) = code
  BY <1>2, <1>6, ConcatEmptySeq
<1>9. ASSUME NEW i \in C PROVE code[Rank(file, i)] = CodeOf(file, i)
  <2>1. Rank(file, i) \in 1 .. c
    BY <1>1
  <2>2. place(Rank(file, i)) = i
    BY <1>1, <1>3, <2>1
  <2> QED BY <2>1, <2>2
<1> HIDE DEF code
<1> QED BY <1>6, <1>7, <1>8, <1>9

\* Lines that are the code of a file, each at its number, are its code.
LEMMA LinesAre ==
  ASSUME NEW file \in Seq(Lines), NEW text \in Seq(Lines),
         Len(text) = Cardinality(CodeLines(file)),
         \A i \in CodeLines(file) : text[Rank(file, i)] = CodeOf(file, i)
  PROVE  text = Code(file)
<1>1. \A n \in 1 .. Len(text) : text[n] = Code(file)[n]
  BY NumberedLine, CodeFacts
<1> QED BY <1>1, CodeFacts, SeqEqual

\* The last heading before a line.
LEMMA HeadingFacts ==
  ASSUME NEW N \in Nat, NEW headings, headings \subseteq 1 .. N, NEW n \in Nat
  PROVE  /\ Heading(headings, n) \in Nat
         /\ Heading(headings, n) = 0
              \/ (Heading(headings, n) \in headings /\ Heading(headings, n) < n)
         /\ \A j \in headings : j < n => j <= Heading(headings, n)
         /\ Heading(headings, n + 1) = IF n \in headings THEN n ELSE Heading(headings, n)
<1> DEFINE S(m) == {0} \cup { j \in headings : j < m }
<1>1. \A j \in headings : j \in Nat /\ 1 <= j /\ j <= N
  OBVIOUS
<1>2. ASSUME NEW m PROVE \E x \in S(m) : \A y \in S(m) : x >= y
  <2> DEFINE T == { N - y : y \in S(m) }
  <2>1. \A y \in S(m) : y \in Nat /\ y <= N
    BY <1>1
  <2>2. T \subseteq Nat /\ T # {}
    <3> HIDE DEF S
    <3>1. 0 \in S(m)
      BY DEF S
    <3> QED BY <2>1, <3>1
  <2>3. PICK z \in T : \A t \in T : z <= t
    <3> HIDE DEF T
    <3> QED BY <2>2, MinExists
  <2>4. PICK x \in S(m) : z = N - x
    BY <2>3
  <2>5. ASSUME NEW y \in S(m) PROVE x >= y
    <3>1. N - y \in T
      OBVIOUS
    <3>2. N - x <= N - y
      <4> HIDE DEF T
      <4> QED BY <2>3, <2>4, <3>1
    <3>3. x \in Nat /\ y \in Nat
      BY <2>1
    <3> HIDE DEF T, S
    <3> QED BY <3>2, <3>3
  <2> QED BY <2>5
<1>3. \A m : Heading(headings, m) \in S(m) /\ \A y \in S(m) : Heading(headings, m) >= y
  <2>1. \A m : Heading(headings, m) = Max(S(m))
    BY DEF Heading
  <2> HIDE DEF S
  <2> QED BY <1>2, <2>1, Zenon DEF Max
<1>4. Heading(headings, n) \in Nat
  <2>1. ASSUME NEW x \in S(n) PROVE x \in Nat
    <3>1. x = 0 \/ x \in headings
      OBVIOUS
    <3> QED BY <1>1, <3>1
  <2> HIDE DEF S
  <2> QED BY <1>3, <2>1
<1>5. Heading(headings, n + 1) = IF n \in headings THEN n ELSE Heading(headings, n)
  <2> DEFINE h == Heading(headings, n + 1)
             g == Heading(headings, n)
  <2>1. h \in S(n + 1) /\ (\A y \in S(n + 1) : h >= y) /\ g \in S(n) /\ \A y \in S(n) : g >= y
    BY <1>3
  <2> HIDE DEF h, g
  <2>2. CASE n \in headings
    <3>1. n \in S(n + 1)
      BY <2>2
    <3>2. h \in Nat /\ h < n + 1
      BY <1>1, <2>1
    <3>3. h >= n
      <4> HIDE DEF S
      <4> QED BY <2>1, <3>1
    <3> QED BY <2>2, <3>2, <3>3 DEF h
  <2>3. CASE n \notin headings
    <3>1. S(n + 1) = S(n)
      <4>1. ASSUME NEW x \in headings PROVE x < n + 1 <=> x < n
        BY <1>1, <2>3
      <4> QED BY <4>1
    <3>2. h \in Nat /\ g \in Nat
      BY <1>1, <2>1
    <3>3. h >= g /\ g >= h
      <4> HIDE DEF S
      <4> QED BY <2>1, <3>1
    <3> HIDE DEF S
    <3> QED BY <2>3, <3>2, <3>3 DEF h, g
  <2> QED BY <2>2, <2>3
<1>6. ASSUME NEW j \in headings, j < n PROVE j <= Heading(headings, n)
  <2>1. j \in S(n)
    BY <1>6
  <2>2. Heading(headings, n) >= j
    BY <1>3, <2>1
  <2> QED BY <1>1, <1>4, <2>2
<1> QED BY <1>3, <1>4, <1>5, <1>6

-----------------------------------------------------------------------------
(* Well-formed code.                                                       *)

Shaped(code) ==
  /\ code \in Seq(Lines)
  /\ \A k \in Parameters \cup {"FILL"} :
       /\ Keyword(code, k) \in 1 .. Len(code)
       /\ \A i \in 1 .. Len(code) : IsA(code[i], k) <=> i = Keyword(code, k)
  /\ \A k \in Parameters : Keyword(code, k) <= Keyword(code, "ASM") /\ Number(code, k) > 0
  /\ Number(code, "ROMS") <= 128 /\ Number(code, "WIDTH") <= 128
  /\ \A i \in 1 .. Len(code) :
       IsA(code[i], "VERSION") => Len(code[i]) = 2 /\ i < Keyword(code, "ROMS")
  /\ WellFormedBits(code) /\ WellFormedWords(code)

LEMMA Shape ==
  ASSUME NEW file \in Seq(Lines), WellFormed(file)
  PROVE  PlainComments(file) /\ Shaped(Code(file))
<1> DEFINE code == Code(file)
<1>1. code \in Seq(Lines)
  BY CodeFacts
<1>2. DOMAIN code = 1 .. Len(code)
  BY <1>1, LenProperties
<1>3. /\ PlainComments(file)
      /\ \A k \in Parameters : Once(code, k) /\ Number(code, k) > 0
      /\ Number(code, "ROMS") <= 128 /\ Number(code, "WIDTH") <= 128
      /\ Once(code, "FILL")
      /\ \A k \in Parameters : Keyword(code, k) <= Keyword(code, "ASM")
      /\ \A i \in DOMAIN code :
           IsA(code[i], "VERSION") => Len(code[i]) = 2 /\ i < Keyword(code, "ROMS")
      /\ WellFormedBits(code) /\ WellFormedWords(code)
  BY Zenon DEF WellFormed
<1> HIDE DEF code
<1>4. ASSUME NEW k \in Parameters \cup {"FILL"}
      PROVE  /\ Keyword(code, k) \in 1 .. Len(code)
             /\ \A i \in 1 .. Len(code) : IsA(code[i], k) <=> i = Keyword(code, k)
  <2>1. Once(code, k)
    BY <1>3
  <2>2. PICK i \in DOMAIN code : \A j \in DOMAIN code : IsA(code[j], k) <=> j = i
    BY <2>1 DEF Once
  <2>3. Keyword(code, k) = i
    BY <2>2 DEF Keyword
  <2> QED BY <1>2, <2>2, <2>3
<1>5. Shaped(code)
  BY <1>1, <1>2, <1>3, <1>4 DEF Shaped
<1> QED BY <1>3, <1>5 DEF code

\* A line of one keyword is not of another one.
LEMMA OneKeyword ==
  ASSUME NEW line, NEW k, NEW l, IsA(line, k), IsA(line, l)
  PROVE  k = l
BY DEF IsA

\* The first pass changes no line that the second one needs.
LEMMA LeftFacts ==
  ASSUME NEW line \in Lines, IsA(line, "VERSION") => Len(line) = 2
  PROVE  /\ \A k \in {"ASM", "ROMS", "FILL", "ROM"} :
              (IsA(Left(line), k) <=> IsA(line, k)) /\ (IsA(line, k) => Left(line) = line)
         /\ ~IsA(line, "VERSION") =>
              /\ StartsWithDigit(Left(line)) <=> StartsWithDigit(line)
              /\ StartsWithDigit(line) => Left(line) = line
<1>1. Len(line) \in Nat /\ ~IsA(<< >>, "x") /\ \A k : ~IsA(<< >>, k)
  BY LenProperties DEF IsA, Lines
<1>2. CASE IsA(line, "WIDTH") \/ IsA(line, "DEPTH")
  <2>1. Left(line) = << >> /\ \A k \in {"ASM", "ROMS", "FILL", "ROM"} : ~IsA(line, k)
    BY <1>2 DEF IsA, Left
  <2>2. ~StartsWithDigit(line) /\ ~StartsWithDigit(<< >>)
    <3>1. "WIDTH" \notin DOMAIN Numerals /\ "DEPTH" \notin DOMAIN Numerals
      BY KeywordsAssumption
    <3> QED BY <1>2, <3>1 DEF IsA, StartsWithDigit
  <2> QED BY <1>1, <2>1, <2>2
<1>3. CASE ~(IsA(line, "WIDTH") \/ IsA(line, "DEPTH")) /\ IsA(line, "VERSION")
  <2>1. Left(line) = Tail(line) /\ Len(line) = 2
    BY <1>3 DEF Left
  <2>2. Len(Tail(line)) = 1
    <3>1. line # << >>
      <4>1. Len(line) # 0
        BY <2>1
      <4> QED BY <4>1, EmptySeq, Zenon
    <3>2. Len(Tail(line)) = Len(line) - 1
      BY <3>1, HeadTailProperties DEF Lines
    <3> QED BY <2>1, <3>2
  <2>3. \A k : ~IsA(Tail(line), k)
    <3>1. ~(Len(Tail(line)) > 1)
      <4> DEFINE n == Len(Tail(line))
      <4>1. n = 1
        BY <2>2
      <4> HIDE DEF n
      <4>2. ~(n > 1)
        BY <4>1
      <4> QED BY <4>2 DEF n
    <3> QED BY <3>1, Zenon DEF IsA
  <2>4. \A k \in {"ASM", "ROMS", "FILL", "ROM"} : ~IsA(line, k)
    BY <1>3 DEF IsA
  <2> QED BY <1>3, <2>1, <2>3, <2>4
<1>4. CASE ~(IsA(line, "WIDTH") \/ IsA(line, "DEPTH") \/ IsA(line, "VERSION"))
  BY <1>4 DEF Left
<1> QED BY <1>2, <1>3, <1>4

-----------------------------------------------------------------------------
(* The first pass.                                                         *)

LEMMA SizingBegins ==
  ASSUME TypeOK, TypeOK', LinesAreCode', Measure \/ MeasureOverrun, stage' = "size",
         WellFormed(source), cursor.mode = "none", \A p \in Parameters : sizes[p] = 0
  PROVE  Sizing(Code(source), 1)'
<1>1. source' = source /\ at' = 1 /\ UNCHANGED parsed
  BY DEF Measure, MeasureOverrun, Fail
<1>2. source \in Seq(Lines) /\ lines' \in Seq(Lines)
  BY <1>1 DEF TypeOK, Lines
<1>3. PlainComments(source) /\ Shaped(Code(source))
  BY <1>2, Shape
<1>4. Len(lines') = Cardinality(CodeLines(source))
      /\ \A i \in CodeLines(source) : lines'[Rank(source, i)] = CodeOf(source, i)
  BY <1>1, <1>3 DEF LinesAreCode
<1>5. lines' = Code(source)
  BY <1>2, <1>4, LinesAre
<1> DEFINE code == Code(source)
<1>6. \A p \in Parameters : Keyword(code, p) \in 1 .. Len(code) /\ ~(Keyword(code, p) < 1)
  <2>1. \A p \in Parameters : Keyword(code, p) \in 1 .. Len(code)
    BY <1>3 DEF Shaped
  <2> HIDE DEF code
  <2> QED BY <2>1
<1> HIDE DEF code
<1>7. \A i \in 1 .. Len(code) : ~(i < 1)
  OBVIOUS
<1>8. sizes' = sizes /\ cursor' = cursor /\ lines' = code /\ Code(source)' = code
  BY <1>1, <1>5 DEF parsed, code
<1> QED BY <1>6, <1>7, <1>8 DEF Sizing

\* How a loop goes on from a line of the code.
LEMMA Goes ==
  ASSUME NEW CONSTANT code, TypeOK, stage \in Loops, Len(lines) = Len(code),
         NEW next, Onward(next)
  PROVE  /\ at \in 1 .. Len(code) /\ Len(code) \in Nat
         /\ \/ stage' = stage /\ at' = at + 1
            \/ stage' = next /\ at + 1 = Len(code) + 1
<1>1. Len(lines) \in Nat /\ at \in 1 .. Len(lines)
  BY LineType
<1> DEFINE n == Len(lines)
<1>2. n \in Nat /\ at \in 1 .. n /\ n = Len(code)
  BY <1>1
<1>3. \/ at < n /\ at' = at + 1 /\ stage' = stage
      \/ ~(at < n) /\ at' = 1 /\ stage' = next
  BY DEF Onward
<1> HIDE DEF n
<1> QED BY <1>2, <1>3

LEMMA SizingStep ==
  ASSUME NEW CONSTANT code, NEW CONSTANT n, n = at,
         Shaped(code), TypeOK, Sizing(code, n),
         TakeSize \/ TakeVersion \/ PassOver, stage' # "failed"
  PROVE  /\ Sizing(code, n + 1)'
         /\ \/ stage' = "size" /\ at' = n + 1
            \/ stage' = "allocate" /\ n + 1 = Len(code) + 1
<1>1. stage = "size" /\ stage \in Loops /\ source' = source /\ cursor' = cursor
  BY DEF TakeSize, TakeVersion, PassOver, parsed, Loops
<1>2. Onward("allocate")
  BY DEF TakeSize, TakeVersion, PassOver, Fail
<1>3. /\ Len(lines) = Len(code) /\ cursor.mode = "none"
      /\ \A i \in 1 .. Len(code) : lines[i] = IF i < n THEN Left(code[i]) ELSE code[i]
      /\ \A p \in Parameters : sizes[p] = IF Keyword(code, p) < n THEN Number(code, p) ELSE 0
  BY DEF Sizing
<1>4. /\ n \in 1 .. Len(code) /\ Len(code) \in Nat
      /\ \/ stage' = "size" /\ at' = n + 1
         \/ stage' = "allocate" /\ n + 1 = Len(code) + 1
  BY <1>1, <1>2, <1>3, Goes
<1>0. lines = [lines EXCEPT ![n] = lines[n]]
  BY DEF TypeOK
<1>5. lines[n] = code[n] /\ code[n] \in Lines
  <2>1. code[n] \in Lines
    BY <1>4, ElementOfSeq DEF Shaped
  <2> QED BY <1>3, <1>4, <2>1
<1>6. lines \in Seq(Lines) /\ sizes \in [Parameters -> Nat]
  BY DEF TypeOK, Lines
<1>7. \A p \in Parameters : /\ Keyword(code, p) \in 1 .. Len(code)
                            /\ IsA(code[n], p) <=> n = Keyword(code, p)
  BY <1>4 DEF Shaped
\* What a step does to the lines and the sizes is enough.
<1>8. ASSUME lines' = [lines EXCEPT ![n] = Left(code[n])],
             \A p \in Parameters :
               sizes'[p] = IF IsA(code[n], p) THEN Number(code, p) ELSE sizes[p]
      PROVE  Sizing(code, n + 1)'
  <2>1. \A j \in 1 .. Len(code) : lines'[j] = IF j = n THEN Left(code[n]) ELSE lines[j]
    BY <1>3, <1>4, <1>6, <1>8, Changed
  <2>2. Len(lines') = Len(code)
    <3>1. DOMAIN lines' = DOMAIN lines
      BY <1>8
    <3>2. lines = [i \in 1 .. Len(lines) |-> lines[i]] /\ lines' = [i \in 1 .. Len(lines) |-> lines'[i]]
      BY <1>6, <1>8, LenProperties
    <3>3. Left(code[n]) \in Lines
      <4>1. Tail(code[n]) \in Lines \/ ~IsA(code[n], "VERSION")
        BY <1>5, KeywordLine
      <4> QED BY <1>5, <4>1, EmptyLine DEF Left
    <3>4. lines' \in Seq(Lines) /\ Len(lines') = Len(lines)
      BY <1>1, <1>8, <3>3, LineType
    <3> QED BY <1>3, <3>4
  <2>3. ASSUME NEW i \in 1 .. Len(code)
        PROVE  lines'[i] = IF i < n + 1 THEN Left(code[i]) ELSE code[i]
    <3>1. i < n + 1 <=> i < n \/ i = n
      BY <1>4
    <3>2. i = n => ~(i < n)
      BY <1>4
    <3> QED BY <1>3, <2>1, <3>1, <3>2
  <2>4. ASSUME NEW p \in Parameters
        PROVE  sizes'[p] = IF Keyword(code, p) < n + 1 THEN Number(code, p) ELSE 0
    <3> DEFINE k == Keyword(code, p)
    <3>1. k \in Nat /\ n \in Nat /\ (IsA(code[n], p) <=> n = k)
      BY <1>4, <1>7
    <3>2. sizes'[p] = IF n = k THEN Number(code, p) ELSE sizes[p]
      BY <1>8, <3>1
    <3>3. sizes[p] = IF k < n THEN Number(code, p) ELSE 0
      BY <1>3
    <3> HIDE DEF k
    <3>4. k < n + 1 <=> k < n \/ k = n
      BY <3>1
    <3>5. k = n => ~(k < n)
      BY <3>1
    <3>6. sizes'[p] = IF k < n + 1 THEN Number(code, p) ELSE 0
      BY <3>2, <3>3, <3>4, <3>5
    <3> QED BY <3>6 DEF k
  <2> QED BY <1>1, <1>3, <2>2, <2>3, <2>4 DEF Sizing
<1>9. CASE TakeSize
  <2>1. PICK p \in Parameters :
          /\ IsA(lines[n], p)
          /\ sizes' = [sizes EXCEPT ![p] = ValueOf(lines[n][2])]
          /\ lines' = IF p \in {"WIDTH", "DEPTH"} THEN Blank(n) ELSE lines
    BY <1>9 DEF TakeSize
  <2>2. IsA(code[n], p) /\ n = Keyword(code, p) /\ ValueOf(lines[n][2]) = Number(code, p)
    BY <1>5, <1>7, <2>1 DEF Number
  <2>3. ASSUME NEW q \in Parameters
        PROVE  sizes'[q] = IF IsA(code[n], q) THEN Number(code, q) ELSE sizes[q]
    <3>1. IsA(code[n], q) <=> q = p
      BY <2>2, OneKeyword
    <3> QED BY <1>6, <2>1, <2>2, <3>1
  <2>4. lines' = [lines EXCEPT ![n] = Left(code[n])]
    <3>1. CASE p \in {"WIDTH", "DEPTH"}
      BY <2>1, <2>2, <3>1 DEF Left, Blank
    <3>2. CASE p \notin {"WIDTH", "DEPTH"}
      <4>1. Left(code[n]) = code[n]
        <5>1. ~IsA(code[n], "WIDTH") /\ ~IsA(code[n], "DEPTH") /\ ~IsA(code[n], "VERSION")
          BY <2>2, <3>2, OneKeyword DEF Parameters
        <5> QED BY <5>1 DEF Left
      <4> QED BY <1>0, <1>5, <2>1, <3>2, <4>1
    <3> QED BY <3>1, <3>2
  <2> QED BY <1>4, <1>8, <2>3, <2>4
<1>10. CASE TakeVersion
  <2>1. IsA(code[n], "VERSION") /\ lines' = [lines EXCEPT ![n] = Tail(code[n])] /\ sizes' = sizes
    BY <1>5, <1>10 DEF TakeVersion, parsed
  <2>2. \A q \in Parameters : ~IsA(code[n], q)
    BY <2>1, OneKeyword DEF Parameters
  <2>3. Left(code[n]) = Tail(code[n])
    BY <2>1, <2>2 DEF Left, Parameters
  <2> QED BY <1>4, <1>8, <2>1, <2>2, <2>3
<1>11. CASE PassOver
  <2>1. /\ \A q \in Parameters \cup {"VERSION"} : ~IsA(code[n], q)
        /\ lines' = lines /\ sizes' = sizes
    BY <1>5, <1>11 DEF PassOver, parsed
  <2>2. Left(code[n]) = code[n]
    BY <2>1 DEF Left, Parameters
  <2>3. lines' = [lines EXCEPT ![n] = Left(code[n])]
    BY <1>0, <1>5, <2>1, <2>2
  <2> QED BY <1>4, <1>8, <2>1, <2>3
<1> QED BY <1>9, <1>10, <1>11

-----------------------------------------------------------------------------
(* The second pass.                                                        *)

\* Where the lines of each kind are.
LEMMA Kinds ==
  ASSUME NEW code, Shaped(code)
  PROVE  /\ Len(code) \in Nat /\ DOMAIN code = 1 .. Len(code)
         /\ Keyword(code, "ROMS") \in 1 .. Len(code) /\ Keyword(code, "ASM") \in 1 .. Len(code)
         /\ Keyword(code, "FILL") \in 1 .. Len(code)
         /\ Keyword(code, "ROMS") < Keyword(code, "ASM")
         /\ BitLines(code) \subseteq 1 .. Len(code) /\ RomLines(code) \subseteq 1 .. Len(code)
         /\ OpcodeLines(code) \subseteq 1 .. Len(code) /\ WordLines(code) \subseteq 1 .. Len(code)
         /\ \A h : WordsUnder(code, h) \subseteq WordLines(code)
         /\ \A op : Under(code, op) \subseteq WordLines(code)
<1> DEFINE r == Keyword(code, "ROMS")
           a == Keyword(code, "ASM")
<1>1. Len(code) \in Nat /\ DOMAIN code = 1 .. Len(code)
  BY LenProperties DEF Shaped
<1>2. r \in 1 .. Len(code) /\ a \in 1 .. Len(code) /\ Keyword(code, "FILL") \in 1 .. Len(code)
  BY DEF Shaped, Parameters
<1>3. r # a
  <2>1. IsA(code[r], "ROMS") /\ IsA(code[a], "ASM")
    BY <1>2 DEF Shaped, Parameters
  <2> HIDE DEF r, a
  <2> QED BY <2>1 DEF IsA
<1>4. r <= a
  BY DEF Shaped, Parameters
<1>5. RomLines(code) \subseteq 1 .. Len(code)
  BY <1>1 DEF RomLines
<1>6. \A h : WordsUnder(code, h) \subseteq WordLines(code)
  BY DEF WordsUnder
<1>7. \A op : Under(code, op) \subseteq WordLines(code)
  BY <1>6 DEF Under
<1>8. /\ BitLines(code) \subseteq r + 1 .. a - 1
      /\ OpcodeLines(code) \subseteq a + 1 .. Len(code)
      /\ WordLines(code) \subseteq a + 1 .. Len(code)
  BY DEF BitLines, OpcodeLines, WordLines
<1> HIDE DEF r, a
<1>9. r < a
  BY <1>2, <1>3, <1>4
<1>10. r + 1 .. a - 1 \subseteq 1 .. Len(code) /\ a + 1 .. Len(code) \subseteq 1 .. Len(code)
  BY <1>1, <1>2
<1> QED BY <1>1, <1>2, <1>5, <1>6, <1>7, <1>8, <1>9, <1>10 DEF r, a

\* What the second pass finds at a line.
LEMMA LineOf ==
  ASSUME NEW CONSTANT code, NEW CONSTANT n, n = at,
         Shaped(code), TypeOK, stage = "parse", Sized(code)
  PROVE  /\ n \in 1 .. Len(code) /\ code[n] \in Lines
         /\ IsA(Line, "ROMS") <=> n = Keyword(code, "ROMS")
         /\ IsA(Line, "ASM") <=> n = Keyword(code, "ASM")
         /\ IsA(Line, "FILL") <=> n = Keyword(code, "FILL")
         /\ IsA(Line, "FILL") \/ IsA(Line, "ROM") => Line = code[n]
         /\ IsA(Line, "ROM") <=> n \in RomLines(code)
         /\ n > Keyword(code, "ROMS") =>
              /\ StartsWithDigit(Line) <=> StartsWithDigit(code[n])
              /\ StartsWithDigit(Line) => Line = code[n]
         /\ n > Keyword(code, "ASM") => Line = code[n]
<1>1. n \in 1 .. Len(code) /\ Line = Left(code[n])
  <2>1. at \in 1 .. Len(lines) /\ Len(lines) = Len(code)
    BY LineType DEF Loops, Sized
  <2> QED BY <2>1 DEF Sized, Line
<1>2. code[n] \in Lines
  BY <1>1, ElementOfSeq DEF Shaped
<1>3. IsA(code[n], "VERSION") => Len(code[n]) = 2 /\ n < Keyword(code, "ROMS")
  BY <1>1 DEF Shaped
<1>4. /\ \A k \in {"ASM", "ROMS", "FILL", "ROM"} :
           (IsA(Line, k) <=> IsA(code[n], k)) /\ (IsA(code[n], k) => Line = code[n])
      /\ ~IsA(code[n], "VERSION") =>
           /\ StartsWithDigit(Line) <=> StartsWithDigit(code[n])
           /\ StartsWithDigit(code[n]) => Line = code[n]
  BY <1>1, <1>2, <1>3, LeftFacts
<1>5. \A k \in {"ASM", "ROMS", "FILL", "WIDTH", "DEPTH"} :
        IsA(code[n], k) <=> n = Keyword(code, k)
  BY <1>1 DEF Shaped, Parameters
<1>6. IsA(code[n], "ROM") <=> n \in RomLines(code)
  BY <1>1, Kinds DEF RomLines
<1> DEFINE r == Keyword(code, "ROMS")
           a == Keyword(code, "ASM")
<1>7. r \in Nat /\ a \in Nat /\ n \in Nat /\ r < a
  BY <1>1, Kinds
<1>8. n > r => ~IsA(code[n], "VERSION")
  <2> HIDE DEF r
  <2>1. IsA(code[n], "VERSION") => n < r
    BY <1>3 DEF r
  <2> QED BY <1>7, <2>1
<1>9. n > a => Line = code[n]
  <2> SUFFICES ASSUME n > a PROVE Line = code[n]
    OBVIOUS
  <2>1. n > r
    <3> HIDE DEF r, a
    <3> QED BY <1>7
  <2>2. \A k \in {"WIDTH", "DEPTH"} : Keyword(code, k) \in Nat /\ Keyword(code, k) <= a
    BY Kinds DEF Shaped, Parameters
  <2>3. \A k \in {"WIDTH", "DEPTH"} : n # Keyword(code, k)
    <3> HIDE DEF a
    <3> QED BY <1>7, <2>2
  <2>4. ~IsA(code[n], "WIDTH") /\ ~IsA(code[n], "DEPTH") /\ ~IsA(code[n], "VERSION")
    BY <1>5, <1>8, <2>1, <2>3
  <2> QED BY <1>1, <2>4 DEF Left
<1> QED BY <1>1, <1>2, <1>4, <1>5, <1>6, <1>8, <1>9

\* What a line leaves alone is done up to the next line.
LEMMA Advance ==
  ASSUME NEW CONSTANT code, NEW CONSTANT n, n \in 1 .. Len(code),
         Shaped(code), Parsed(code, n), UNCHANGED << lines, sizes >>
  PROVE  /\ Sized(code)'
         /\ cursor'.mode = cursor.mode /\ n # Keyword(code, "ROMS") /\ n # Keyword(code, "ASM")
              => ModeSoFar(code, n + 1)'
         /\ roms' = roms /\ cursor'.rom = cursor.rom /\ n \notin BitLines(code)
              /\ (n \in RomLines(code) =>
                    n <= Keyword(code, "ROMS") \/ n >= Keyword(code, "ASM"))
              => BitsSoFar(code, n + 1)'
         /\ asm'.fill = asm.fill /\ n # Keyword(code, "FILL") => FillSoFar(code, n + 1)'
         /\ cursor'.op = cursor.op /\ cursor'.uop = cursor.uop
              /\ n \notin OpcodeLines(code) /\ n \notin WordLines(code)
              => CursorSoFar(code, n + 1)'
         /\ asm'.words = asm.words /\ asm'.length = asm.length /\ n \notin WordLines(code)
              => WordsSoFar(code, n + 1)'
<1> DEFINE r == Keyword(code, "ROMS")
           a == Keyword(code, "ASM")
           f == Keyword(code, "FILL")
<1>1. /\ Len(code) \in Nat /\ r \in 1 .. Len(code) /\ a \in 1 .. Len(code) /\ f \in 1 .. Len(code)
      /\ BitLines(code) \subseteq 1 .. Len(code) /\ RomLines(code) \subseteq 1 .. Len(code)
      /\ OpcodeLines(code) \subseteq 1 .. Len(code) /\ WordLines(code) \subseteq 1 .. Len(code)
      /\ \A h : WordsUnder(code, h) \subseteq WordLines(code)
      /\ \A op : Under(code, op) \subseteq WordLines(code)
  BY Kinds
<1> HIDE DEF r, a, f
<1>2. r \in Nat /\ a \in Nat /\ f \in Nat /\ n \in Nat
  BY <1>1
<1>3. \A i \in 1 .. Len(code) : i < n + 1 <=> i < n \/ i = n
  BY <1>1
<1>4. Sized(code)'
  BY DEF Parsed, Sized
<1>5. ASSUME cursor'.mode = cursor.mode, n # r, n # a PROVE ModeSoFar(code, n + 1)'
  <2>1. (n + 1 > a <=> n > a) /\ (n + 1 > r <=> n > r)
    BY <1>2, <1>5
  <2> QED BY <1>5, <2>1 DEF Parsed, ModeSoFar, a, r
<1>6. ASSUME roms' = roms, cursor'.rom = cursor.rom, n \notin BitLines(code),
             n \in RomLines(code) => n <= r \/ n >= a
      PROVE  BitsSoFar(code, n + 1)'
  <2>1. Heading(RomLines(code), n + 1) =
          IF n \in RomLines(code) THEN n ELSE Heading(RomLines(code), n)
    BY <1>1, <1>2, HeadingFacts
  <2>2. ASSUME r < Heading(RomLines(code), n + 1), n + 1 <= a
        PROVE  cursor'.rom = ValueOf(code[Heading(RomLines(code), n + 1)][2]) - 1
    <3>1. n \notin RomLines(code)
      BY <1>2, <1>6, <2>1, <2>2
    <3>2. n <= a
      BY <1>2, <2>2
    <3> QED BY <1>6, <2>1, <2>2, <3>1, <3>2 DEF Parsed, BitsSoFar, r, a
  <2>3. ASSUME NEW i \in BitLines(code), i < n + 1 PROVE i < n
    BY <1>1, <1>3, <1>6, <2>3
  <2> QED BY <1>6, <2>2, <2>3 DEF Parsed, BitsSoFar, r, a
<1>7. ASSUME asm'.fill = asm.fill, n # f PROVE FillSoFar(code, n + 1)'
  <2>1. f < n + 1 <=> f < n
    BY <1>2, <1>7
  <2> QED BY <1>7, <2>1 DEF Parsed, FillSoFar, f
<1>8. ASSUME cursor'.op = cursor.op, cursor'.uop = cursor.uop,
             n \notin OpcodeLines(code), n \notin WordLines(code)
      PROVE  CursorSoFar(code, n + 1)'
  <2> DEFINE h == Heading(OpcodeLines(code), n)
  <2>1. Heading(OpcodeLines(code), n + 1) = h
    BY <1>1, <1>2, <1>8, HeadingFacts
  <2>2. Order(WordsUnder(code, h), n + 1) = Order(WordsUnder(code, h), n)
    <3>1. WordsUnder(code, h) \subseteq 1 .. Len(code) /\ n \notin WordsUnder(code, h)
      BY <1>1, <1>8
    <3>2. /\ Order(WordsUnder(code, h), n) \in Nat
          /\ Order(WordsUnder(code, h), n + 1) = Order(WordsUnder(code, h), n) + 0
      BY <1>1, <1>2, <3>1, OrderFacts
    <3> QED BY <3>2
  <2>3. h # 0 => cursor.op = ValueOf(code[h][1]) /\ cursor.uop = Order(WordsUnder(code, h), n)
    BY DEF Parsed, CursorSoFar
  <2> HIDE DEF h
  <2> QED BY <1>8, <2>1, <2>2, <2>3 DEF CursorSoFar
<1>9. ASSUME asm'.words = asm.words, asm'.length = asm.length, n \notin WordLines(code)
      PROVE  WordsSoFar(code, n + 1)'
  <2>1. \A op : Order(Under(code, op), n + 1) = Order(Under(code, op), n)
    <3> SUFFICES ASSUME NEW op PROVE Order(Under(code, op), n + 1) = Order(Under(code, op), n)
      OBVIOUS
    <3>1. Under(code, op) \subseteq 1 .. Len(code) /\ n \notin Under(code, op)
      BY <1>1, <1>9
    <3>2. /\ Order(Under(code, op), n) \in Nat
          /\ Order(Under(code, op), n + 1) = Order(Under(code, op), n) + 0
      BY <1>1, <1>2, <3>1, OrderFacts
    <3> QED BY <3>2
  <2>2. \A op : \A i \in Under(code, op) : i < n + 1 <=> i < n
    <3> SUFFICES ASSUME NEW op, NEW i \in Under(code, op) PROVE i < n + 1 <=> i < n
      OBVIOUS
    <3>1. i \in 1 .. Len(code) /\ i # n
      BY <1>1, <1>9
    <3> QED BY <1>3, <3>1
  <2>3. Opcodes' = Opcodes /\ Offsets' = Offsets
    BY SameTables
  <2> QED BY <1>9, <2>1, <2>2, <2>3 DEF Parsed, WordsSoFar
<1> QED BY <1>4, <1>5, <1>6, <1>7, <1>8, <1>9 DEF r, a, f

\* Where the second pass is when it can take a line of each kind.
LEMMA Sections ==
  ASSUME NEW CONSTANT code, NEW CONSTANT n, n = at,
         Shaped(code), TypeOK, stage = "parse", Parsed(code, n)
  PROVE  /\ IsSection <=> n \in {Keyword(code, "ROMS"), Keyword(code, "ASM")}
         /\ IsA(Line, "FILL") <=> n = Keyword(code, "FILL")
         /\ Parses("none") => n < Keyword(code, "ROMS")
         /\ Parses("rom") => Keyword(code, "ROMS") < n /\ n < Keyword(code, "ASM")
         /\ Parses("asm") => Keyword(code, "ASM") < n
         /\ n \in BitLines(code) =>
              Keyword(code, "ROMS") < n /\ n < Keyword(code, "ASM") /\ StartsWithDigit(Line)
         /\ n \in OpcodeLines(code) => Keyword(code, "ASM") < n /\ StartsWithDigit(Line)
         /\ n \in WordLines(code) =>
              /\ Keyword(code, "ASM") < n /\ ~StartsWithDigit(Line)
              /\ n # Keyword(code, "FILL")
<1> DEFINE r == Keyword(code, "ROMS")
           a == Keyword(code, "ASM")
<1>1. /\ n \in 1 .. Len(code) /\ code[n] \in Lines
      /\ IsA(Line, "ROMS") <=> n = r
      /\ IsA(Line, "ASM") <=> n = a
      /\ IsA(Line, "FILL") <=> n = Keyword(code, "FILL")
      /\ n > r => (StartsWithDigit(Line) <=> StartsWithDigit(code[n]))
  BY LineOf DEF Parsed
<1>2. r \in Nat /\ a \in Nat /\ n \in Nat /\ r < a
  BY <1>1, Kinds
<1>3. cursor.mode = IF n > a THEN "asm" ELSE IF n > r THEN "rom" ELSE "none"
  BY DEF Parsed, ModeSoFar
<1>4. IsSection <=> n \in {r, a}
  BY <1>1 DEF IsSection
<1>5. /\ n \in BitLines(code) => r < n /\ n < a /\ StartsWithDigit(code[n])
      /\ n \in OpcodeLines(code) => a < n /\ StartsWithDigit(code[n])
  <2>1. BitLines(code) = { i \in r + 1 .. a - 1 : StartsWithDigit(code[i]) }
    BY DEF BitLines
  <2>2. OpcodeLines(code) = { i \in a + 1 .. Len(code) : StartsWithDigit(code[i]) }
    BY DEF OpcodeLines
  <2> HIDE DEF r, a
  <2> QED BY <1>2, <2>1, <2>2
<1>6. n \in WordLines(code) => a < n /\ ~StartsWithDigit(code[n]) /\ n # Keyword(code, "FILL")
  <2>1. WordLines(code) =
          { i \in a + 1 .. Len(code) : ~StartsWithDigit(code[i]) /\ ~IsDirective(code[i]) }
    BY DEF WordLines
  <2>2. IsA(code[n], "FILL") => IsDirective(code[n])
    BY DEF IsDirective, Directives
  <2>3. IsA(code[n], "FILL") <=> n = Keyword(code, "FILL")
    BY <1>1 DEF Shaped
  <2> HIDE DEF r, a
  <2> QED BY <1>2, <2>1, <2>2, <2>3
<1>7. /\ Parses("none") => n < r
      /\ Parses("rom") => r < n /\ n < a
      /\ Parses("asm") => a < n
  <2>1. /\ Parses("none") => n \notin {r, a} /\ cursor.mode = "none"
        /\ Parses("rom") => n \notin {r, a} /\ cursor.mode = "rom"
        /\ Parses("asm") => n \notin {r, a} /\ cursor.mode = "asm"
    BY <1>4 DEF Parses
  <2> HIDE DEF r, a
  <2> QED BY <1>2, <1>3, <2>1
<1>8. n > a => n > r
  <2> HIDE DEF r, a
  <2> QED BY <1>2
<1> QED BY <1>1, <1>4, <1>5, <1>6, <1>7, <1>8, Zenon

\* Every bit's line has a place in the tables, and a place of its own.
LEMMA BitPlaces ==
  ASSUME NEW CONSTANT code, Shaped(code), Sized(code), TypeOK, NEW CONSTANT i \in BitLines(code)
  PROVE  /\ Len(code[i]) > 1 /\ Keyword(code, "ROMS") < Heading(RomLines(code), i)
         /\ PositionOf(code, i)[1] \in Roms /\ PositionOf(code, i)[2] \in Bits
         /\ \A j \in BitLines(code) : i # j => PositionOf(code, i) # PositionOf(code, j)
<1>1. /\ Len(code[i]) > 1 /\ Heading(RomLines(code), i) > Keyword(code, "ROMS")
      /\ PositionOf(code, i) \in
           (0 .. Number(code, "ROMS") - 1) \X (0 .. Number(code, "WIDTH") - 1)
      /\ \A j \in BitLines(code) : i # j => PositionOf(code, i) # PositionOf(code, j)
  BY DEF Shaped, WellFormedBits
<1>2. Roms = 0 .. Number(code, "ROMS") - 1 /\ Bits = 0 .. Number(code, "WIDTH") - 1
  BY DEF Sized, Roms, Bits, Parameters
<1>3. Keyword(code, "ROMS") < Heading(RomLines(code), i)
  <2>1. Keyword(code, "ROMS") \in Nat /\ Heading(RomLines(code), i) \in Nat
    <3>1. i \in Nat
      BY Kinds
    <3> QED BY <3>1, Kinds, HeadingFacts
  <2> QED BY <1>1, <2>1
<1> QED BY <1>1, <1>2, <1>3

LEMMA SectionStep ==
  ASSUME NEW CONSTANT code, NEW CONSTANT n, n = at,
         Shaped(code), TypeOK, stage = "parse", Parsed(code, n), StartSection
  PROVE  Parsed(code, n + 1)'
<1> DEFINE r == Keyword(code, "ROMS")
           a == Keyword(code, "ASM")
<1>1. /\ cursor' = [cursor EXCEPT !.mode = IF IsA(Line, "ROMS") THEN "rom" ELSE "asm"]
      /\ UNCHANGED << lines, sizes, roms, asm >> /\ IsSection
  BY DEF StartSection
<1>2. /\ n \in 1 .. Len(code) /\ (IsA(Line, "ROMS") <=> n = r)
      /\ IsA(Line, "FILL") <=> n = Keyword(code, "FILL")
      /\ IsA(Line, "ROM") <=> n \in RomLines(code)
  BY LineOf DEF Parsed
<1>3. n \in {r, a}
  BY <1>1, Sections
<1>4. r \in Nat /\ a \in Nat /\ r < a
  BY Kinds
<1>5. /\ cursor'.mode = IF n = r THEN "rom" ELSE "asm"
      /\ cursor'.rom = cursor.rom /\ cursor'.op = cursor.op /\ cursor'.uop = cursor.uop
  BY <1>1, <1>2 DEF TypeOK
<1>6. ModeSoFar(code, n + 1)'
  <2> SUFFICES cursor'.mode = IF n + 1 > a THEN "asm" ELSE IF n + 1 > r THEN "rom" ELSE "none"
    BY DEF ModeSoFar
  <2> HIDE DEF r, a
  <2>1. CASE n = r
    BY <1>4, <1>5, <2>1
  <2>2. CASE n = a
    BY <1>4, <1>5, <2>2
  <2> QED BY <1>3, <2>1, <2>2
<1>7. n \notin BitLines(code) /\ n \notin OpcodeLines(code) /\ n \notin WordLines(code)
  <2>1. ~(r < n /\ n < a) /\ ~(a < n)
    <3> HIDE DEF r, a
    <3> QED BY <1>3, <1>4
  <2> QED BY <2>1, Sections
<1>8. n # Keyword(code, "FILL") /\ (n <= r \/ n >= a)
  <2>1. ~(IsA(Line, "FILL") /\ IsSection)
    BY DEF IsA, IsSection
  <2>2. n <= r \/ n >= a
    <3> HIDE DEF r, a
    <3> QED BY <1>3, <1>4
  <2> QED BY <1>1, <1>2, <2>1, <2>2
<1> QED BY <1>1, <1>2, <1>5, <1>6, <1>7, <1>8, Advance DEF Parsed

LEMMA FillStep ==
  ASSUME NEW CONSTANT code, NEW CONSTANT n, n = at,
         Shaped(code), TypeOK, stage = "parse", Parsed(code, n), TakeFill
  PROVE  Parsed(code, n + 1)'
<1> DEFINE f == Keyword(code, "FILL")
<1>1. /\ asm' = [asm EXCEPT !.fill = Tail(Line), !.filled = TRUE] /\ IsA(Line, "FILL")
      /\ UNCHANGED << lines, sizes, roms, cursor >>
  BY DEF TakeFill
<1>2. n \in 1 .. Len(code) /\ n = f /\ Line = code[n] /\ (IsA(Line, "ROM") <=> n \in RomLines(code))
  BY <1>1, LineOf DEF Parsed
<1>3. asm'.fill = Tail(code[n]) /\ asm'.words = asm.words /\ asm'.length = asm.length
  BY <1>1, <1>2 DEF TypeOK
<1>4. FillSoFar(code, n + 1)'
  BY <1>2, <1>3 DEF FillSoFar
<1>5. ~IsSection /\ ~StartsWithDigit(Line) /\ ~IsA(Line, "ROM")
  <2>1. "FILL" \notin DOMAIN Numerals
    BY KeywordsAssumption
  <2> QED BY <1>1, <2>1 DEF IsSection, IsA, StartsWithDigit
<1>6. n # Keyword(code, "ROMS") /\ n # Keyword(code, "ASM")
  BY <1>5, Sections
<1>7. n \notin BitLines(code) /\ n \notin OpcodeLines(code) /\ n \notin WordLines(code)
  BY <1>2, <1>5, Sections
<1> QED BY <1>1, <1>2, <1>3, <1>4, <1>5, <1>6, <1>7, Advance DEF Parsed

LEMMA IgnoreStep ==
  ASSUME NEW CONSTANT code, NEW CONSTANT n, n = at,
         Shaped(code), TypeOK, stage = "parse", Parsed(code, n), Ignore
  PROVE  Parsed(code, n + 1)'
<1> DEFINE r == Keyword(code, "ROMS")
           a == Keyword(code, "ASM")
<1>1. UNCHANGED << lines, sizes, roms, asm, cursor >>
  BY DEF Ignore, parsed
<1>2. /\ n \in 1 .. Len(code) /\ (IsA(Line, "ROM") <=> n \in RomLines(code))
  BY LineOf DEF Parsed
<1>3. ~IsSection /\ ~IsA(Line, "FILL")
  BY DEF Ignore, Parses
<1>4. n # r /\ n # a /\ n # Keyword(code, "FILL")
  BY <1>3, Sections
<1>5. n < r \/ (r < n /\ n < a /\ n \notin RomLines(code) /\ ~StartsWithDigit(Line))
  BY <1>2, Sections DEF Ignore
<1>6. r \in Nat /\ a \in Nat /\ n \in Nat /\ r < a
  BY <1>2, Kinds
<1>7. ~(a < n) /\ (n \in RomLines(code) => n <= r)
      /\ (r < n /\ n < a => ~StartsWithDigit(Line))
  <2> HIDE DEF r, a
  <2> QED BY <1>5, <1>6
<1>8. n \notin BitLines(code) /\ n \notin OpcodeLines(code) /\ n \notin WordLines(code)
  BY <1>7, Sections
<1> QED BY <1>1, <1>2, <1>4, <1>7, <1>8, Advance DEF Parsed

LEMMA RomStep ==
  ASSUME NEW CONSTANT code, NEW CONSTANT n, n = at,
         Shaped(code), TypeOK, stage = "parse", Parsed(code, n), StartRom
  PROVE  Parsed(code, n + 1)'
<1> DEFINE r == Keyword(code, "ROMS")
           a == Keyword(code, "ASM")
<1>1. /\ Parses("rom") /\ IsA(Line, "ROM")
      /\ cursor' = [cursor EXCEPT !.rom = ValueOf(Line[2]) - 1]
      /\ UNCHANGED << lines, sizes, roms, asm >>
  BY DEF StartRom
<1>2. n \in 1 .. Len(code) /\ Line = code[n] /\ n \in RomLines(code)
  BY <1>1, LineOf DEF Parsed
<1>3. ~IsSection /\ ~IsA(Line, "FILL") /\ ~StartsWithDigit(Line)
  <2>1. "ROM" \notin DOMAIN Numerals
    BY KeywordsAssumption
  <2> QED BY <1>1, <2>1 DEF Parses, IsA, StartsWithDigit
<1>4. r < n /\ n < a
  BY <1>1, Sections
<1>5. n # r /\ n # a /\ n # Keyword(code, "FILL")
  BY <1>3, Sections
<1>6. r \in Nat /\ a \in Nat /\ n \in Nat /\ r < a
  BY <1>2, Kinds
<1>7. ~(a < n)
  <2> HIDE DEF r, a
  <2> QED BY <1>4, <1>6
<1>8. n \notin BitLines(code) /\ n \notin OpcodeLines(code) /\ n \notin WordLines(code)
  BY <1>3, <1>7, Sections
<1>9. /\ cursor'.mode = cursor.mode /\ cursor'.op = cursor.op /\ cursor'.uop = cursor.uop
      /\ cursor'.rom = ValueOf(code[n][2]) - 1
  BY <1>1, <1>2 DEF TypeOK
<1>10. BitsSoFar(code, n + 1)'
  <2>1. Heading(RomLines(code), n + 1) = n
    BY <1>2, <1>6, Kinds, HeadingFacts
  <2>2. ASSUME NEW i \in BitLines(code), i < n + 1 PROVE i < n
    <3>1. i \in Nat /\ i # n
      BY <1>8, Kinds
    <3> QED BY <1>6, <2>2, <3>1
  <2> QED BY <1>1, <1>9, <2>1, <2>2 DEF BitsSoFar, Parsed
<1> QED BY <1>1, <1>2, <1>5, <1>8, <1>9, <1>10, Advance DEF Parsed

LEMMA BitStep ==
  ASSUME NEW CONSTANT code, NEW CONSTANT n, n = at,
         Shaped(code), TypeOK, stage = "parse", Parsed(code, n), NameBit \/ NameBitOutside
  PROVE  NameBit /\ Parsed(code, n + 1)'
<1> DEFINE r == Keyword(code, "ROMS")
           a == Keyword(code, "ASM")
           h == Heading(RomLines(code), n)
           p(i) == PositionOf(code, i)
<1>1. /\ Parses("rom") /\ StartsWithDigit(Line) /\ ~IsSection /\ ~IsA(Line, "FILL")
  BY DEF NameBit, NameBitOutside, Parses
<1>2. r < n /\ n < a /\ n # r /\ n # a /\ n # Keyword(code, "FILL")
  BY <1>1, Sections
<1>3. /\ n \in 1 .. Len(code) /\ Line = code[n] /\ StartsWithDigit(code[n])
      /\ IsA(Line, "ROM") <=> n \in RomLines(code)
  <2>1. r \in Nat /\ n \in Nat
    BY Kinds, LineOf DEF Parsed
  <2>2. n > r
    BY <1>2, <2>1
  <2> QED BY <1>1, <2>2, LineOf DEF Parsed
<1>4. r \in Nat /\ a \in Nat /\ n \in Nat /\ Len(code) \in Nat /\ BitLines(code) \subseteq 1 .. Len(code)
      /\ RomLines(code) \subseteq 1 .. Len(code)
  BY <1>3, Kinds
<1>5. n \in BitLines(code)
  <2>1. BitLines(code) = { i \in r + 1 .. a - 1 : StartsWithDigit(code[i]) }
    BY DEF BitLines
  <2> HIDE DEF r, a
  <2> QED BY <1>2, <1>3, <1>4, <2>1
<1>6. n \notin RomLines(code)
  <2>1. "ROM" \notin DOMAIN Numerals
    BY KeywordsAssumption
  <2> QED BY <1>1, <1>3, <2>1 DEF IsA, StartsWithDigit
<1>7. n \notin OpcodeLines(code) /\ n \notin WordLines(code)
  <2>1. ~(a < n)
    <3> HIDE DEF r, a
    <3> QED BY <1>2, <1>4
  <2> QED BY <2>1, Sections
<1>8. /\ Len(code[n]) > 1 /\ r < h /\ p(n)[1] \in Roms /\ p(n)[2] \in Bits
      /\ p(n) = << ValueOf(code[h][2]) - 1, ValueOf(code[n][1]) >>
  BY <1>5, BitPlaces DEF Parsed, PositionOf
<1>9. cursor.rom = p(n)[1] /\ Bit = p(n)[2]
  <2>1. cursor.rom = ValueOf(code[h][2]) - 1
    <3>1. n <= a
      <4> HIDE DEF r, a
      <4> QED BY <1>2, <1>4
    <3> QED BY <1>8, <3>1 DEF Parsed, BitsSoFar
  <2> HIDE DEF h, p
  <2> QED BY <1>3, <1>8, <2>1 DEF Bit
<1>10. NameBit
  BY <1>8, <1>9 DEF NameBitOutside
<1>11. Mark = code[n][2]
  <2>1. Len(Line) # 1
    <3> DEFINE m == Len(Line)
    <3>1. m > 1
      BY <1>3, <1>8
    <3> HIDE DEF m
    <3>2. m # 1
      BY <3>1
    <3> QED BY <3>2 DEF m
  <2> QED BY <1>3, <2>1 DEF Mark
<1>12. /\ UNCHANGED << lines, sizes, asm, cursor >>
       /\ roms'.bits = [roms.bits EXCEPT ![p(n)[1]][p(n)[2]] = NameOf(code, n)]
       /\ roms'.invert = [roms.invert EXCEPT ![p(n)[1]][p(n)[2]] = IsBarred(code, n)]
  <2> HIDE DEF p
  <2> QED BY <1>9, <1>10, <1>11 DEF NameBit, NameOf, IsBarred
<1>13. /\ roms.bits \in [Roms -> [Bits -> BitName]]
       /\ roms.invert \in [Roms -> [Bits -> BOOLEAN]]
  BY DEF TypeOK, Tables
<1>14. BitsSoFar(code, n + 1)'
  <2>1. Heading(RomLines(code), n + 1) = h
    BY <1>4, <1>6, HeadingFacts
  <2>2. ASSUME r < h, n + 1 <= a PROVE cursor'.rom = ValueOf(code[h][2]) - 1
    <3>1. cursor.rom = ValueOf(code[h][2]) - 1
      <4> HIDE DEF h, p
      <4> QED BY <1>8, <1>9
    <3> QED BY <1>12, <3>1
  <2>3. ASSUME NEW i \in BitLines(code), i < n + 1
        PROVE  roms'.bits[p(i)[1]][p(i)[2]] = NameOf(code, i)
               /\ roms'.invert[p(i)[1]][p(i)[2]] = IsBarred(code, i)
    <3>1. p(i)[1] \in Roms /\ p(i)[2] \in Bits
      BY BitPlaces DEF Parsed
    <3>2. CASE i = n
      <4> HIDE DEF p
      <4> QED BY <1>8, <1>12, <1>13, <3>2
    <3>3. CASE i # n
      <4>1. i < n
        BY <1>4, <2>3, <3>3
      <4>2. roms.bits[p(i)[1]][p(i)[2]] = NameOf(code, i)
            /\ roms.invert[p(i)[1]][p(i)[2]] = IsBarred(code, i)
        BY <4>1 DEF Parsed, BitsSoFar
      <4>3. ~(p(i)[1] = p(n)[1] /\ p(i)[2] = p(n)[2])
        <5>1. p(i) # p(n)
          BY <1>5, <3>3, BitPlaces DEF Parsed
        <5>2. p(i) = << p(i)[1], p(i)[2] >> /\ p(n) = << p(n)[1], p(n)[2] >>
          BY DEF PositionOf
        <5> HIDE DEF p
        <5> QED BY <5>1, <5>2
      <4> HIDE DEF p
      <4> QED BY <1>8, <1>12, <1>13, <3>1, <4>2, <4>3
    <3> QED BY <3>2, <3>3
  <2> HIDE DEF h, p
  <2>4. r < Heading(RomLines(code), n + 1) /\ n + 1 <= a =>
          cursor'.rom = ValueOf(code[Heading(RomLines(code), n + 1)][2]) - 1
    BY <2>1, <2>2
  <2> QED BY <2>3, <2>4 DEF BitsSoFar, r, a, p
<1> QED BY <1>2, <1>3, <1>7, <1>10, <1>12, <1>14, Advance DEF Parsed

LEMMA OpcodeStep ==
  ASSUME NEW CONSTANT code, NEW CONSTANT n, n = at,
         Shaped(code), TypeOK, stage = "parse", Parsed(code, n), StartOpcode
  PROVE  Parsed(code, n + 1)'
<1> DEFINE r == Keyword(code, "ROMS")
           a == Keyword(code, "ASM")
<1>1. /\ Parses("asm") /\ StartsWithDigit(Line) /\ ~IsSection /\ ~IsA(Line, "FILL")
      /\ cursor' = [cursor EXCEPT !.op = ValueOf(Line[1]), !.uop = 0]
      /\ UNCHANGED << lines, sizes, roms, asm >>
  BY DEF StartOpcode, Parses
<1>2. a < n /\ n # r /\ n # a /\ n # Keyword(code, "FILL")
  BY <1>1, Sections
<1>3. r \in Nat /\ a \in Nat /\ n \in Nat /\ Len(code) \in Nat /\ r < a
      /\ OpcodeLines(code) \subseteq 1 .. Len(code) /\ n \in 1 .. Len(code)
  BY Kinds, LineOf DEF Parsed
<1>4. Line = code[n] /\ StartsWithDigit(code[n])
  <2>1. n > a
    BY <1>2, <1>3
  <2> QED BY <1>1, <2>1, LineOf DEF Parsed
<1>5. n \in OpcodeLines(code)
  <2>1. OpcodeLines(code) = { i \in a + 1 .. Len(code) : StartsWithDigit(code[i]) }
    BY DEF OpcodeLines
  <2> HIDE DEF r, a
  <2> QED BY <1>2, <1>3, <1>4, <2>1
<1>6. n \notin WordLines(code)
  BY <1>1, Sections
<1>7. n \notin BitLines(code) /\ n >= a
  <2>1. ~(n < a) /\ n >= a
    <3> HIDE DEF r, a
    <3> QED BY <1>2, <1>3
  <2> QED BY <2>1, Sections
<1>8. /\ cursor'.op = ValueOf(code[n][1]) /\ cursor'.uop = 0
      /\ cursor'.mode = cursor.mode /\ cursor'.rom = cursor.rom
  BY <1>1, <1>4 DEF TypeOK
<1>9. CursorSoFar(code, n + 1)'
  <2>1. Heading(OpcodeLines(code), n + 1) = n
    BY <1>3, <1>5, HeadingFacts
  <2>2. Order(WordsUnder(code, n), n + 1) = 0
    <3>1. WordsUnder(code, n) \subseteq 1 .. Len(code)
      BY Kinds
    <3>2. ASSUME NEW i \in WordsUnder(code, n) PROVE ~(i < n + 1)
      <4>1. Heading(OpcodeLines(code), i) = n /\ i \in Nat
        BY <3>1 DEF WordsUnder
      <4> DEFINE g == Heading(OpcodeLines(code), i)
      <4>2. g = 0 \/ g < i
        BY <1>3, <4>1, HeadingFacts
      <4> HIDE DEF g
      <4>3. g = n /\ n # 0
        BY <1>3, <4>1 DEF g
      <4> QED BY <1>3, <4>1, <4>2, <4>3
    <3>3. n + 1 \in Nat
      BY <1>3
    <3> QED BY <1>3, <3>1, <3>2, <3>3, OrderFacts
  <2> QED BY <1>8, <2>1, <2>2 DEF CursorSoFar
<1> QED BY <1>1, <1>2, <1>3, <1>6, <1>7, <1>8, <1>9, Advance DEF Parsed

\* The words of an opcode are under one heading.
LEMMA OneHeading ==
  ASSUME NEW CONSTANT code, Shaped(code), NEW CONSTANT h \in OpcodeLines(code)
  PROVE  /\ ValueOf(code[h][1]) \in Nat /\ ValueOf(code[h][1]) < Number(code, "ASM")
         /\ Under(code, ValueOf(code[h][1])) = WordsUnder(code, h)
         /\ Cardinality(WordsUnder(code, h)) <= Number(code, "DEPTH")
<1>1. /\ ValueOf(code[h][1]) < Number(code, "ASM")
      /\ Cardinality(WordsUnder(code, h)) <= Number(code, "DEPTH")
      /\ \A g \in OpcodeLines(code) : g # h => ValueOf(code[g][1]) # ValueOf(code[h][1])
  BY DEF Shaped, WellFormedWords
<1>2. { g \in OpcodeLines(code) : ValueOf(code[g][1]) = ValueOf(code[h][1]) } = {h}
  BY <1>1
<1>3. Under(code, ValueOf(code[h][1])) = WordsUnder(code, h)
  BY <1>2 DEF Under
<1> QED BY <1>1, <1>3, Values

LEMMA WordStep ==
  ASSUME NEW CONSTANT code, NEW CONSTANT n, n = at,
         Shaped(code), TypeOK, stage = "parse", Parsed(code, n), AddWord \/ AddWordOutside
  PROVE  AddWord /\ Parsed(code, n + 1)'
<1> DEFINE r == Keyword(code, "ROMS")
           a == Keyword(code, "ASM")
           h == Heading(OpcodeLines(code), n)
           o == ValueOf(code[h][1])
           under == Under(code, o)
           u == Order(under, n)
<1>1. Parses("asm") /\ ~StartsWithDigit(Line) /\ ~IsSection /\ ~IsA(Line, "FILL")
  BY DEF AddWord, AddWordOutside, AddsWord, Parses
<1>2. a < n /\ n # r /\ n # a /\ n # Keyword(code, "FILL")
  BY <1>1, Sections
<1>3. r \in Nat /\ a \in Nat /\ n \in Nat /\ Len(code) \in Nat /\ r < a
      /\ OpcodeLines(code) \subseteq 1 .. Len(code) /\ n \in 1 .. Len(code)
  BY Kinds, LineOf DEF Parsed
<1>4. Line = code[n] /\ ~StartsWithDigit(code[n])
  <2>1. n > a
    BY <1>2, <1>3
  <2> QED BY <1>1, <2>1, LineOf DEF Parsed
<1>5. n \in WordLines(code)
  <2>1. WordLines(code) =
          { i \in a + 1 .. Len(code) : ~StartsWithDigit(code[i]) /\ ~IsDirective(code[i]) }
    BY DEF WordLines
  <2>2. ~IsDirective(code[n])
    <3>1. \A k \in Parameters : Keyword(code, k) \in Nat /\ Keyword(code, k) <= a
      <4>1. \A k \in Parameters : Keyword(code, k) \in 1 .. Len(code) /\ Keyword(code, k) <= a
        BY DEF Shaped
      <4> QED BY <1>3, <4>1
    <3>2. \A k \in Parameters : n # Keyword(code, k)
      <4> HIDE DEF a
      <4> QED BY <1>2, <1>3, <3>1
    <3>3. \A k \in Parameters \cup {"FILL"} : ~IsA(code[n], k)
      BY <1>2, <1>3, <3>2 DEF Shaped
    <3>4. ~IsA(code[n], "VERSION")
      <4>1. ~(n < r)
        <5> HIDE DEF r, a
        <5> QED BY <1>2, <1>3
      <4> QED BY <1>3, <4>1 DEF Shaped
    <3> QED BY <3>3, <3>4 DEF IsDirective, Directives
  <2> HIDE DEF a
  <2> QED BY <1>2, <1>3, <1>4, <2>1, <2>2
<1>6. n \notin OpcodeLines(code) /\ n \notin BitLines(code) /\ n >= a
  <2>1. ~(n < a) /\ n >= a
    <3> HIDE DEF r, a
    <3> QED BY <1>2, <1>3
  <2> QED BY <1>1, <2>1, Sections
<1>7. h # 0 /\ h \in OpcodeLines(code)
  <2>1. h # 0
    BY <1>5 DEF Shaped, WellFormedWords
  <2> QED BY <1>3, <2>1, HeadingFacts
<1>8. /\ o \in Nat /\ o < Number(code, "ASM") /\ under = WordsUnder(code, h)
      /\ Cardinality(under) <= Number(code, "DEPTH")
  BY <1>7, OneHeading
<1>9. n \in under /\ under \subseteq WordLines(code) /\ under \subseteq 1 .. Len(code)
  <2>1. n \in WordsUnder(code, h)
    BY <1>5 DEF WordsUnder
  <2> QED BY <1>8, <2>1, Kinds
<1>10. cursor.op = o /\ cursor.uop = u
  BY <1>7, <1>8 DEF Parsed, CursorSoFar
<1>11. /\ sizes["ASM"] = Number(code, "ASM") /\ sizes["DEPTH"] = Number(code, "DEPTH")
       /\ sizes["ASM"] \in Nat /\ sizes["DEPTH"] \in Nat
  BY DEF Parsed, Sized, Parameters, TypeOK
<1>12. u \in Nat /\ u < Cardinality(under) /\ Cardinality(under) \in Nat
  <2>1. u \in Nat /\ u < Cardinality(under)
    <3> HIDE DEF under, o, h
    <3> QED BY <1>3, <1>9, OrderFacts DEF u
  <2>2. IsFiniteSet(1 .. Len(code))
    BY <1>3, FS_Interval
  <2>3. Cardinality(under) \in Nat
    BY <1>9, <2>2, FS_Subset, FS_CardinalityType
  <2> QED BY <2>1, <2>3
<1>13. o \in Opcodes /\ u \in Offsets
  <2> HIDE DEF o, u, under
  <2> QED BY <1>8, <1>11, <1>12 DEF Opcodes, Offsets
<1>14. AddWord
  BY <1>10, <1>13 DEF AddWordOutside
<1>15. /\ asm'.words = [asm.words EXCEPT ![o][u] = code[n]]
       /\ asm'.length = [asm.length EXCEPT ![o] = @ + 1]
       /\ asm'.fill = asm.fill /\ UNCHANGED << lines, sizes, roms >>
       /\ cursor'.mode = cursor.mode /\ cursor'.rom = cursor.rom /\ cursor'.op = o
       /\ cursor'.uop = u + 1
  <2> HIDE DEF o, u
  <2>1. /\ asm' = [asm EXCEPT !.words[cursor.op][cursor.uop] = Line, !.length = Counted]
        /\ cursor' = [cursor EXCEPT !.uop = @ + 1] /\ UNCHANGED << lines, sizes, roms >>
    BY <1>14 DEF AddWord
  <2>2. Counted = [asm.length EXCEPT ![o] = @ + 1]
    BY <1>10 DEF Counted
  <2> QED BY <1>4, <1>10, <2>1, <2>2 DEF TypeOK
<1>16. /\ asm.words \in [Opcodes -> [Offsets -> Seq(STRING)]]
       /\ asm.length \in [Opcodes -> Nat]
  BY DEF TypeOK, Tables
<1>17. CursorSoFar(code, n + 1)'
  <2>1. Heading(OpcodeLines(code), n + 1) = h
    BY <1>3, <1>6, HeadingFacts
  <2>2. Order(under, n + 1) = u + 1
    <3> HIDE DEF under, o, h
    <3> QED BY <1>3, <1>9, OrderFacts DEF u
  <2>3. cursor'.op = ValueOf(code[h][1]) /\ cursor'.uop = Order(WordsUnder(code, h), n + 1)
    BY <1>8, <1>15, <2>2
  <2> HIDE DEF h, o, under, u
  <2> QED BY <2>1, <2>3 DEF CursorSoFar
<1>18. WordsSoFar(code, n + 1)'
  <2>0. Opcodes' = Opcodes /\ Offsets' = Offsets
    BY <1>15, SameTables
  <2> SUFFICES ASSUME NEW op \in Opcodes
               PROVE  /\ asm'.length[op] = Order(Under(code, op), n + 1)
                      /\ \A k \in Offsets : k >= asm'.length[op] => asm'.words[op][k] = << >>
                      /\ \A i \in Under(code, op) :
                           i < n + 1 => asm'.words[op][Order(Under(code, op), i)] = code[i]
                      /\ \A k \in 0 .. asm'.length[op] - 1 :
                           \E i \in Under(code, op) : i < n + 1 /\ Order(Under(code, op), i) = k
    BY <2>0 DEF WordsSoFar
  <2> DEFINE U == Under(code, op)
  <2>1. /\ asm.length[op] = Order(U, n)
        /\ \A k \in Offsets : k >= asm.length[op] => asm.words[op][k] = << >>
        /\ \A i \in U : i < n => asm.words[op][Order(U, i)] = code[i]
        /\ \A k \in 0 .. asm.length[op] - 1 : \E i \in U : i < n /\ Order(U, i) = k
    BY DEF Parsed, WordsSoFar
  <2>2. U \subseteq 1 .. Len(code)
    BY Kinds
  <2>3. Order(U, n) \in Nat /\ Order(U, n + 1) = Order(U, n) + IF n \in U THEN 1 ELSE 0
    BY <1>3, <2>2, OrderFacts
  <2>4. \A i \in U : i < n + 1 <=> i < n \/ i = n
    BY <1>3, <2>2
  <2>5. CASE op = o
    <3>1. U = under /\ n \in U /\ u = asm.length[op]
      BY <1>9, <2>1, <2>5
    <3>2. \A i \in U : i < n => Order(U, i) < u /\ Order(U, i) \in Nat
      <4> SUFFICES ASSUME NEW i \in U, i < n PROVE Order(U, i) < u /\ Order(U, i) \in Nat
        OBVIOUS
      <4>1. i \in Nat
        BY <2>2
      <4>2. Order(U, i) \in Nat
        BY <1>3, <2>2, <4>1, OrderFacts
      <4>3. Order(U, i) < Order(U, n)
        BY <1>3, <2>2, <3>1, OrderGrows
      <4> QED BY <3>1, <4>2, <4>3
    <3> HIDE DEF U, under, u, o, h
    <3>3. u \in Nat /\ asm.length[op] \in Nat /\ asm'.length[op] = u + 1 /\ Order(U, n) = u
      BY <1>12, <1>15, <1>16, <2>1, <2>5, <3>1
    <3>4. \A k : asm'.words[op][k] = IF k = u THEN code[n] ELSE asm.words[op][k]
      <4> SUFFICES ASSUME NEW k PROVE asm'.words[op][k] = IF k = u THEN code[n] ELSE asm.words[op][k]
        OBVIOUS
      <4>1. asm'.words[op] = [asm.words[op] EXCEPT ![u] = code[n]]
        BY <1>15, <1>16, <2>5
      <4>2. asm.words[op] \in [Offsets -> Seq(STRING)] /\ u \in Offsets
        BY <1>13, <1>16
      <4> QED BY <4>1, <4>2
    <3>5. \A k \in Offsets : k >= asm'.length[op] => asm'.words[op][k] = << >>
      <4> SUFFICES ASSUME NEW k \in Offsets, k >= u + 1 PROVE asm'.words[op][k] = << >>
        BY <3>3
      <4>1. k \in Int
        BY DEF Offsets
      <4>2. k # u /\ k >= u
        BY <3>3, <4>1
      <4> QED BY <2>1, <3>1, <3>4, <4>2
    <3>6. ASSUME NEW i \in U, i < n + 1 PROVE asm'.words[op][Order(U, i)] = code[i]
      <4>1. CASE i = n
        BY <3>3, <3>4, <4>1
      <4>2. CASE i < n
        <5>1. Order(U, i) # u
          BY <3>2, <3>3, <4>2
        <5> QED BY <2>1, <3>4, <4>2, <5>1
      <4> QED BY <2>4, <3>6, <4>1, <4>2
    <3>7. ASSUME NEW k \in 0 .. asm'.length[op] - 1 PROVE \E i \in U : i < n + 1 /\ Order(U, i) = k
      <4>1. CASE k = u
        <5>1. n < n + 1
          BY <1>3
        <5> QED BY <3>1, <3>3, <4>1, <5>1
      <4>2. CASE k # u
        <5>1. k \in 0 .. asm.length[op] - 1
          BY <3>1, <3>3, <4>2
        <5>2. PICK i \in U : i < n /\ Order(U, i) = k
          BY <2>1, <5>1
        <5> QED BY <2>4, <5>2
      <4> QED BY <4>1, <4>2
    <3>8. asm'.length[op] = Order(U, n + 1)
      BY <2>3, <3>1, <3>3
    <3> QED BY <3>5, <3>6, <3>7, <3>8 DEF U
  <2>6. CASE op # o
    <3>1. n \notin U
      <4> SUFFICES ASSUME n \in U PROVE FALSE
        OBVIOUS
      <4>1. PICK g \in OpcodeLines(code) : ValueOf(code[g][1]) = op /\ n \in WordsUnder(code, g)
        BY DEF Under
      <4>2. Heading(OpcodeLines(code), n) = g
        BY <4>1 DEF WordsUnder
      <4> QED BY <2>6, <4>1, <4>2
    <3> HIDE DEF U, under, u, o, h
    <3>2. asm'.words[op] = asm.words[op] /\ asm'.length[op] = asm.length[op]
      BY <1>13, <1>15, <1>16, <2>6
    <3>3. \A i \in U : i < n + 1 <=> i < n
      BY <2>4, <3>1
    <3>4. asm'.length[op] = Order(U, n + 1)
      BY <2>1, <2>3, <3>1, <3>2
    <3>5. ASSUME NEW i \in U, i < n + 1 PROVE asm'.words[op][Order(U, i)] = code[i]
      BY <2>1, <3>2, <3>3, <3>5
    <3>6. ASSUME NEW k \in 0 .. asm'.length[op] - 1 PROVE \E i \in U : i < n + 1 /\ Order(U, i) = k
      BY <2>1, <3>2, <3>3
    <3> QED BY <2>1, <3>2, <3>4, <3>5, <3>6 DEF U
  <2> QED BY <2>5, <2>6
<1>19. n \in RomLines(code) => n >= a
  BY <1>6
<1> QED BY <1>2, <1>3, <1>6, <1>14, <1>15, <1>17, <1>18, <1>19, Advance DEF Parsed

-----------------------------------------------------------------------------
(* generateRoms.                                                           *)

\* The places of the bits of these names.
Places(code, names) ==
  { PositionOf(code, i) : i \in { i \in BitLines(code) : NameOf(code, i) \in names } }
BitNamed(code) == { NameOf(code, i) : i \in BitLines(code) }

\* The only bit of a name.
LEMMA NamedBit ==
  ASSUME NEW CONSTANT code, Shaped(code), TypeOK, Parsed(code, Len(code) + 1),
         NEW i \in BitLines(code)
  PROVE  /\ Named(NameOf(code, i)) = {PositionOf(code, i)}
         /\ Kept({PositionOf(code, i)}) = PositionOf(code, i)
<1> DEFINE p(j) == PositionOf(code, j)
<1>1. Len(code) \in Nat /\ BitLines(code) \subseteq 1 .. Len(code)
  BY Kinds
<1>2. \A j \in BitLines(code) :
        /\ p(j) \in Positions /\ p(j) = << p(j)[1], p(j)[2] >> /\ p(j)[2] \in Nat
        /\ roms.bits[p(j)[1]][p(j)[2]] = NameOf(code, j)
  <2> SUFFICES ASSUME NEW CONSTANT j \in BitLines(code)
               PROVE  /\ p(j) \in Positions /\ p(j) = << p(j)[1], p(j)[2] >> /\ p(j)[2] \in Nat
                      /\ roms.bits[p(j)[1]][p(j)[2]] = NameOf(code, j)
    OBVIOUS
  <2>1. p(j)[1] \in Roms /\ p(j)[2] \in Bits
    BY BitPlaces DEF Parsed
  <2>2. p(j) = << p(j)[1], p(j)[2] >>
    BY DEF PositionOf
  <2>3. j < Len(code) + 1
    BY <1>1
  <2>4. roms.bits[p(j)[1]][p(j)[2]] = NameOf(code, j)
    BY <2>3 DEF Parsed, BitsSoFar
  <2>5. p(j)[2] \in Nat
    <3>1. p(j)[2] = ValueOf(code[j][1])
      BY DEF PositionOf
    <3> QED BY <3>1, Values
  <2>6. p(j) \in Positions
    <3> HIDE DEF p
    <3> QED BY <2>1, <2>2 DEF Positions
  <2> QED BY <2>2, <2>4, <2>5, <2>6
<1>3. /\ { p(j) : j \in BitLines(code) } = Positions
      /\ \A j \in BitLines(code) : i # j => NameOf(code, i) # NameOf(code, j)
  <2>1. Positions = (0 .. Number(code, "ROMS") - 1) \X (0 .. Number(code, "WIDTH") - 1)
    BY DEF Parsed, Sized, Roms, Bits, Parameters, Positions
  <2> QED BY <2>1 DEF Shaped, WellFormedBits
<1> HIDE DEF p
<1>4. ASSUME NEW q \in Positions PROVE roms.bits[q[1]][q[2]] = NameOf(code, i) <=> q = p(i)
  <2>1. PICK j \in BitLines(code) : q = p(j)
    BY <1>3
  <2> QED BY <1>2, <1>3, <2>1
<1>5. Named(NameOf(code, i)) = {p(i)}
  BY <1>2, <1>4 DEF Named
<1>6. LastOf({p(i)}) = p(i)
  <2>1. p(i)[2] <= p(i)[2]
    BY <1>2
  <2> QED BY <2>1 DEF LastOf
<1>7. Kept({p(i)}) = p(i)
  <2>1. p(i)[1] \in 0 .. 127 /\ p(i)[2] \in 0 .. 127 /\ p(i) = << p(i)[1], p(i)[2] >>
    <3>1. /\ p(i) \in (0 .. Number(code, "ROMS") - 1) \X (0 .. Number(code, "WIDTH") - 1)
          /\ Number(code, "ROMS") <= 128 /\ Number(code, "WIDTH") <= 128
          /\ Number(code, "ROMS") \in Nat /\ Number(code, "WIDTH") \in Nat
      BY Values DEF p, Shaped, WellFormedBits, Number
    <3>2. \A m \in Nat : m <= 128 => 0 .. m - 1 \subseteq 0 .. 127
      OBVIOUS
    <3> QED BY <3>1, <3>2
  <2>2. \A m \in 0 .. 127 : Char(m) = m
    BY DEF Char
  <2> QED BY <1>6, <2>1, <2>2 DEF Kept
<1> QED BY <1>5, <1>7 DEF p

LEMMA PlacedWord ==
  ASSUME NEW CONSTANT code, Shaped(code), TypeOK, Parsed(code, Len(code) + 1),
         NEW line, Names(line) \subseteq BitNamed(code)
  PROVE  /\ \A l \in DOMAIN line : Named(line[l]) # {}
         /\ { Kept(Named(line[l])) : l \in DOMAIN line } = Places(code, Names(line))
<1>1. ASSUME NEW l \in DOMAIN line
      PROVE  \E i \in BitLines(code) : /\ line[l] = NameOf(code, i)
                                       /\ Named(line[l]) = {PositionOf(code, i)}
                                       /\ Kept(Named(line[l])) = PositionOf(code, i)
  <2>1. line[l] \in BitNamed(code)
    BY DEF Names
  <2>2. PICK i \in BitLines(code) : line[l] = NameOf(code, i)
    BY <2>1 DEF BitNamed
  <2> QED BY <2>2, NamedBit
<1>2. ASSUME NEW i \in BitLines(code), NameOf(code, i) \in Names(line)
      PROVE  \E l \in DOMAIN line : PositionOf(code, i) = Kept(Named(line[l]))
  <2>1. PICK l \in DOMAIN line : line[l] = NameOf(code, i)
    BY <1>2 DEF Names
  <2> QED BY <2>1, NamedBit
<1>3. ASSUME NEW l \in DOMAIN line PROVE Kept(Named(line[l])) \in Places(code, Names(line))
  <2>1. line[l] \in Names(line)
    BY DEF Names
  <2> QED BY <1>1, <2>1 DEF Places
<1>4. ASSUME NEW x \in Places(code, Names(line))
      PROVE  x \in { Kept(Named(line[l])) : l \in DOMAIN line }
  BY <1>2 DEF Places
<1> QED BY <1>1, <1>3, <1>4

\* What the source says of a word, and what the tables hold of it.
LEMMA AssertedWord ==
  ASSUME NEW CONSTANT code, Shaped(code), TypeOK, Parsed(code, Len(code) + 1),
         stage = "generate",
         NEW CONSTANT op \in Opcodes, NEW CONSTANT k \in Offsets
  PROVE  /\ IsFilled(op, k) => asm.words[op][k] = << >> /\ Asserted(code, op, k) = Names(asm.fill)
         /\ ~IsFilled(op, k) => Asserted(code, op, k) = Names(asm.words[op][k])
         /\ Names(asm.words[op][k]) \subseteq BitNamed(code)
         /\ Names(asm.fill) \subseteq BitNamed(code)
<1> DEFINE U == Under(code, op)
           n == Len(code) + 1
           words == { i \in U : Order(U, i) = k }
<1>1. Len(code) \in Nat /\ U \subseteq 1 .. Len(code) /\ U \subseteq WordLines(code)
      /\ Keyword(code, "FILL") \in 1 .. Len(code)
  BY Kinds
<1>2. \A i \in U : i < n /\ i \in Nat
  BY <1>1
<1>3. /\ asm.length[op] = Order(U, n)
      /\ k >= asm.length[op] => asm.words[op][k] = << >>
      /\ \A i \in U : asm.words[op][Order(U, i)] = code[i]
      /\ \A m \in 0 .. asm.length[op] - 1 : \E i \in U : Order(U, i) = m
  BY <1>2 DEF Parsed, WordsSoFar
<1>4. asm.fill = Tail(code[Keyword(code, "FILL")])
  <2>1. Keyword(code, "FILL") < n
    BY <1>1
  <2> QED BY <2>1 DEF Parsed, FillSoFar
<1>5. Asserted(code, op, k) = IF words = {} THEN Names(asm.fill)
                              ELSE Names(code[CHOOSE i \in words : TRUE])
  BY <1>4 DEF Asserted, Under, Order
<1>6. Names(asm.fill) \subseteq BitNamed(code)
      /\ \A i \in U : Names(code[i]) \subseteq BitNamed(code)
  BY <1>1, <1>4 DEF Shaped, WellFormedWords, BitNamed
<1>7. k \in Nat /\ asm.length[op] \in Nat
  BY DEF TypeOK, Tables, Offsets
<1>8. \A i \in U : Order(U, i) < asm.length[op] /\ Order(U, i) \in Nat
  <2> SUFFICES ASSUME NEW i \in U PROVE Order(U, i) < asm.length[op] /\ Order(U, i) \in Nat
    OBVIOUS
  <2>1. Order(U, i) \in Nat /\ Order(U, i) < Cardinality(U)
    <3> HIDE DEF U
    <3> QED BY <1>1, <1>2, OrderFacts
  <2>2. { j \in U : j < n } = U
    BY <1>2
  <2>3. Order(U, n) = Cardinality(U)
    <3> HIDE DEF U, n
    <3> QED BY <2>2 DEF Order
  <2> QED BY <1>3, <2>1, <2>3
<1> HIDE DEF U, n
<1>9. CASE IsFilled(op, k)
  <2>1. k >= asm.length[op]
    BY <1>9 DEF IsFilled
  <2>2. words = {}
    BY <1>7, <1>8, <2>1
  <2>3. asm.words[op][k] = << >> /\ Names(<< >>) = {}
    BY <1>3, <2>1 DEF Names
  <2> QED BY <1>5, <1>6, <1>9, <2>2, <2>3
<1>10. CASE ~IsFilled(op, k)
  <2>1. k \in 0 .. asm.length[op] - 1
    BY <1>7, <1>10 DEF IsFilled
  <2>2. PICK i \in U : Order(U, i) = k
    BY <1>3, <2>1
  <2>3. words # {} /\ \A j \in words : code[j] = asm.words[op][k] /\ j \in U
    BY <1>3, <2>2
  <2>4. (CHOOSE j \in words : TRUE) \in words
    <3> HIDE DEF words
    <3> QED BY <2>3
  <2> HIDE DEF words
  <2> QED BY <1>5, <1>6, <1>10, <2>3, <2>4
<1> QED BY <1>9, <1>10

\* The word and the offset that an address stands for.
LEMMA AddressParts ==
  ASSUME NEW d \in Nat, d > 0, NEW m \in Nat, NEW x \in 0 .. (m * d) - 1
  PROVE  x \div d \in 0 .. m - 1 /\ x % d \in 0 .. d - 1
<1> DEFINE q == x \div d
           s == x % d
<1>1. x = (d * q) + s /\ s \in 0 .. d - 1 /\ q \in Int /\ x \in Nat /\ x < m * d
  BY SMT
<1> HIDE DEF q, s
<1>2. q >= 0
  <2> SUFFICES ASSUME q <= -1 PROVE FALSE
    BY <1>1
  <2>1. d * q <= d * (-1)
    BY <1>1, SMT
  <2> QED BY <1>1, <2>1, SMT
<1>3. q < m
  <2> SUFFICES ASSUME m <= q PROVE FALSE
    BY <1>1
  <2>1. d * m <= d * q
    BY <1>1, SMT
  <2>2. d * m = m * d
    BY SMT
  <2> QED BY <1>1, <2>1, <2>2, SMT
<1>4. q \in 0 .. m - 1
  BY <1>1, <1>2, <1>3
<1> QED BY <1>1, <1>4 DEF q, s

\* The bits that are high for these names.
HighBits(code, r, asserted) ==
  { PositionOf(code, i)[2] : i \in { i \in BitLines(code) :
      /\ PositionOf(code, i)[1] = r
      /\ (NameOf(code, i) \in asserted) # IsBarred(code, i) } }

LEMMA HighFacts ==
  ASSUME NEW CONSTANT code, Shaped(code), TypeOK, Parsed(code, Len(code) + 1),
         NEW r \in Roms, NEW names
  PROVE  { b \in Bits : (<< r, b >> \in Places(code, names)) # roms.invert[r][b] }
           = HighBits(code, r, names)
<1> DEFINE p(i) == PositionOf(code, i)
           On(i) == NameOf(code, i) \in names
<1>1. Len(code) \in Nat /\ BitLines(code) \subseteq 1 .. Len(code)
  BY Kinds
<1>2. \A i \in BitLines(code) :
        /\ p(i) = << p(i)[1], p(i)[2] >> /\ p(i)[2] \in Bits
        /\ roms.invert[p(i)[1]][p(i)[2]] = IsBarred(code, i)
        /\ \A j \in BitLines(code) : i # j => p(i) # p(j)
  <2> SUFFICES ASSUME NEW CONSTANT i \in BitLines(code)
               PROVE  /\ p(i) = << p(i)[1], p(i)[2] >> /\ p(i)[2] \in Bits
                      /\ roms.invert[p(i)[1]][p(i)[2]] = IsBarred(code, i)
                      /\ \A j \in BitLines(code) : i # j => p(i) # p(j)
    OBVIOUS
  <2>1. i < Len(code) + 1
    BY <1>1
  <2>2. roms.invert[p(i)[1]][p(i)[2]] = IsBarred(code, i)
    BY <2>1 DEF Parsed, BitsSoFar
  <2>3. p(i) = << p(i)[1], p(i)[2] >>
    BY DEF PositionOf
  <2> QED BY <2>2, <2>3, BitPlaces DEF Parsed
<1>3. \A b \in Bits : \E i \in BitLines(code) : p(i) = << r, b >>
  <2>1. Roms \X Bits = (0 .. Number(code, "ROMS") - 1) \X (0 .. Number(code, "WIDTH") - 1)
    BY DEF Parsed, Sized, Roms, Bits, Parameters
  <2>2. { p(i) : i \in BitLines(code) } = Roms \X Bits
    BY <2>1 DEF Shaped, WellFormedBits
  <2> SUFFICES ASSUME NEW b \in Bits PROVE \E i \in BitLines(code) : p(i) = << r, b >>
    OBVIOUS
  <2>3. << r, b >> \in Roms \X Bits
    OBVIOUS
  <2> HIDE DEF p
  <2> QED BY <2>2, <2>3
<1>4. \A i \in BitLines(code) : p(i) \in Places(code, names) <=> On(i)
  BY <1>2 DEF Places
<1>5. \A i \in BitLines(code) : IsBarred(code, i) \in BOOLEAN /\ On(i) \in BOOLEAN
  BY DEF IsBarred
<1>6. HighBits(code, r, names) =
        { p(i)[2] : i \in { i \in BitLines(code) : p(i)[1] = r /\ On(i) # IsBarred(code, i) } }
  BY DEF HighBits
<1> HIDE DEF p, On
<1>7. ASSUME NEW b \in Bits
      PROVE  (<< r, b >> \in Places(code, names)) # roms.invert[r][b]
               <=> b \in HighBits(code, r, names)
  <2>1. PICK i \in BitLines(code) : p(i) = << r, b >>
    BY <1>3
  <2>2. p(i)[1] = r /\ p(i)[2] = b
    BY <2>1
  <2>3. (<< r, b >> \in Places(code, names)) # roms.invert[r][b] <=> On(i) # IsBarred(code, i)
    <3>1. << r, b >> \in Places(code, names) <=> On(i)
      BY <1>4, <2>1
    <3>2. roms.invert[r][b] = IsBarred(code, i)
      BY <1>2, <2>2
    <3> QED BY <1>5, <3>1, <3>2
  <2>4. \A j \in BitLines(code) : p(j)[1] = r /\ p(j)[2] = b => j = i
    BY <1>2, <2>1, <2>2
  <2>5. b \in HighBits(code, r, names) <=> On(i) # IsBarred(code, i)
    BY <1>6, <2>2, <2>4
  <2> QED BY <2>3, <2>5
<1>8. HighBits(code, r, names) \subseteq Bits
  BY <1>2, <1>6
<1> QED BY <1>7, <1>8

\* generateRoms makes of the tables what the source says.
LEMMA ImageMeans ==
  ASSUME NEW CONSTANT code, Shaped(code), TypeOK, Parsed(code, Len(code) + 1),
         stage = "generate", NEW guess, NEW guessFill
  PROVE  Image(guess, guessFill) = Meaning(code)
<1> DEFINE word(op, k) ==
             { LET places == Named(asm.words[op][k][l])
               IN  IF places = {} THEN guess[<< op, k, l >>] ELSE Kept(places)
                 : l \in DOMAIN asm.words[op][k] }
           filling ==
             { LET places == Named(asm.fill[l])
               IN  IF places = {} THEN guessFill[l] ELSE Kept(places)
                 : l \in DOMAIN asm.fill }
           depth == sizes["DEPTH"]
           signals ==
             [op \in Opcodes |-> [k \in Offsets |->
                word(op, k) \cup (IF IsFilled(op, k) THEN filling ELSE {})]]
           high(r, on) == { b \in Bits : (<< r, b >> \in on) # roms.invert[r][b] }
<1>1. Image(guess, guessFill) =
        [r \in Roms |-> [address \in 0 .. (sizes["ASM"] * depth) - 1 |->
           high(r, signals[address \div depth][address % depth])]]
  BY DEF Image
<1>2. /\ sizes["ASM"] = Number(code, "ASM") /\ depth = Number(code, "DEPTH")
      /\ sizes["ROMS"] = Number(code, "ROMS")
      /\ sizes["ASM"] \in Nat /\ depth \in Nat /\ depth > 0
  BY DEF Parsed, Sized, Shaped, Parameters, TypeOK
<1>3. Meaning(code) =
        [r \in 0 .. Number(code, "ROMS") - 1 |->
          [address \in 0 .. (Number(code, "ASM") * Number(code, "DEPTH")) - 1 |->
            HighBits(code, r, Asserted(code, address \div Number(code, "DEPTH"),
                                             address % Number(code, "DEPTH")))]]
  BY DEF Meaning, HighBits
<1>4. ASSUME NEW CONSTANT op \in Opcodes, NEW CONSTANT k \in Offsets
      PROVE  signals[op][k] = Places(code, Asserted(code, op, k))
  <2>1. word(op, k) = Places(code, Names(asm.words[op][k]))
    <3> DEFINE line == asm.words[op][k]
    <3>1. Names(line) \subseteq BitNamed(code)
      BY AssertedWord
    <3>2. /\ \A l \in DOMAIN line : Named(line[l]) # {}
          /\ { Kept(Named(line[l])) : l \in DOMAIN line } = Places(code, Names(line))
      <4> HIDE DEF line
      <4> QED BY <3>1, PlacedWord
    <3>3. word(op, k) = { Kept(Named(line[l])) : l \in DOMAIN line }
      BY <3>2
    <3> QED BY <3>2, <3>3
  <2>2. filling = Places(code, Names(asm.fill))
    <3> DEFINE line == asm.fill
    <3>1. Names(line) \subseteq BitNamed(code)
      BY AssertedWord
    <3>2. /\ \A l \in DOMAIN line : Named(line[l]) # {}
          /\ { Kept(Named(line[l])) : l \in DOMAIN line } = Places(code, Names(line))
      <4> HIDE DEF line
      <4> QED BY <3>1, PlacedWord
    <3>3. filling = { Kept(Named(line[l])) : l \in DOMAIN line }
      BY <3>2
    <3> QED BY <3>2, <3>3
  <2> HIDE DEF word, filling
  <2>3. signals[op][k] = word(op, k) \cup (IF IsFilled(op, k) THEN filling ELSE {})
    OBVIOUS
  <2>4. CASE IsFilled(op, k)
    <3>1. word(op, k) = {}
      BY <2>1, <2>4, AssertedWord DEF Places, Names
    <3> QED BY <2>2, <2>3, <2>4, <3>1, AssertedWord
  <2>5. CASE ~IsFilled(op, k)
    BY <2>1, <2>3, <2>5, AssertedWord
  <2> QED BY <2>4, <2>5
<1>5. \A address \in 0 .. (sizes["ASM"] * depth) - 1 :
        address \div depth \in Opcodes /\ address % depth \in Offsets
  BY <1>2, AddressParts DEF Opcodes, Offsets
<1>6. ASSUME NEW r \in Roms, NEW address \in 0 .. (sizes["ASM"] * depth) - 1
      PROVE  high(r, signals[address \div depth][address % depth])
               = HighBits(code, r, Asserted(code, address \div depth, address % depth))
  <2>1. \A op \in Opcodes, k \in Offsets : signals[op][k] = Places(code, Asserted(code, op, k))
    BY <1>4
  <2>2. \A names : high(r, Places(code, names)) = HighBits(code, r, names)
    BY HighFacts
  <2> HIDE DEF signals, high, depth
  <2> QED BY <1>5, <2>1, <2>2
<1> HIDE DEF signals, high
<1>7. Roms = 0 .. Number(code, "ROMS") - 1
  BY <1>2 DEF Roms
<1> HIDE DEF depth
<1> QED BY <1>1, <1>2, <1>3, <1>6, <1>7

-----------------------------------------------------------------------------
LEMMA ParsingStep ==
  ASSUME NEW CONSTANT code, NEW CONSTANT n, n = at,
         Shaped(code), TypeOK, Parsed(code, n), Parse, stage' # "failed"
  PROVE  /\ Parsed(code, n + 1)'
         /\ \/ stage' = "parse" /\ at' = n + 1
            \/ stage' = "generate" /\ n + 1 = Len(code) + 1
<1>1. stage = "parse" /\ stage \in Loops
  BY DEF Parse, StartSection, TakeFill, Ignore, StartRom, NameBit, NameBitOutside,
         StartOpcode, AbortOnEmpty, AddWord, AddWordOutside, AddsWord, Parses, Loops
<1>2. ~AbortOnEmpty
  BY DEF AbortOnEmpty, Fail
<1>3. Parsed(code, n + 1)'
  <2>1. CASE StartSection
    BY <1>1, <2>1, SectionStep
  <2>2. CASE TakeFill
    BY <1>1, <2>2, FillStep
  <2>3. CASE Ignore
    BY <1>1, <2>3, IgnoreStep
  <2>4. CASE StartRom
    BY <1>1, <2>4, RomStep
  <2>5. CASE NameBit \/ NameBitOutside
    BY <1>1, <2>5, BitStep
  <2>6. CASE StartOpcode
    BY <1>1, <2>6, OpcodeStep
  <2>7. CASE AddWord \/ AddWordOutside
    BY <1>1, <2>7, WordStep
  <2> QED BY <1>2, <2>1, <2>2, <2>3, <2>4, <2>5, <2>6, <2>7 DEF Parse
<1>4. Onward("generate")
  BY <1>2 DEF Parse, StartSection, TakeFill, Ignore, StartRom, NameBit, NameBitOutside,
              StartOpcode, AddWord, AddWordOutside, Fail
<1>5. Len(lines) = Len(code)
  BY DEF Parsed, Sized
<1> QED BY <1>1, <1>3, <1>4, <1>5, Goes

LEMMA ParsingBegins ==
  ASSUME NEW CONSTANT code, Shaped(code), TypeOK, Sizing(code, Len(code) + 1),
         Allocate, stage' # "failed"
  PROVE  stage' = "parse" /\ at' = 1 /\ Parsed(code, 1)'
<1>1. \A p \in Parameters : Keyword(code, p) \in 1 .. Len(code) /\ Keyword(code, p) < Len(code) + 1
  <2>1. Len(code) \in Nat /\ \A p \in Parameters : Keyword(code, p) \in 1 .. Len(code)
    BY Kinds DEF Shaped
  <2> QED BY <2>1
<1>2. \A p \in Parameters : sizes[p] = Number(code, p) /\ sizes[p] > 0
  BY <1>1 DEF Sizing, Shaped
<1>3. \A i \in 1 .. Len(code) : lines[i] = Left(code[i])
  <2>1. \A i \in 1 .. Len(code) : i < Len(code) + 1
    BY Kinds
  <2> QED BY <2>1 DEF Sizing
<1>4. /\ asm' = [asm EXCEPT !.words = [op \in Opcodes |-> [k \in Offsets |-> << >>]],
                            !.length = [op \in Opcodes |-> 0]]
      /\ stage' = "parse" /\ at' = 1 /\ UNCHANGED << lines, sizes, cursor >>
  BY <1>2 DEF Allocate
<1>5. Sized(code)'
  BY <1>2, <1>3, <1>4 DEF Sized, Sizing
<1>6. /\ Keyword(code, "ROMS") \in Nat /\ Keyword(code, "ASM") \in Nat /\ Keyword(code, "FILL") \in Nat
      /\ ~(1 > Keyword(code, "ROMS")) /\ ~(1 > Keyword(code, "ASM")) /\ ~(Keyword(code, "FILL") < 1)
      /\ BitLines(code) \subseteq Nat \ {0} /\ RomLines(code) \subseteq 1 .. Len(code)
      /\ OpcodeLines(code) \subseteq 1 .. Len(code) /\ Len(code) \in Nat
  <2>1. /\ Keyword(code, "ROMS") \in 1 .. Len(code) /\ Keyword(code, "ASM") \in 1 .. Len(code)
        /\ Keyword(code, "FILL") \in 1 .. Len(code)
        /\ BitLines(code) \subseteq 1 .. Len(code)
    BY Kinds
  <2> QED BY <2>1, Kinds
<1>7. ModeSoFar(code, 1)'
  BY <1>4, <1>6 DEF ModeSoFar, Sizing
<1>8. Heading(RomLines(code), 1) = 0 /\ Heading(OpcodeLines(code), 1) = 0
  <2>1. ASSUME NEW hs, hs \subseteq 1 .. Len(code) PROVE Heading(hs, 1) = 0
    <3>1. Heading(hs, 1) \in Nat /\ (Heading(hs, 1) = 0 \/ (Heading(hs, 1) \in hs /\ Heading(hs, 1) < 1))
      BY <1>6, <2>1, HeadingFacts
    <3> QED BY <2>1, <3>1
  <2> QED BY <1>6, <2>1
<1>9. BitsSoFar(code, 1)'
  <2>1. ~(Keyword(code, "ROMS") < 0)
    BY <1>6
  <2>2. \A i \in BitLines(code) : ~(i < 1)
    BY <1>6
  <2> QED BY <1>8, <2>1, <2>2 DEF BitsSoFar
<1>10. FillSoFar(code, 1)' /\ CursorSoFar(code, 1)'
  BY <1>6, <1>8 DEF FillSoFar, CursorSoFar
<1>11. WordsSoFar(code, 1)'
  <2>1. Opcodes' = Opcodes /\ Offsets' = Offsets
    BY <1>4, SameTables
  <2>2. asm'.words = [op \in Opcodes |-> [k \in Offsets |-> << >>]]
        /\ asm'.length = [op \in Opcodes |-> 0]
    BY <1>4 DEF TypeOK
  <2> SUFFICES ASSUME NEW op \in Opcodes
               PROVE  /\ asm'.length[op] = Order(Under(code, op), 1)
                      /\ \A k \in Offsets : k >= asm'.length[op] => asm'.words[op][k] = << >>
                      /\ \A i \in Under(code, op) :
                           i < 1 => asm'.words[op][Order(Under(code, op), i)] = code[i]
                      /\ \A k \in 0 .. asm'.length[op] - 1 :
                           \E i \in Under(code, op) : i < 1 /\ Order(Under(code, op), i) = k
    BY <2>1 DEF WordsSoFar
  <2>3. Under(code, op) \subseteq 1 .. Len(code)
    BY Kinds
  <2>4. \A i \in Under(code, op) : ~(i < 1)
    BY <1>6, <2>3
  <2>5. Order(Under(code, op), 1) = 0
    BY <1>6, <2>3, <2>4, OrderFacts
  <2> QED BY <2>2, <2>4, <2>5
<1> QED BY <1>4, <1>5, <1>7, <1>9, <1>10, <1>11 DEF Parsed

LEMMA SourceInit == Init => SourceSoFar
<1> SUFFICES ASSUME Init PROVE SourceSoFar
  OBVIOUS
<1>1. stage \in {"failed", "strip"} /\ cursor.mode = "none" /\ \A p \in Parameters : sizes[p] = 0
  BY DEF Init
<1> QED BY <1>1 DEF SourceSoFar, ImagesMeanSource

LEMMA SourceStep ==
  TypeOK /\ TypeOK' /\ LinesAreCode' /\ SourceSoFar /\ [Next]_vars => SourceSoFar'
<1> SUFFICES ASSUME TypeOK, TypeOK', LinesAreCode', SourceSoFar, [Next]_vars, WellFormed(source)'
             PROVE  SourceSoFar'
  BY DEF SourceSoFar
<1>1. source' = source
  BY DEF Next, Strip, Squish, Measure, MeasureOverrun, TakeSize, TakeVersion, PassOver, Allocate,
         Parse, StartSection, TakeFill, Ignore, StartRom, NameBit, NameBitOutside, StartOpcode,
         AbortOnEmpty, AddWord, AddWordOutside, Generate, GenerateFails, vars
<1>2. WellFormed(source) /\ source \in Seq(Lines)
  BY <1>1 DEF TypeOK, Lines
<1>3. PICK code : code = Code(source)
  OBVIOUS
<1>4. Shaped(code) /\ Code(source)' = code
  BY <1>1, <1>2, <1>3, Shape
<1>5. /\ stage \in {"strip", "squish", "measure"} =>
           cursor.mode = "none" /\ \A p \in Parameters : sizes[p] = 0
      /\ stage = "size" => Sizing(code, at)
      /\ stage = "allocate" => Sizing(code, Len(code) + 1)
      /\ stage = "parse" => Parsed(code, at)
      /\ stage = "generate" => Parsed(code, Len(code) + 1)
      /\ stage = "done" => images = Meaning(code)
  BY <1>2, <1>3 DEF SourceSoFar, ImagesMeanSource
<1> SUFFICES /\ stage' \in {"strip", "squish", "measure"} =>
                  cursor'.mode = "none" /\ \A p \in Parameters : sizes'[p] = 0
             /\ stage' = "size" => Sizing(code, at)'
             /\ stage' = "allocate" => Sizing(code, Len(code) + 1)'
             /\ stage' = "parse" => Parsed(code, at)'
             /\ stage' = "generate" => Parsed(code, Len(code) + 1)'
             /\ stage' = "done" => images' = Meaning(code)
  BY <1>4 DEF SourceSoFar, ImagesMeanSource
<1>6. CASE stage' = "failed"
  BY <1>6
<1>7. CASE Strip \/ Squish
  <2>1. stage \in {"strip", "squish"} /\ stage' \in {stage, "squish", "measure"}
        /\ UNCHANGED parsed
    BY <1>7 DEF Strip, Squish, Onward
  <2> QED BY <1>5, <2>1 DEF parsed
<1>8. CASE (Measure \/ MeasureOverrun) /\ stage' # "failed"
  <2>1. stage = "measure" /\ stage' = "size" /\ at' = 1
    BY <1>8 DEF Measure, MeasureOverrun, Fail
  <2>2. Sizing(Code(source), 1)'
    BY <1>2, <1>5, <1>8, <2>1, SizingBegins
  <2>3. Sizing(code, 1)'
    BY <1>4, <2>2 DEF Sizing
  <2> QED BY <2>1, <2>3 DEF Sizing
<1>9. CASE (TakeSize \/ TakeVersion \/ PassOver) /\ stage' # "failed"
  <2>1. PICK n : n = at
    OBVIOUS
  <2>2. stage = "size"
    BY <1>9 DEF TakeSize, TakeVersion, PassOver
  <2>3. /\ Sizing(code, n + 1)'
        /\ \/ stage' = "size" /\ at' = n + 1
           \/ stage' = "allocate" /\ n + 1 = Len(code) + 1
    BY <1>4, <1>5, <1>9, <2>1, <2>2, SizingStep DEF Sizing
  <2> QED BY <2>3 DEF Sizing
<1>10. CASE Allocate /\ stage' # "failed"
  <2>1. stage = "allocate"
    BY <1>10 DEF Allocate
  <2>2. stage' = "parse" /\ at' = 1 /\ Parsed(code, 1)'
    BY <1>4, <1>5, <1>10, <2>1, ParsingBegins
  <2>3. Parsed(code, at)'
    BY <2>2
  <2> QED BY <2>2, <2>3
<1>11. CASE Parse /\ stage' # "failed"
  <2>1. PICK n : n = at
    OBVIOUS
  <2>2. stage = "parse"
    BY <1>11 DEF Parse, StartSection, TakeFill, Ignore, StartRom, NameBit, NameBitOutside,
                 StartOpcode, AbortOnEmpty, AddWord, AddWordOutside, AddsWord, Parses
  <2>3. /\ Parsed(code, n + 1)'
        /\ \/ stage' = "parse" /\ at' = n + 1
           \/ stage' = "generate" /\ n + 1 = Len(code) + 1
    BY <1>4, <1>5, <1>11, <2>1, <2>2, ParsingStep
  <2> QED BY <2>3
<1>12. CASE Generate
  <2>1. stage = "generate" /\ stage' = "done"
    BY <1>12 DEF Generate
  <2>2. PICK guess, guessFill : images' = Image(guess, guessFill)
    BY <1>12 DEF Generate
  <2>3. images' = Meaning(code)
    BY <1>4, <1>5, <2>1, <2>2, ImageMeans
  <2> QED BY <2>1, <2>3
<1>13. CASE GenerateFails
  BY <1>6, <1>13 DEF GenerateFails, Fail
<1>14. CASE UNCHANGED vars
  <2>1. UNCHANGED << Roms, Bits, Opcodes, Offsets >>
    BY <1>14 DEF vars, Roms, Bits, Opcodes, Offsets
  <2> QED BY <1>5, <1>14, <2>1 DEF vars, Sizing, Parsed, Sized, ModeSoFar, BitsSoFar, FillSoFar,
                                   CursorSoFar, WordsSoFar
<1> QED BY <1>6, <1>7, <1>8, <1>9, <1>10, <1>11, <1>12, <1>13, <1>14 DEF Next

(* Of every well-formed source the images hold what it says, bit for bit,  *)
(* whatever its signals are called, for any number of opcodes and words    *)
(* and up to 128 ROMs of up to 128 bits (parseUasm and generateRoms).      *)
THEOREM ImagesMeanSourceAlways == Spec => []ImagesMeanSource
<1>1. Init => TypeOK /\ CodeSoFar /\ SourceSoFar
  BY InitTypes, CodeInit, SourceInit
<1>2. TypeOK /\ CodeSoFar /\ SourceSoFar /\ [Next]_vars
        => TypeOK' /\ CodeSoFar' /\ SourceSoFar'
  <2>1. CodeSoFar' => LinesAreCode'
    BY DEF CodeSoFar, LinesAreCode
  <2> QED BY <2>1, TypeStep, CodeStep, SourceStep
<1>3. SourceSoFar => ImagesMeanSource
  BY DEF SourceSoFar, ImagesMeanSource
<1> QED BY <1>1, <1>2, <1>3, PTL DEF Spec

-----------------------------------------------------------------------------
(* The files in which the images leave: what recursion over the places of  *)
(* a sequence gives is what satisfies its equation.                        *)
Chooses(p, seq, places) ==
  p = [i \in 0 .. Len(seq) |->
         IF i = 0 THEN << >>
         ELSE IF i \in places THEN Append(p[i - 1], seq[i]) ELSE p[i - 1]]
Flattens(p, seqs) ==
  p = [i \in 1 .. Len(seqs) |-> IF i = 1 THEN seqs[i] ELSE p[i - 1] \o seqs[i]]

LEMMA ChosenIs ==
  ASSUME NEW seq, Len(seq) \in Nat, NEW places, NEW p, Chooses(p, seq, places)
  PROVE  Chosen(seq, places) = p[Len(seq)]
<1> DEFINE D(f) == f = [i \in 0 .. Len(seq) |->
                         IF i = 0 THEN << >>
                         ELSE IF i \in places THEN Append(f[i - 1], seq[i]) ELSE f[i - 1]]
           f == CHOOSE f : D(f)
           T == { i \in 0 .. Len(seq) : f[i] # p[i] }
<1>1. D(p)
  BY Zenon DEF Chooses
<1>2. D(f)
  BY <1>1, Zenon
<1>3. Chosen(seq, places) = f[Len(seq)]
  BY DEF Chosen
<1> HIDE DEF f
<1>4. \A i \in 0 .. Len(seq) :
        f[i] = IF i = 0 THEN << >>
               ELSE IF i \in places THEN Append(f[i - 1], seq[i]) ELSE f[i - 1]
  BY <1>2 DEF D
<1>5. \A i \in 0 .. Len(seq) :
        p[i] = IF i = 0 THEN << >>
               ELSE IF i \in places THEN Append(p[i - 1], seq[i]) ELSE p[i - 1]
  BY <1>1 DEF D
<1>6. ASSUME T # {} PROVE FALSE
  <2>1. T \subseteq Nat
    OBVIOUS
  <2>2. PICK k \in T : \A j \in T : k <= j
    BY <1>6, <2>1, MinExists
  <2>3. CASE k = 0
    BY <1>4, <1>5, <2>2, <2>3
  <2>4. CASE k # 0
    <3>1. k - 1 \in 0 .. Len(seq) /\ k \in 0 .. Len(seq) /\ ~(k <= k - 1)
      BY <2>2, <2>4
    <3>2. f[k - 1] = p[k - 1]
      BY <2>2, <3>1
    <3>3. f[k] = p[k]
      BY <1>4, <1>5, <2>4, <3>1, <3>2
    <3> QED BY <2>2, <3>3
  <2> QED BY <2>3, <2>4
<1> QED BY <1>3, <1>6

LEMMA FlattenIs ==
  ASSUME NEW seqs, Len(seqs) \in Nat \ {0}, NEW p, Flattens(p, seqs)
  PROVE  FlattenSeq(seqs) = p[Len(seqs)]
<1> DEFINE D(f) == f = [i \in 1 .. Len(seqs) |-> IF i = 1 THEN seqs[i] ELSE f[i - 1] \o seqs[i]]
           f == CHOOSE f : D(f)
           T == { i \in 1 .. Len(seqs) : f[i] # p[i] }
<1>1. D(p)
  BY Zenon DEF Flattens
<1>2. D(f)
  BY <1>1, Zenon
<1>3. FlattenSeq(seqs) = f[Len(seqs)]
  BY DEF FlattenSeq
<1> HIDE DEF f
<1>4. \A i \in 1 .. Len(seqs) : f[i] = IF i = 1 THEN seqs[i] ELSE f[i - 1] \o seqs[i]
  BY <1>2 DEF D
<1>5. \A i \in 1 .. Len(seqs) : p[i] = IF i = 1 THEN seqs[i] ELSE p[i - 1] \o seqs[i]
  BY <1>1 DEF D
<1>6. ASSUME T # {} PROVE FALSE
  <2>1. T \subseteq Nat
    OBVIOUS
  <2>2. PICK k \in T : \A j \in T : k <= j
    BY <1>6, <2>1, MinExists
  <2>3. CASE k = 1
    BY <1>4, <1>5, <2>2, <2>3
  <2>4. CASE k # 1
    <3>1. k - 1 \in 1 .. Len(seqs) /\ k \in 1 .. Len(seqs) /\ ~(k <= k - 1)
      BY <2>2, <2>4
    <3>2. f[k - 1] = p[k - 1]
      BY <2>2, <3>1
    <3>3. f[k] = p[k]
      BY <1>4, <1>5, <2>4, <3>1, <3>2
    <3> QED BY <2>2, <3>3
  <2> QED BY <2>3, <2>4
<1>7. Len(seqs) \in 1 .. Len(seqs)
  OBVIOUS
<1> QED BY <1>3, <1>6, <1>7

\* A place in a row of m groups of w: its group and its place in it.
LEMMA GroupOf ==
  ASSUME NEW w \in Nat, w > 0, NEW q \in Nat, NEW s \in 0 .. w - 1
  PROVE  ((w * q) + s) \div w = q /\ ((w * q) + s) % w = s
<1> DEFINE x == (w * q) + s
           a == x \div w
           b == x % w
<1>0. w * q \in Nat /\ x \in Nat
  BY SMT
<1> HIDE DEF x
<1>1. x = (w * a) + b /\ b \in 0 .. w - 1 /\ a \in Int
  BY <1>0, SMT
<1>2. (w * q) + s = (w * a) + b
  BY <1>1 DEF x
<1> HIDE DEF a, b
<1>3. a <= q
  <2> SUFFICES ASSUME a >= q + 1 PROVE FALSE
    BY <1>1
  <2>1. w * a >= w * (q + 1)
    BY <1>1, SMT
  <2>2. w * (q + 1) = (w * q) + w
    BY SMT
  <2> QED BY <1>0, <1>1, <1>2, <2>1, <2>2, SMT
<1>4. a >= q
  <2> SUFFICES ASSUME a <= q - 1 PROVE FALSE
    BY <1>1
  <2>1. w * a <= w * (q - 1)
    BY <1>1, SMT
  <2>2. w * (q - 1) = (w * q) - w
    BY SMT
  <2> QED BY <1>0, <1>1, <1>2, <2>1, <2>2, SMT
<1>5. a = q
  BY <1>1, <1>3, <1>4
<1>6. b = s
  BY <1>0, <1>1, <1>2, <1>5
<1> QED BY <1>5, <1>6 DEF a, b, x

-----------------------------------------------------------------------------
(* Sums over sets of numbers.                                              *)

\* The sums of what g says of the members of S below 0, 1, .., n.
Totals(p, g, S, n) ==
  p = [i \in 0 .. n |-> IF i = 0 THEN 0 ELSE p[i - 1] + (IF i - 1 \in S THEN g[i - 1] ELSE 0)]
Total(g, S, n) == (CHOOSE p : Totals(p, g, S, n))[n]

LEMMA TotalsExist ==
  ASSUME NEW g, NEW S, NEW n \in Nat
  PROVE  \E p : Totals(p, g, S, n)
<1> DEFINE T == { k \in Nat : ~\E p : Totals(p, g, S, k) }
<1>1. 0 \notin T
  <2>1. Totals([i \in 0 .. 0 |-> 0], g, S, 0)
    BY DEF Totals
  <2> QED BY <2>1
<1>2. ASSUME NEW k \in Nat, k \notin T
      PROVE  k + 1 \notin T
  <2>1. PICK p : Totals(p, g, S, k)
    BY <1>2
  <2> DEFINE more == p[k] + (IF k \in S THEN g[k] ELSE 0)
             f == [i \in 0 .. k + 1 |-> IF i = k + 1 THEN more ELSE p[i]]
  <2>2. \A i \in 0 .. k : p[i] = IF i = 0 THEN 0 ELSE p[i - 1] + (IF i - 1 \in S THEN g[i - 1] ELSE 0)
    BY <2>1 DEF Totals
  <2>3. ASSUME NEW i \in 0 .. k + 1
        PROVE  f[i] = IF i = 0 THEN 0 ELSE f[i - 1] + (IF i - 1 \in S THEN g[i - 1] ELSE 0)
    <3>1. CASE i = k + 1
      <4>1. k \in 0 .. k + 1 /\ k # k + 1 /\ i # 0 /\ i - 1 = k
        BY <3>1
      <4>2. f[k] = p[k] /\ f[i] = more
        BY <3>1, <4>1
      <4> HIDE DEF f
      <4> QED BY <4>1, <4>2
    <3>2. CASE i # k + 1
      <4>1. i \in 0 .. k /\ (i # 0 => i - 1 \in 0 .. k + 1 /\ i - 1 # k + 1)
        BY <3>2
      <4>2. f[i] = p[i] /\ (i # 0 => f[i - 1] = p[i - 1])
        BY <3>2, <4>1
      <4> HIDE DEF f
      <4> QED BY <2>2, <4>1, <4>2
    <3> QED BY <3>1, <3>2
  <2>4. f = [i \in 0 .. k + 1 |-> f[i]]
    OBVIOUS
  <2> HIDE DEF f
  <2>5. Totals(f, g, S, k + 1)
    BY <2>3, <2>4 DEF Totals
  <2> QED BY <2>5
<1> HIDE DEF T
<1>3. T \subseteq Nat
  BY DEF T
<1>4. ASSUME T # {} PROVE FALSE
  <2>1. PICK k \in T : \A j \in T : k <= j
    BY <1>3, <1>4, MinExists
  <2>2. k \in Nat /\ k # 0
    BY <1>1, <1>3, <2>1
  <2>3. k - 1 \in Nat /\ k - 1 \notin T
    BY <2>1, <2>2
  <2>4. (k - 1) + 1 \notin T
    BY <1>2, <2>3
  <2> QED BY <2>2, <2>4
<1> QED BY <1>4 DEF T

LEMMA TotalStep ==
  ASSUME NEW g, NEW S, NEW n \in Nat
  PROVE  /\ Total(g, S, 0) = 0
         /\ Total(g, S, n + 1) = Total(g, S, n) + (IF n \in S THEN g[n] ELSE 0)
<1> DEFINE p(k) == CHOOSE p : Totals(p, g, S, k)
<1>1. \A k \in Nat : Totals(p(k), g, S, k)
  BY TotalsExist
<1>2. Total(g, S, 0) = p(0)[0] /\ Total(g, S, n) = p(n)[n] /\ Total(g, S, n + 1) = p(n + 1)[n + 1]
  BY DEF Total
<1> HIDE DEF p
<1>3. \A k \in Nat : \A i \in 0 .. k :
        p(k)[i] = IF i = 0 THEN 0 ELSE p(k)[i - 1] + (IF i - 1 \in S THEN g[i - 1] ELSE 0)
  BY <1>1 DEF Totals
<1> DEFINE a == p(n)
           b == p(n + 1)
           T == { i \in 0 .. n : a[i] # b[i] }
<1>4. \A i \in 0 .. n : a[i] = IF i = 0 THEN 0 ELSE a[i - 1] + (IF i - 1 \in S THEN g[i - 1] ELSE 0)
  BY <1>3
<1>5. \A i \in 0 .. n + 1 : b[i] = IF i = 0 THEN 0 ELSE b[i - 1] + (IF i - 1 \in S THEN g[i - 1] ELSE 0)
  BY <1>3
<1>6. p(0)[0] = 0
  BY <1>3
<1>7. Total(g, S, n) = a[n] /\ Total(g, S, n + 1) = b[n + 1]
  BY <1>2
<1> HIDE DEF a, b
<1>8. ASSUME T # {} PROVE FALSE
  <2>1. T \subseteq Nat
    OBVIOUS
  <2>2. PICK k \in T : \A j \in T : k <= j
    BY <1>8, <2>1, MinExists
  <2>3. CASE k = 0
    BY <1>4, <1>5, <2>2, <2>3
  <2>4. CASE k # 0
    <3>1. k - 1 \in 0 .. n /\ k \in 0 .. n /\ ~(k <= k - 1) /\ k \in 0 .. n + 1
      BY <2>2, <2>4
    <3>2. a[k - 1] = b[k - 1]
      BY <2>2, <3>1
    <3>3. a[k] = b[k]
      BY <1>4, <1>5, <2>4, <3>1, <3>2
    <3> QED BY <2>2, <3>3
  <2> QED BY <2>3, <2>4
<1>9. a[n] = b[n]
  BY <1>8
<1>10. b[n + 1] = b[n] + (IF n \in S THEN g[n] ELSE 0)
  <2>1. n + 1 \in 0 .. n + 1 /\ n + 1 # 0 /\ (n + 1) - 1 = n
    OBVIOUS
  <2> QED BY <1>5, <2>1
<1> QED BY <1>2, <1>6, <1>7, <1>9, <1>10

LEMMA TotalInt ==
  ASSUME NEW g, NEW S, NEW n \in Nat, \A x \in S : g[x] \in Int
  PROVE  Total(g, S, n) \in Int
<1> DEFINE T == { k \in Nat : Total(g, S, k) \notin Int }
<1>1. ASSUME T # {} PROVE FALSE
  <2>2. PICK k \in T : \A j \in T : k <= j
    BY <1>1, MinExists
  <2>3. Total(g, S, 0) = 0
    BY TotalStep
  <2>4. k \in Nat /\ k # 0
    BY <2>2, <2>3
  <2>5. k - 1 \in Nat /\ k - 1 \notin T /\ (k - 1) + 1 = k
    BY <2>2, <2>4
  <2>6. Total(g, S, k) = Total(g, S, k - 1) + (IF k - 1 \in S THEN g[k - 1] ELSE 0)
    BY <2>5, TotalStep
  <2> QED BY <2>2, <2>5, <2>6
<1> QED BY <1>1

Summable(g, S, n) == S \subseteq 0 .. n - 1 /\ \A x \in S : g[x] \in Int

\* The sum without one member.
LEMMA TotalWithout ==
  ASSUME NEW g, NEW S, NEW n \in Nat, Summable(g, S, n),
         NEW x \in S
  PROVE  Total(g, S, n) = g[x] + Total(g, S \ {x}, n)
<1> DEFINE R == S \ {x}
           T == { k \in Nat : Total(g, S, k) # (IF x < k THEN g[x] ELSE 0) + Total(g, R, k) }
<1>0. x \in Nat /\ x < n /\ \A y \in S : g[y] \in Int
  BY DEF Summable
<1>1. ASSUME T # {} PROVE FALSE
  <2>2. PICK k \in T : \A j \in T : k <= j
    BY <1>1, MinExists
  <2>3. Total(g, S, 0) = 0 /\ Total(g, R, 0) = 0
    BY TotalStep
  <2>4. k \in Nat /\ k # 0
    BY <1>0, <2>2, <2>3
  <2>5. k - 1 \in Nat /\ k - 1 \notin T /\ (k - 1) + 1 = k
    BY <2>2, <2>4
  <2>6. /\ Total(g, S, k) = Total(g, S, k - 1) + (IF k - 1 \in S THEN g[k - 1] ELSE 0)
        /\ Total(g, R, k) = Total(g, R, k - 1) + (IF k - 1 \in R THEN g[k - 1] ELSE 0)
    BY <2>5, TotalStep
  <2>7. \A y \in R : g[y] \in Int
    BY <1>0
  <2>8. Total(g, R, k - 1) \in Int /\ g[x] \in Int
    BY <1>0, <2>5, <2>7, TotalInt
  <2>9. Total(g, S, k - 1) = (IF x < k - 1 THEN g[x] ELSE 0) + Total(g, R, k - 1)
    BY <2>5
  <2>10. Total(g, S, k) # (IF x < k THEN g[x] ELSE 0) + Total(g, R, k)
    BY <2>2
  <2>11. k - 1 \in R <=> k - 1 \in S /\ k - 1 # x
    OBVIOUS
  <2> HIDE DEF R, T
  <2>12. CASE k - 1 = x
    <3>1. ~(x < k - 1) /\ x < k /\ k - 1 \in S /\ k - 1 \notin R /\ g[k - 1] = g[x]
      BY <1>0, <2>4, <2>11, <2>12
    <3> QED BY <2>6, <2>8, <2>9, <2>10, <3>1
  <2>13. CASE k - 1 # x /\ k - 1 \in S
    <3>1. (x < k - 1 <=> x < k) /\ k - 1 \in R /\ g[k - 1] \in Int
      BY <1>0, <2>4, <2>11, <2>13
    <3> QED BY <2>6, <2>8, <2>9, <2>10, <2>13, <3>1
  <2>14. CASE k - 1 # x /\ k - 1 \notin S
    <3>1. (x < k - 1 <=> x < k) /\ k - 1 \notin R
      BY <1>0, <2>4, <2>11, <2>14
    <3> QED BY <2>6, <2>8, <2>9, <2>10, <2>14, <3>1
  <2> QED BY <2>12, <2>13, <2>14
<1> QED BY <1>0, <1>1

\* What recursion over the subsets of S computes, whatever order it takes.
Sums(f, g, S) ==
  \A s \in SUBSET S :
    f[s] = IF s = {} THEN 0
           ELSE g[CHOOSE x \in s : TRUE] + f[s \ {CHOOSE x \in s : TRUE}]

LEMMA TotalEmpty ==
  ASSUME NEW g, NEW n \in Nat
  PROVE  Total(g, {}, n) = 0
<1> DEFINE T == { k \in Nat : Total(g, {}, k) # 0 }
<1>1. ASSUME T # {} PROVE FALSE
  <2>2. PICK k \in T : \A j \in T : k <= j
    BY <1>1, MinExists
  <2>3. Total(g, {}, 0) = 0
    BY TotalStep
  <2>4. k \in Nat /\ k # 0
    BY <2>2, <2>3
  <2>5. k - 1 \in Nat /\ k - 1 \notin T /\ (k - 1) + 1 = k
    BY <2>2, <2>4
  <2>6. Total(g, {}, k) = Total(g, {}, k - 1) + 0
    BY <2>5, TotalStep
  <2> QED BY <2>2, <2>5, <2>6
<1> QED BY <1>1

LEMMA TotalsAreSums ==
  ASSUME NEW g, NEW S, NEW n \in Nat, Summable(g, S, n)
  PROVE  Sums([s \in SUBSET S |-> Total(g, s, n)], g, S)
<1> DEFINE p == [s \in SUBSET S |-> Total(g, s, n)]
<1> SUFFICES ASSUME NEW s \in SUBSET S
             PROVE  p[s] = IF s = {} THEN 0
                           ELSE g[CHOOSE x \in s : TRUE] + p[s \ {CHOOSE x \in s : TRUE}]
  BY DEF Sums
<1>1. CASE s = {}
  BY <1>1, TotalEmpty
<1>2. CASE s # {}
  <2> DEFINE x == CHOOSE x \in s : TRUE
  <2>1. x \in s
    BY <1>2
  <2> HIDE DEF x
  <2>2. Total(g, s, n) = g[x] + Total(g, s \ {x}, n)
    <3>1. Summable(g, s, n)
      BY DEF Summable
    <3> HIDE DEF p
    <3> QED BY <2>1, <3>1, TotalWithout
  <2>3. p[s] = g[x] + p[s \ {x}]
    BY <2>2
  <2> QED BY <1>2, <2>3 DEF x
<1> QED BY <1>1, <1>2

LEMMA SumsAreTotals ==
  ASSUME NEW g, NEW S, NEW n \in Nat, Summable(g, S, n),
         NEW f, Sums(f, g, S)
  PROVE  f[S] = Total(g, S, n)
<1> DEFINE p == [s \in SUBSET S |-> Total(g, s, n)]
           T == { Cardinality(s) : s \in { s \in SUBSET S : f[s] # p[s] } }
<1>1. Sums(p, g, S)
  BY TotalsAreSums
<1>2. \A s \in SUBSET S : IsFiniteSet(s) /\ Cardinality(s) \in Nat
  <2>1. IsFiniteSet(S)
    <3>1. IsFiniteSet(0 .. n - 1)
      <4>1. 0 \in Int /\ n - 1 \in Int
        OBVIOUS
      <4> QED BY <4>1, FS_Interval, Zenon
    <3>2. S \subseteq 0 .. n - 1
      BY DEF Summable
    <3> QED BY <3>1, <3>2, FS_Subset
  <2> QED BY <2>1, FS_Subset, FS_CardinalityType
<1>3. T \subseteq Nat
  BY <1>2
<1>4. p[S] = Total(g, S, n)
  OBVIOUS
<1> HIDE DEF p
<1>5. ASSUME T # {} PROVE FALSE
  <2>1. PICK k \in T : \A j \in T : k <= j
    BY <1>3, <1>5, MinExists
  <2>2. PICK s \in SUBSET S : f[s] # p[s] /\ k = Cardinality(s)
    BY <2>1
  <2> DEFINE x == CHOOSE x \in s : TRUE
  <2>3. s # {}
    BY <1>1, <2>2 DEF Sums
  <2>4. x \in s
    BY <2>3
  <2>5. f[s] = g[x] + f[s \ {x}] /\ p[s] = g[x] + p[s \ {x}]
    BY <1>1, <2>3 DEF Sums
  <2> HIDE DEF x
  <2>6. s \ {x} \in SUBSET S /\ Cardinality(s \ {x}) = k - 1 /\ k \in Nat
    BY <1>2, <2>2, <2>4, FS_RemoveElement
  <2>7. f[s \ {x}] # p[s \ {x}]
    BY <2>2, <2>5
  <2>8. k - 1 \in T
    BY <2>6, <2>7
  <2> QED BY <2>1, <2>6, <2>8
<1>6. f[S] = p[S]
  BY <1>5
<1> QED BY <1>4, <1>6

LEMMA SumIs ==
  ASSUME NEW g, NEW n \in Nat, Summable(g, DOMAIN g, n)
  PROVE  SumOf(g) = Total(g, DOMAIN g, n)
<1> DEFINE S == DOMAIN g
           D(f) == f = [s \in SUBSET S |->
                         IF s = {} THEN 0
                         ELSE LET x == CHOOSE x \in s : TRUE IN g[x] + f[s \ {x}]]
           f == CHOOSE f : D(f)
           p == [s \in SUBSET S |-> Total(g, s, n)]
<1>1. SumOf(g) = f[S]
  BY DEF SumOf, MapThenSumSet, MapThenFoldSet
<1>2. Sums(p, g, S)
  BY TotalsAreSums
<1>3. p = [s \in SUBSET S |-> p[s]]
  OBVIOUS
<1> HIDE DEF p
<1>4. D(p)
  BY <1>2, <1>3 DEF Sums
<1>5. D(f)
  BY <1>4, Zenon
<1> HIDE DEF f
<1>6. Sums(f, g, S)
  BY <1>5 DEF Sums
<1> QED BY <1>1, <1>6, SumsAreTotals

Powers == [b \in 0 .. 7 |-> 2 ^ b]

LEMMA PowersAre ==
  /\ 2 ^ 0 = 1 /\ 2 ^ 1 = 2 /\ 2 ^ 2 = 4 /\ 2 ^ 3 = 8
  /\ 2 ^ 4 = 16 /\ 2 ^ 5 = 32 /\ 2 ^ 6 = 64 /\ 2 ^ 7 = 128
BY SMT

LEMMA NumberOf ==
  ASSUME NEW bits, bits \subseteq 0 .. 7
  PROVE  Number8(bits) = Total(Powers, bits, 8)
<1> DEFINE D(f) == f = [s \in SUBSET bits |->
                         IF s = {} THEN 0
                         ELSE LET x == CHOOSE x \in s : TRUE IN (2 ^ x) + f[s \ {x}]]
           f == CHOOSE f : D(f)
           p == [s \in SUBSET bits |-> Total(Powers, s, 8)]
<1>1. Number8(bits) = f[bits]
  BY DEF Number8, MapThenSumSet, MapThenFoldSet
<1>0. /\ \A x \in bits : Powers[x] \in Int /\ Powers[x] = 2 ^ x
      /\ 8 \in Nat /\ Summable(Powers, bits, 8)
  BY PowersAre DEF Powers, Summable
<1>2. Sums(p, Powers, bits)
  BY <1>0, TotalsAreSums
<1>3. p = [s \in SUBSET bits |-> p[s]]
  OBVIOUS
<1> HIDE DEF p
<1>4. D(p)
  BY <1>0, <1>2, <1>3 DEF Sums
<1>5. D(f)
  BY <1>4, Zenon
<1> HIDE DEF f
<1>6. Sums(f, Powers, bits)
  BY <1>0, <1>5 DEF Sums
<1>7. f[bits] = Total(Powers, bits, 8)
  BY <1>0, <1>6, SumsAreTotals
<1> QED BY <1>1, <1>7

LEMMA NumberIs ==
  ASSUME NEW bits, bits \subseteq 0 .. 7
  PROVE  /\ Number8(bits) \in 0 .. 255
         /\ Number8(bits) = (IF 0 \in bits THEN 1 ELSE 0) + (IF 1 \in bits THEN 2 ELSE 0)
              + (IF 2 \in bits THEN 4 ELSE 0) + (IF 3 \in bits THEN 8 ELSE 0)
              + (IF 4 \in bits THEN 16 ELSE 0) + (IF 5 \in bits THEN 32 ELSE 0)
              + (IF 6 \in bits THEN 64 ELSE 0) + (IF 7 \in bits THEN 128 ELSE 0)
<1> DEFINE t(n) == Total(Powers, bits, n)
<1>1. t(0) = 0 /\ \A n \in Nat : t(n + 1) = t(n) + (IF n \in bits THEN Powers[n] ELSE 0)
  BY TotalStep
<1>2. /\ Powers[0] = 1 /\ Powers[1] = 2 /\ Powers[2] = 4 /\ Powers[3] = 8
      /\ Powers[4] = 16 /\ Powers[5] = 32 /\ Powers[6] = 64 /\ Powers[7] = 128
  BY PowersAre DEF Powers
<1>3. Number8(bits) = t(8)
  BY NumberOf
<1> HIDE DEF t
<1>4. /\ t(1) = t(0) + (IF 0 \in bits THEN Powers[0] ELSE 0)
      /\ t(2) = t(1) + (IF 1 \in bits THEN Powers[1] ELSE 0)
      /\ t(3) = t(2) + (IF 2 \in bits THEN Powers[2] ELSE 0)
      /\ t(4) = t(3) + (IF 3 \in bits THEN Powers[3] ELSE 0)
  BY <1>1
<1>5. /\ t(5) = t(4) + (IF 4 \in bits THEN Powers[4] ELSE 0)
      /\ t(6) = t(5) + (IF 5 \in bits THEN Powers[5] ELSE 0)
      /\ t(7) = t(6) + (IF 6 \in bits THEN Powers[6] ELSE 0)
      /\ t(8) = t(7) + (IF 7 \in bits THEN Powers[7] ELSE 0)
  BY <1>1
<1> QED BY <1>1, <1>2, <1>3, <1>4, <1>5

-----------------------------------------------------------------------------
\* m pieces of length w of elements of S, and one behind the other.
Pieces(seqs, S, m, w) == seqs \in [1 .. m -> [1 .. w -> S]]
Joined(q, seqs, S, m, w) ==
  /\ q \in [1 .. m * w -> S]
  /\ \A i \in 1 .. m, j \in 1 .. w : q[((i - 1) * w) + j] = seqs[i][j]

LEMMA FlattenEqual ==
  ASSUME NEW w \in Nat, w > 0, NEW m \in Nat, m > 0, NEW S, NEW seqs, Pieces(seqs, S, m, w)
  PROVE  Joined(FlattenSeq(seqs), seqs, S, m, w)
<1> DEFINE e(x) == seqs[((x - 1) \div w) + 1][((x - 1) % w) + 1]
           p == [i \in 1 .. m |-> [x \in 1 .. i * w |-> e(x)]]
<1>0. seqs \in [1 .. m -> [1 .. w -> S]]
  BY DEF Pieces
<1>1. \A i \in 1 .. m : seqs[i] \in Seq(S) /\ Len(seqs[i]) = w /\ DOMAIN seqs[i] = 1 .. w
  BY <1>0
<1>2. Len(seqs) = m /\ m \in 1 .. m
  BY <1>0
<1>3. \A i \in 1 .. m : i * w \in Nat
  OBVIOUS
<1>4. ASSUME NEW i \in 1 .. m, NEW j \in 1 .. w
      PROVE  e(((i - 1) * w) + j) = seqs[i][j]
  <2>1. i - 1 \in Nat /\ j - 1 \in 0 .. w - 1
    OBVIOUS
  <2>2. ((w * (i - 1)) + (j - 1)) \div w = i - 1 /\ ((w * (i - 1)) + (j - 1)) % w = j - 1
    BY <2>1, GroupOf
  <2>3. (((i - 1) * w) + j) - 1 = (w * (i - 1)) + (j - 1)
    BY <2>1, SMT
  <2>4. (i - 1) + 1 = i /\ (j - 1) + 1 = j
    OBVIOUS
  <2> QED BY <2>2, <2>3, <2>4
<1>5. ASSUME NEW i \in 1 .. m, NEW x \in 1 .. i * w
      PROVE  e(x) \in S
  <2> DEFINE y == x - 1
  <2>1. y \in 0 .. (i * w) - 1 /\ i \in Nat
    BY <1>3
  <2> HIDE DEF y
  <2>2. y \div w \in 0 .. i - 1 /\ y % w \in 0 .. w - 1
    BY <2>1, AddressParts
  <2>3. (y \div w) + 1 \in 1 .. m /\ (y % w) + 1 \in 1 .. w
    BY <2>2
  <2>4. seqs[(y \div w) + 1][(y % w) + 1] \in S
    BY <1>0, <2>3
  <2> QED BY <2>4 DEF y
<1> HIDE DEF e
<1>6. \A i \in 1 .. m : p[i] \in Seq(S) /\ Len(p[i]) = i * w /\ \A x \in 1 .. i * w : p[i][x] = e(x)
  <2> SUFFICES ASSUME NEW i \in 1 .. m
               PROVE  p[i] \in Seq(S) /\ Len(p[i]) = i * w /\ \A x \in 1 .. i * w : p[i][x] = e(x)
    BY Zenon
  <2> DEFINE v == i * w
  <2>1. v \in Nat /\ \A x \in 1 .. v : e(x) \in S
    BY <1>3, <1>5
  <2>2. p[i] = [x \in 1 .. v |-> e(x)]
    OBVIOUS
  <2> HIDE DEF v, p
  <2>3. p[i] \in Seq(S) /\ Len(p[i]) = v /\ \A x \in 1 .. v : p[i][x] = e(x)
    BY <2>1, <2>2
  <2> QED BY <2>3 DEF v
<1>7. ASSUME NEW i \in 1 .. m
      PROVE  p[i] = IF i = 1 THEN seqs[i] ELSE p[i - 1] \o seqs[i]
  <2>1. CASE i = 1
    <3>1. \A x \in 1 .. w : e(x) = seqs[1][x]
      <4>1. \A j \in 1 .. w : e(((1 - 1) * w) + j) = seqs[1][j]
        BY <1>2, <1>4
      <4> QED BY <4>1
    <3>2. 1 * w = w /\ 1 \in 1 .. m
      OBVIOUS
    <3>3. p[1] = [x \in 1 .. w |-> e(x)]
      BY <3>2
    <3>4. seqs[1] = [x \in 1 .. w |-> seqs[1][x]]
      BY <1>0, <3>2
    <3> HIDE DEF p
    <3> QED BY <2>1, <3>1, <3>3, <3>4
  <2>2. CASE i # 1
    <3>1. i - 1 \in 1 .. m
      BY <2>2
    <3> DEFINE v == (i - 1) * w
               q == p[i - 1] \o seqs[i]
    <3>2. v \in Nat /\ i * w = v + w
      BY <3>1, SMT
    <3>3. p[i - 1] \in Seq(S) /\ Len(p[i - 1]) = v /\ \A x \in 1 .. v : p[i - 1][x] = e(x)
      BY <1>6, <3>1
    <3>4. \A j \in 1 .. w : e(v + j) = seqs[i][j]
      BY <1>4
    <3>5. p[i] = [x \in 1 .. v + w |-> e(x)]
      BY <3>2
    <3> HIDE DEF v, p
    <3>6. /\ q \in Seq(S) /\ Len(q) = v + w
          /\ \A x \in 1 .. v + w : q[x] = IF x <= v THEN p[i - 1][x] ELSE seqs[i][x - v]
      <4>1. seqs[i] \in Seq(S) /\ Len(seqs[i]) = w
        BY <1>1
      <4> HIDE DEF q
      <4>2. /\ q \in Seq(S) /\ Len(q) = Len(p[i - 1]) + Len(seqs[i])
            /\ \A x \in 1 .. Len(p[i - 1]) + Len(seqs[i]) :
                 q[x] = IF x <= Len(p[i - 1]) THEN p[i - 1][x] ELSE seqs[i][x - Len(p[i - 1])]
        BY <3>3, <4>1, ConcatProperties, Zenon DEF q
      <4> QED BY <3>3, <4>1, <4>2
    <3>7. \A x \in 1 .. v + w : q[x] = e(x)
      <4> SUFFICES ASSUME NEW x \in 1 .. v + w PROVE q[x] = e(x)
        OBVIOUS
      <4>1. CASE x <= v
        <5>1. x \in 1 .. v
          BY <3>2, <4>1
        <5> HIDE DEF q
        <5> QED BY <3>3, <3>6, <4>1, <5>1
      <4>2. CASE x > v
        <5>1. x - v \in 1 .. w /\ v + (x - v) = x /\ ~(x <= v)
          BY <3>2, <4>2
        <5>2. e(v + (x - v)) = seqs[i][x - v]
          BY <3>4, <5>1
        <5> HIDE DEF q
        <5>3. q[x] = seqs[i][x - v]
          BY <3>6, <5>1
        <5> QED BY <5>1, <5>2, <5>3
      <4>3. x <= v \/ x > v
        BY <3>2
      <4> HIDE DEF q
      <4> QED BY <4>1, <4>2, <4>3
    <3>8. q = [x \in 1 .. v + w |-> q[x]]
      <4> HIDE DEF q
      <4> QED BY <3>2, <3>6
    <3> QED BY <2>2, <3>5, <3>7, <3>8
  <2> QED BY <2>1, <2>2
<1>8. p = [i \in 1 .. m |-> p[i]]
  OBVIOUS
<1>9. p[m] = [x \in 1 .. m * w |-> e(x)]
  BY <1>2
<1> HIDE DEF p
<1>10. Flattens(p, seqs)
  BY <1>2, <1>7, <1>8 DEF Flattens
<1>11. FlattenSeq(seqs) = p[m]
  BY <1>2, <1>10, FlattenIs
<1>12. \A x \in 1 .. m * w : e(x) \in S
  BY <1>2, <1>5
<1>13. ASSUME NEW i \in 1 .. m, NEW j \in 1 .. w
       PROVE  ((i - 1) * w) + j \in 1 .. m * w
  <2>1. i * w <= m * w
    BY SMT
  <2> DEFINE a == (i - 1) * w
             b == i * w
             c == m * w
  <2>2. a = b - w /\ a \in Nat /\ b \in Nat /\ c \in Nat /\ b <= c
    BY <2>1, SMT
  <2> HIDE DEF a, b, c
  <2>3. a + j \in 1 .. c
    BY <2>2
  <2> QED BY <2>3 DEF a, c
<1>14. FlattenSeq(seqs) \in [1 .. m * w -> S]
  BY <1>9, <1>11, <1>12
<1>15. ASSUME NEW i \in 1 .. m, NEW j \in 1 .. w
       PROVE  FlattenSeq(seqs)[((i - 1) * w) + j] = seqs[i][j]
  BY <1>4, <1>9, <1>11, <1>13
<1> QED BY <1>14, <1>15 DEF Joined

\* A filter that leaves out the last of every L + 1 elements.
AllButLast(seq, places, m, L) ==
  /\ Len(seq) = m * (L + 1)
  /\ \A i \in 1 .. m * (L + 1) : i \in places <=> i % (L + 1) # 0
Thinned(q, seq, m, L) == q = [k \in 1 .. m * L |-> seq[k + ((k - 1) \div L)]]

LEMMA ChosenGroups ==
  ASSUME NEW L \in Nat, L > 0, NEW m \in Nat, NEW seq, NEW places, AllButLast(seq, places, m, L)
  PROVE  Thinned(Chosen(seq, places), seq, m, L)
<1> DEFINE S == { seq[i] : i \in Int }
           w == L + 1
           n == m * w
           e(k) == seq[k + ((k - 1) \div L)]
           rank(i) == i - (i \div w)
           p == [i \in 0 .. n |-> [k \in 1 .. rank(i) |-> e(k)]]
           At(x, q, s) == q \in Nat /\ s \in 0 .. L /\ x = (w * q) + s
<1>1. w \in Nat /\ w > 0 /\ n \in Nat
  BY SMT
<1>2. ASSUME NEW x, NEW q, NEW s, At(x, q, s)
      PROVE  x % w = s /\ rank(x) = (L * q) + s
  <2>1. s \in 0 .. w - 1 /\ q \in Nat /\ s \in 0 .. L
    BY <1>2
  <2> HIDE DEF w
  <2>2. ((w * q) + s) \div w = q /\ ((w * q) + s) % w = s
    BY <1>1, <2>1, GroupOf
  <2>3. w * q = (L * q) + q
    BY <1>2, SMT DEF w
  <2>4. x = (w * q) + s /\ q \in Nat /\ s \in Nat
    BY <1>2, SMT
  <2>5. x \div w = q /\ x % w = s
    BY <2>2, <2>4
  <2>6. x - q = (L * q) + s
    BY <2>3, <2>4, SMT
  <2> QED BY <2>5, <2>6
<1>3. ASSUME NEW x, NEW q, NEW s, At(x, q, s), s # 0
      PROVE  e((L * q) + s) = seq[x]
  <2>1. s - 1 \in 0 .. L - 1 /\ q \in Nat /\ s \in 1 .. L /\ x = (w * q) + s
    BY <1>3
  <2>2. ((L * q) + (s - 1)) \div L = q
    BY <2>1, GroupOf
  <2>3. ((L * q) + s) - 1 = (L * q) + (s - 1) /\ ((L * q) + s) + q = (w * q) + s
    BY <2>1, SMT
  <2> QED BY <2>1, <2>2, <2>3
<1>4. ASSUME NEW i \in 0 .. n
      PROVE  \E q, s : At(i, q, s)
  <2>1. i \in Nat /\ i = (w * (i \div w)) + (i % w) /\ i % w \in 0 .. w - 1 /\ i \div w \in Int
    BY <1>1, SMT
  <2>2. i \div w >= 0
    <3> SUFFICES ASSUME i \div w <= -1 PROVE FALSE
      BY <2>1
    <3> DEFINE a == i \div w
    <3>0. a \in Int /\ a <= -1 /\ i = (w * a) + (i % w)
      BY <2>1
    <3> HIDE DEF a
    <3>1. w * a <= w * (-1)
      BY <1>1, <3>0, SMT
    <3> QED BY <1>1, <2>1, <3>0, <3>1, SMT
  <2>3. i % w \in 0 .. L
    BY <2>1
  <2> DEFINE a == i \div w
             b == i % w
  <2>4. a \in Nat /\ b \in 0 .. L /\ i = (w * a) + b
    BY <2>1, <2>2, <2>3
  <2> HIDE DEF a, b, w
  <2> QED BY <2>4
<1>5. ASSUME NEW k \in Int
      PROVE  e(k) \in S
  <2>1. (k - 1) \div L \in Int
    BY SMT
  <2>2. k + ((k - 1) \div L) \in Int
    BY <2>1
  <2> QED BY <2>2
<1> HIDE DEF S, e
<1>6. ASSUME NEW i \in 0 .. n, NEW r \in Nat, rank(i) = r
      PROVE  p[i] \in Seq(S) /\ Len(p[i]) = r /\ p[i] = [k \in 1 .. r |-> e(k)]
  <2>1. p[i] = [k \in 1 .. r |-> e(k)]
    BY <1>6
  <2>2. \A k \in 1 .. r : e(k) \in S
    BY <1>5
  <2> HIDE DEF p
  <2> QED BY <2>1, <2>2
<1>7. p = [i \in 0 .. n |-> p[i]]
  OBVIOUS
<1>8. Len(seq) = n /\ \A i \in 1 .. n : i \in places <=> i % w # 0
  BY DEF AllButLast
<1> HIDE DEF p, n
<1>9. ASSUME NEW i \in 0 .. n
      PROVE  p[i] = IF i = 0 THEN << >>
                    ELSE IF i \in places THEN Append(p[i - 1], seq[i]) ELSE p[i - 1]
  <2>0. PICK q, s : At(i, q, s)
    BY <1>4
  <2>1. q \in Nat /\ s \in 0 .. L /\ i = (w * q) + s
    BY <2>0
  <2>2. L * q \in Nat /\ w * q \in Nat /\ w * q = (L * q) + q
    BY <2>1, SMT
  <2> HIDE DEF w, rank, At
  <2>3. i % w = s /\ rank(i) = (L * q) + s
    BY <1>2, <2>0
  <2>4. CASE i = 0
    <3>1. (L * q) + s = 0
      <4> DEFINE a == L * q
                 b == w * q
      <4>1. a \in Nat /\ b \in Nat /\ b = a + q /\ 0 = b + s /\ q \in Nat /\ s \in Nat
        BY <2>1, <2>2, <2>4
      <4> HIDE DEF a, b
      <4>2. a + s = 0
        BY <4>1
      <4> QED BY <4>2 DEF a
    <3>2. rank(i) = 0 /\ 0 \in Nat
      BY <2>3, <3>1
    <3>3. p[i] = [k \in 1 .. 0 |-> e(k)]
      BY <1>6, <3>2
    <3> QED BY <2>4, <3>3
  <2>5. CASE i # 0 /\ s = 0
    <3>1. q - 1 \in Nat /\ L \in 0 .. L
      BY <2>1, <2>2, <2>5
    <3>2. w * (q - 1) = (w * q) - w /\ L * (q - 1) = (L * q) - L
      BY <1>1, <2>1, SMT
    <3>3. (w * (q - 1)) + L = i - 1 /\ (L * (q - 1)) + L = L * q
      BY <1>1, <2>1, <2>2, <2>5, <3>2 DEF w
    <3>4. rank(i - 1) = L * q
      <4>1. At(i - 1, q - 1, L)
        BY <3>1, <3>3 DEF At
      <4>2. rank(i - 1) = (L * (q - 1)) + L
        BY <1>2, <4>1
      <4> QED BY <3>3, <4>2
    <3>5. rank(i) = L * q
      BY <2>2, <2>3, <2>5
    <3>6. i - 1 \in 0 .. n /\ i \in 1 .. n
      BY <1>1, <2>5
    <3>7. p[i] = p[i - 1]
      BY <1>6, <2>2, <3>4, <3>5, <3>6
    <3>8. i \notin places
      BY <1>8, <2>3, <2>5, <3>6
    <3> QED BY <2>5, <3>7, <3>8
  <2>6. CASE s # 0
    <3> DEFINE r == (L * q) + (s - 1)
    <3>1. s - 1 \in 0 .. L /\ (w * q) + (s - 1) = i - 1 /\ i # 0
      BY <2>1, <2>2, <2>6
    <3>2. rank(i - 1) = r /\ rank(i) = r + 1 /\ r \in Nat /\ (L * q) + s = r + 1
      <4>1. At(i - 1, q, s - 1)
        BY <2>1, <3>1 DEF At
      <4>2. rank(i - 1) = r
        BY <1>2, <4>1
      <4> QED BY <2>1, <2>2, <2>3, <2>6, <4>2
    <3>3. i - 1 \in 0 .. n /\ i \in 1 .. n
      BY <1>1, <3>1
    <3>4. i \in places
      BY <1>8, <2>3, <2>6, <3>3
    <3>5. e(r + 1) = seq[i]
      <4>1. e((L * q) + s) = seq[i]
        BY <1>3, <2>0, <2>6
      <4> QED BY <3>2, <4>1
    <3> HIDE DEF r
    <3>6. p[i - 1] \in Seq(S) /\ Len(p[i - 1]) = r /\ p[i - 1] = [k \in 1 .. r |-> e(k)]
      BY <1>6, <3>2, <3>3
    <3>7. p[i] = [k \in 1 .. r + 1 |-> e(k)]
      BY <1>6, <3>2
    <3>8. e(r + 1) \in S
      BY <1>5, <3>2
    <3>9. /\ Append(p[i - 1], seq[i]) \in Seq(S) /\ Len(Append(p[i - 1], seq[i])) = r + 1
          /\ \A k \in 1 .. r : Append(p[i - 1], seq[i])[k] = p[i - 1][k]
          /\ Append(p[i - 1], seq[i])[r + 1] = seq[i]
      BY <3>2, <3>5, <3>6, <3>8, AppendProperties
    <3> DEFINE a == Append(p[i - 1], seq[i])
    <3>10. a = [k \in 1 .. r + 1 |-> a[k]]
      BY <3>2, <3>9
    <3>11. \A k \in 1 .. r + 1 : a[k] = e(k)
      BY <3>2, <3>5, <3>6, <3>9
    <3> HIDE DEF a
    <3>12. p[i] = a
      BY <3>7, <3>10, <3>11
    <3> QED BY <3>1, <3>4, <3>12 DEF a
  <2> QED BY <2>4, <2>5, <2>6
<1>10. Chosen(seq, places) = p[n]
  <2>1. Chooses(p, seq, places)
    BY <1>7, <1>8, <1>9 DEF Chooses
  <2> QED BY <1>1, <1>8, <2>1, ChosenIs
<1>11. rank(n) = m * L /\ m * L \in Nat
  <2>1. n = (w * m) + 0 /\ (L * m) + 0 = m * L /\ m * L \in Nat
    BY SMT DEF n
  <2>2. At(n, m, 0)
    BY <2>1
  <2> HIDE DEF At, rank
  <2>3. rank(n) = (L * m) + 0
    BY <1>2, <2>2
  <2> QED BY <2>1, <2>3
<1> HIDE DEF rank
<1>12. p[n] = [k \in 1 .. m * L |-> e(k)]
  BY <1>1, <1>6, <1>11
<1> QED BY <1>10, <1>12 DEF e, Thinned

-----------------------------------------------------------------------------
(* The formats of the images.                                              *)

\* The images of m opcodes of d words.
ImagesOf(m, d) == [0 .. (m * d) - 1 -> SUBSET (0 .. 7)]
\* The byte of word k of opcode op.
ByteAt(image, d, op, k) == Number8(image[((op - 1) * d) + k - 1])

LEMMA WordAddress ==
  ASSUME NEW m \in Nat, NEW d \in Nat, NEW op \in 1 .. m, NEW k \in 1 .. d
  PROVE  ((op - 1) * d) + k - 1 \in 0 .. (m * d) - 1
<1>1. op * d <= m * d /\ op * d \in Nat /\ m * d \in Nat
  BY SMT
<1>2. (op - 1) * d = (op * d) - d /\ (op - 1) * d \in Nat
  BY SMT
<1> QED BY <1>1, <1>2

LEMMA WordIs ==
  ASSUME NEW m \in Nat, NEW d \in Nat, NEW image \in ImagesOf(m, d), NEW op \in 1 .. m, NEW k \in 1 .. d
  PROVE  /\ WordsOf(image, m, d)[op][k] \in SUBSET (0 .. 7)
         /\ ByteAt(image, d, op, k) = Number8(WordsOf(image, m, d)[op][k])
         /\ ByteAt(image, d, op, k) \in 0 .. 255
<1>1. ((op - 1) * d) + k - 1 \in 0 .. (m * d) - 1
  BY WordAddress
<1>2. WordsOf(image, m, d)[op][k] = image[((op - 1) * d) + k - 1]
  BY DEF WordsOf
<1>3. image[((op - 1) * d) + k - 1] \in SUBSET (0 .. 7)
  BY <1>1 DEF ImagesOf
<1> QED BY <1>2, <1>3, NumberIs DEF ByteAt

\* A line of the text in hex.
LEMMA HexLine ==
  ASSUME NEW m \in Nat, NEW d \in Nat, d > 0, NEW image \in ImagesOf(m, d), NEW op \in 1 .. m
  PROVE  LET line == HexText(image, m, d)[op]
         IN  /\ line \in [1 .. 3 * d -> Nat]
             /\ \A k \in 1 .. d :
                  /\ line[(3 * k) - 2] = ByteAt(image, d, op, k) \div 16
                  /\ line[(3 * k) - 1] = ByteAt(image, d, op, k) % 16
                  /\ line[3 * k] = Space
<1> DEFINE word(k) == WordsOf(image, m, d)[op][k]
           words == [k \in 1 .. d |-> HexWord(word(k))]
           line == HexText(image, m, d)[op]
<1>1. line = FlattenSeq(words)
  BY DEF HexText
<1>2. ASSUME NEW k \in 1 .. d
      PROVE  /\ HexWord(word(k)) \in [1 .. 3 -> Nat]
             /\ HexWord(word(k))[1] = ByteAt(image, d, op, k) \div 16
             /\ HexWord(word(k))[2] = ByteAt(image, d, op, k) % 16
             /\ HexWord(word(k))[3] = Space
  <2> DEFINE b == Number8(word(k))
  <2>1. b = ByteAt(image, d, op, k) /\ b \in 0 .. 255
    <3> HIDE DEF words, line
    <3>0. m \in Nat /\ d \in Nat /\ image \in ImagesOf(m, d) /\ op \in 1 .. m /\ k \in 1 .. d
      OBVIOUS
    <3>1. /\ ByteAt(image, d, op, k) = Number8(WordsOf(image, m, d)[op][k])
          /\ ByteAt(image, d, op, k) \in 0 .. 255
      BY ONLY <3>0, WordIs, ZenonT(120)
    <3> QED BY <3>1
  <2>2. HexWord(word(k)) = << b \div 16, b % 16, Space >>
    BY DEF HexWord
  <2> HIDE DEF b
  <2>3. b \div 16 \in Nat /\ b % 16 \in Nat /\ Space \in Nat
    BY <2>1 DEF Space
  <2> QED BY <2>1, <2>2, <2>3
<1> HIDE DEF word, line
<1>3. words \in [1 .. d -> [1 .. 3 -> Nat]]
  BY <1>2
<1>4. \A k \in 1 .. d : words[k] = HexWord(word(k))
  OBVIOUS
<1> HIDE DEF words
<1>5. /\ line \in [1 .. d * 3 -> Nat]
      /\ \A k \in 1 .. d, j \in 1 .. 3 : line[((k - 1) * 3) + j] = words[k][j]
  <2>1. Pieces(words, Nat, d, 3)
    BY <1>3 DEF Pieces
  <2>2. Joined(line, words, Nat, d, 3)
    BY <1>1, <2>1, FlattenEqual
  <2> QED BY <2>2 DEF Joined
<1>6. line \in [1 .. 3 * d -> Nat]
  <2>1. d * 3 = 3 * d
    OBVIOUS
  <2> QED BY <1>5, <2>1
<1>7. ASSUME NEW k \in 1 .. d
      PROVE  line[(3 * k) - 2] = words[k][1] /\ line[(3 * k) - 1] = words[k][2] /\ line[3 * k] = words[k][3]
  <2>1. /\ ((k - 1) * 3) + 1 = (3 * k) - 2 /\ ((k - 1) * 3) + 2 = (3 * k) - 1 /\ ((k - 1) * 3) + 3 = 3 * k
    OBVIOUS
  <2>2. /\ line[((k - 1) * 3) + 1] = words[k][1] /\ line[((k - 1) * 3) + 2] = words[k][2]
        /\ line[((k - 1) * 3) + 3] = words[k][3]
    BY <1>5
  <2> QED BY <2>1, <2>2
<1> QED BY <1>2, <1>4, <1>6, <1>7 DEF line

\* A line of the text in binary.
LEMMA BinLine ==
  ASSUME NEW m \in Nat, NEW d \in Nat, d > 0, NEW image \in ImagesOf(m, d), NEW op \in 1 .. m
  PROVE  LET line == BinText(image, m, d)[op]
         IN  /\ line \in [1 .. 9 * d -> Nat]
             /\ \A k \in 1 .. d, j \in 1 .. 9 :
                  line[(9 * (k - 1)) + j] = BinWord(WordsOf(image, m, d)[op][k])[j]
<1> DEFINE word(k) == WordsOf(image, m, d)[op][k]
           words == [k \in 1 .. d |-> BinWord(word(k))]
           line == BinText(image, m, d)[op]
<1>1. line = FlattenSeq(words)
  BY DEF BinText
<1>2. ASSUME NEW k \in 1 .. d
      PROVE  BinWord(word(k)) \in [1 .. 9 -> Nat]
  BY DEF BinWord, Space
<1>3. words \in [1 .. d -> [1 .. 9 -> Nat]]
  BY <1>2
<1>4. \A k \in 1 .. d : words[k] = BinWord(word(k))
  OBVIOUS
<1> HIDE DEF word, line, words
<1>5. /\ line \in [1 .. d * 9 -> Nat]
      /\ \A k \in 1 .. d, j \in 1 .. 9 : line[((k - 1) * 9) + j] = words[k][j]
  <2>1. Pieces(words, Nat, d, 9)
    BY <1>3 DEF Pieces
  <2>2. Joined(line, words, Nat, d, 9)
    BY <1>1, <2>1, FlattenEqual
  <2> QED BY <2>2 DEF Joined
<1>6. line \in [1 .. 9 * d -> Nat]
  <2>1. d * 9 = 9 * d
    OBVIOUS
  <2> QED BY <1>5, <2>1
<1>7. \A k \in 1 .. d, j \in 1 .. 9 : line[(9 * (k - 1)) + j] = words[k][j]
  <2>1. \A k \in 1 .. d : (k - 1) * 9 = 9 * (k - 1)
    OBVIOUS
  <2> QED BY <1>5, <2>1
<1> QED BY <1>4, <1>6, <1>7 DEF line, word

\* The bytes of an opcode.
Row(image, d, op) == [k \in 1 .. d |-> ByteAt(image, d, op, k)]

LEMMA HexCondensed ==
  ASSUME NEW m \in Nat, NEW d \in Nat, d > 0, NEW image \in ImagesOf(m, d), NEW op \in 1 .. m
  PROVE  LET digits == Condensed(HexText(image, m, d)[op])
         IN  /\ digits \in Seq(Nat) /\ Len(digits) = 2 * d
             /\ BytesOf(digits) = Row(image, d, op)
<1> DEFINE line == HexText(image, m, d)[op]
           byte(k) == ByteAt(image, d, op, k)
           c == Condensed(line)
<1>1. /\ line \in [1 .. 3 * d -> Nat]
      /\ \A k \in 1 .. d :
           line[(3 * k) - 2] = byte(k) \div 16 /\ line[(3 * k) - 1] = byte(k) % 16 /\ line[3 * k] = Space
  BY HexLine, Zenon
<1>2. \A k \in 1 .. d : byte(k) \in 0 .. 255
  BY WordIs
<1>3. c = Chosen(line, DigitPlaces(line))
  BY DEF Condensed
<1>4. Row(image, d, op) = [k \in 1 .. d |-> byte(k)]
  BY DEF Row
<1> HIDE DEF line, byte, c
<1>5. Len(line) = d * (2 + 1) /\ DOMAIN line = 1 .. 3 * d
  BY <1>1
<1>6. ASSUME NEW i \in 1 .. d * (2 + 1)
      PROVE  i \in DigitPlaces(line) <=> i % (2 + 1) # 0
  <2>1. i \in DOMAIN line
    BY <1>5
  <2>2. i \in DigitPlaces(line) <=> line[i] < 16
    BY <2>1 DEF DigitPlaces, IsDigit
  <2>3. CASE i % 3 = 0
    <3>1. i \div 3 \in 1 .. d /\ i = 3 * (i \div 3)
      BY <2>3
    <3>2. line[i] = 16
      BY <1>1, <3>1 DEF Space
    <3> QED BY <2>2, <2>3, <3>2
  <2>4. CASE i % 3 = 1
    <3> DEFINE k == (i \div 3) + 1
    <3>1. k \in 1 .. d /\ i = (3 * k) - 2
      BY <2>4
    <3> HIDE DEF k
    <3>2. line[i] = byte(k) \div 16 /\ byte(k) \in 0 .. 255
      BY <1>1, <1>2, <3>1
    <3>3. line[i] < 16
      BY <3>2
    <3> QED BY <2>2, <2>4, <3>3
  <2>5. CASE i % 3 = 2
    <3> DEFINE k == (i \div 3) + 1
    <3>1. k \in 1 .. d /\ i = (3 * k) - 1
      BY <2>5
    <3> HIDE DEF k
    <3>2. line[i] = byte(k) % 16 /\ byte(k) \in 0 .. 255
      BY <1>1, <1>2, <3>1
    <3>3. line[i] < 16
      BY <3>2
    <3> QED BY <2>2, <2>5, <3>3
  <2> QED BY <2>3, <2>4, <2>5
<1>7. c = [k \in 1 .. d * 2 |-> line[k + ((k - 1) \div 2)]]
  <2>1. AllButLast(line, DigitPlaces(line), d, 2)
    BY <1>5, <1>6 DEF AllButLast
  <2>2. Thinned(c, line, d, 2)
    BY <1>3, <2>1, ChosenGroups
  <2> QED BY <2>2 DEF Thinned
<1>8. ASSUME NEW k \in 1 .. d * 2
      PROVE  c[k] \in Nat
  <2>1. k + ((k - 1) \div 2) \in 1 .. 3 * d
    OBVIOUS
  <2> QED BY <1>1, <1>7, <2>1
<1>9. c \in Seq(Nat) /\ Len(c) = 2 * d
  <2>1. c \in [1 .. d * 2 -> Nat]
    BY <1>7, <1>8
  <2> QED BY <2>1
<1>10. ASSUME NEW k \in 1 .. d
       PROVE  (16 * c[(2 * k) - 1]) + c[2 * k] = byte(k)
  <2>1. /\ (2 * k) - 1 \in 1 .. d * 2 /\ 2 * k \in 1 .. d * 2
        /\ ((2 * k) - 1) + ((((2 * k) - 1) - 1) \div 2) = (3 * k) - 2
        /\ (2 * k) + (((2 * k) - 1) \div 2) = (3 * k) - 1
    OBVIOUS
  <2>2. c[(2 * k) - 1] = byte(k) \div 16 /\ c[2 * k] = byte(k) % 16
    BY <1>1, <1>7, <2>1
  <2> QED BY <1>2, <2>2
<1>11. BytesOf(c) = [k \in 1 .. d |-> byte(k)]
  <2>1. Len(c) \div 2 = d
    BY <1>9
  <2> QED BY <1>10, <2>1 DEF BytesOf
<1> QED BY <1>4, <1>9, <1>11 DEF c, line

LEMMA BinCondensed ==
  ASSUME NEW m \in Nat, NEW d \in Nat, d > 0, NEW image \in ImagesOf(m, d), NEW op \in 1 .. m
  PROVE  LET digits == Condensed(BinText(image, m, d)[op])
         IN  /\ digits \in Seq(Nat) /\ Len(digits) = 8 * d
             /\ BytesOf(Nibbles(digits)) = Row(image, d, op)
<1> DEFINE line == BinText(image, m, d)[op]
           word(k) == WordsOf(image, m, d)[op][k]
           byte(k) == ByteAt(image, d, op, k)
           c == Condensed(line)
<1>1. /\ line \in [1 .. 9 * d -> Nat]
      /\ \A k \in 1 .. d, j \in 1 .. 9 : line[(9 * (k - 1)) + j] = BinWord(word(k))[j]
  BY BinLine, Zenon
<1>2. \A k \in 1 .. d : word(k) \in SUBSET (0 .. 7) /\ byte(k) = Number8(word(k))
  BY WordIs
<1>3. c = Chosen(line, DigitPlaces(line))
  BY DEF Condensed
<1>4. Row(image, d, op) = [k \in 1 .. d |-> byte(k)]
  BY DEF Row
<1> HIDE DEF line, word, byte, c
<1>5. Len(line) = d * (8 + 1) /\ DOMAIN line = 1 .. 9 * d
  BY <1>1
<1>6. ASSUME NEW k \in 1 .. d
      PROVE  \A j \in 1 .. 9 : line[(9 * (k - 1)) + j]
                                 = IF j = 9 THEN Space ELSE IF 8 - j \in word(k) THEN 1 ELSE 0
  BY <1>1 DEF BinWord
<1>7. ASSUME NEW i \in 1 .. d * (8 + 1)
      PROVE  i \in DigitPlaces(line) <=> i % (8 + 1) # 0
  <2>1. i \in DOMAIN line
    BY <1>5
  <2>2. i \in DigitPlaces(line) <=> line[i] < 16
    BY <2>1 DEF DigitPlaces, IsDigit
  <2> DEFINE k == ((i - 1) \div 9) + 1
             j == ((i - 1) % 9) + 1
  <2>3. k \in 1 .. d /\ j \in 1 .. 9 /\ i = (9 * (k - 1)) + j /\ (j = 9 <=> i % 9 = 0)
    OBVIOUS
  <2> HIDE DEF k, j
  <2>4. line[i] = IF j = 9 THEN 16 ELSE IF 8 - j \in word(k) THEN 1 ELSE 0
    BY <1>6, <2>3 DEF Space
  <2> QED BY <2>2, <2>3, <2>4
<1>8. c = [k \in 1 .. d * 8 |-> line[k + ((k - 1) \div 8)]]
  <2>1. AllButLast(line, DigitPlaces(line), d, 8)
    BY <1>5, <1>7 DEF AllButLast
  <2>2. Thinned(c, line, d, 8)
    BY <1>3, <2>1, ChosenGroups
  <2> QED BY <2>2 DEF Thinned
<1>9. ASSUME NEW k \in 1 .. d * 8
      PROVE  c[k] \in Nat
  <2>1. k + ((k - 1) \div 8) \in 1 .. 9 * d
    OBVIOUS
  <2> QED BY <1>1, <1>8, <2>1
<1>10. c \in Seq(Nat) /\ Len(c) = 8 * d
  <2>1. c \in [1 .. d * 8 -> Nat]
    BY <1>8, <1>9
  <2> QED BY <2>1
<1>11. ASSUME NEW k \in 1 .. d, NEW j \in 1 .. 8
       PROVE  c[(8 * (k - 1)) + j] = IF 8 - j \in word(k) THEN 1 ELSE 0
  <2>1. /\ (8 * (k - 1)) + j \in 1 .. d * 8
        /\ ((8 * (k - 1)) + j) + ((((8 * (k - 1)) + j) - 1) \div 8) = (9 * (k - 1)) + j
    OBVIOUS
  <2>2. c[(8 * (k - 1)) + j] = line[(9 * (k - 1)) + j]
    BY <1>8, <2>1
  <2> QED BY <1>6, <2>2
<1> DEFINE n == Nibbles(c)
<1>12. Len(n) = 2 * d
  <2>1. (Len(c) + 3) \div 4 = 2 * d
    BY <1>10
  <2> QED BY <2>1 DEF Nibbles
<1>13. ASSUME NEW i \in 1 .. 2 * d
       PROVE  n[i] = (8 * c[(4 * i) - 3]) + (4 * c[(4 * i) - 2]) + (2 * c[(4 * i) - 1]) + c[4 * i]
  <2>1. (Len(c) + 3) \div 4 = 2 * d
    BY <1>10
  <2>2. (4 * i) - 3 <= Len(c) /\ (4 * i) - 2 <= Len(c) /\ (4 * i) - 1 <= Len(c) /\ 4 * i <= Len(c)
    BY <1>10
  <2> QED BY <2>1, <2>2 DEF Nibbles
<1> HIDE DEF n
<1>14. ASSUME NEW k \in 1 .. d
       PROVE  (16 * n[(2 * k) - 1]) + n[2 * k] = byte(k)
  <2> DEFINE b(x) == IF x \in word(k) THEN 1 ELSE 0
             nib(j) == c[(8 * (k - 1)) + j]
  <2>1. /\ nib(1) = b(7) /\ nib(2) = b(6) /\ nib(3) = b(5) /\ nib(4) = b(4)
        /\ nib(5) = b(3) /\ nib(6) = b(2) /\ nib(7) = b(1) /\ nib(8) = b(0)
    BY <1>11
  <2>2. n[(2 * k) - 1] = (8 * nib(1)) + (4 * nib(2)) + (2 * nib(3)) + nib(4)
    <3>1. /\ (2 * k) - 1 \in 1 .. 2 * d
          /\ (4 * ((2 * k) - 1)) - 3 = (8 * (k - 1)) + 1 /\ (4 * ((2 * k) - 1)) - 2 = (8 * (k - 1)) + 2
          /\ (4 * ((2 * k) - 1)) - 1 = (8 * (k - 1)) + 3 /\ 4 * ((2 * k) - 1) = (8 * (k - 1)) + 4
      OBVIOUS
    <3> QED BY <1>13, <3>1
  <2>3. n[2 * k] = (8 * nib(5)) + (4 * nib(6)) + (2 * nib(7)) + nib(8)
    <3>1. /\ 2 * k \in 1 .. 2 * d
          /\ (4 * (2 * k)) - 3 = (8 * (k - 1)) + 5 /\ (4 * (2 * k)) - 2 = (8 * (k - 1)) + 6
          /\ (4 * (2 * k)) - 1 = (8 * (k - 1)) + 7 /\ 4 * (2 * k) = (8 * (k - 1)) + 8
      OBVIOUS
    <3> QED BY <1>13, <3>1
  <2>4. byte(k) = b(0) + (2 * b(1)) + (4 * b(2)) + (8 * b(3)) + (16 * b(4)) + (32 * b(5))
                    + (64 * b(6)) + (128 * b(7))
    <3>1. byte(k) = Number8(word(k)) /\ word(k) \subseteq 0 .. 7
      BY <1>2
    <3> QED BY <3>1, NumberIs
  <2>5. \A x : b(x) \in Int
    OBVIOUS
  <2> HIDE DEF b, nib
  <2> QED BY <2>1, <2>2, <2>3, <2>4, <2>5
<1>15. BytesOf(n) = [k \in 1 .. d |-> byte(k)]
  <2>1. Len(n) \div 2 = d
    BY <1>12
  <2> QED BY <1>14, <2>1 DEF BytesOf
<1> QED BY <1>4, <1>10, <1>15 DEF c, line, n

-----------------------------------------------------------------------------
(* Records.                                                                *)

AreNumbers(seq) == seq \in Seq(Nat)
AddsToNothing(bytes) == SumOf(bytes) % 256 = 0

\* A sequence of bytes with its check behind it adds up to nothing.
LEMMA CheckedSum ==
  ASSUME NEW bytes, AreNumbers(bytes)
  PROVE  /\ Check(bytes) \in 0 .. 255
         /\ AddsToNothing(Append(bytes, Check(bytes)))
<1> DEFINE n == Len(bytes)
           more == Append(bytes, Check(bytes))
           A == 1 .. n
           B == 1 .. n + 1
           a(i) == Total(bytes, A, i)
           b(i) == Total(more, B, i)
<1>1. n \in Nat /\ DOMAIN bytes = 1 .. n /\ \A i \in 1 .. n : bytes[i] \in Nat
  BY DEF AreNumbers
<1>2. Summable(bytes, DOMAIN bytes, n + 1)
  BY <1>1 DEF Summable
<1>3. SumOf(bytes) = a(n + 1)
  BY <1>1, <1>2, SumIs
<1>4. a(n + 1) \in Int
  BY <1>1, TotalInt
<1>5. Check(bytes) \in 0 .. 255 /\ (SumOf(bytes) + Check(bytes)) % 256 = 0
  <2> DEFINE s == SumOf(bytes)
  <2>1. s \in Int
    BY <1>3, <1>4
  <2>2. Check(bytes) = (256 - (s % 256)) % 256
    BY DEF Check
  <2> HIDE DEF s
  <2>3. (256 - (s % 256)) % 256 \in 0 .. 255 /\ (s + ((256 - (s % 256)) % 256)) % 256 = 0
    BY <2>1
  <2> QED BY <2>2, <2>3 DEF s
<1>6. /\ more \in Seq(Nat) /\ Len(more) = n + 1 /\ more[n + 1] = Check(bytes)
      /\ \A i \in 1 .. n : more[i] = bytes[i]
  <2> DEFINE check == Check(bytes)
             S == Nat
  <2>1. check \in S /\ bytes \in Seq(S)
    <3>1. check \in 0 .. 255
      BY <1>5
    <3> HIDE DEF check
    <3> QED BY <3>1 DEF AreNumbers
  <2> HIDE DEF check, S
  <2>2. /\ Append(bytes, check) \in Seq(S) /\ Len(Append(bytes, check)) = Len(bytes) + 1
        /\ \A i \in 1 .. Len(bytes) : Append(bytes, check)[i] = bytes[i]
        /\ Append(bytes, check)[Len(bytes) + 1] = check
    BY <2>1, AppendProperties
  <2> QED BY <2>2 DEF check, S
<1>7. DOMAIN more = 1 .. n + 1 /\ \A i \in 1 .. n + 1 : more[i] \in Nat
  <2> HIDE DEF more
  <2> QED BY <1>1, <1>6
<1>8. Summable(more, DOMAIN more, n + 2)
  BY <1>1, <1>7 DEF Summable
<1>9. SumOf(more) = b(n + 2)
  <2> HIDE DEF more
  <2> QED BY <1>1, <1>7, <1>8, SumIs
<1> HIDE DEF more, n, A, B
<1>10. /\ a(0) = 0 /\ \A i \in Nat : a(i + 1) = a(i) + (IF i \in A THEN bytes[i] ELSE 0)
       /\ b(0) = 0 /\ \A i \in Nat : b(i + 1) = b(i) + (IF i \in B THEN more[i] ELSE 0)
  <2>1. 0 \in Nat
    OBVIOUS
  <2>2. \A i \in Nat : /\ a(0) = 0 /\ a(i + 1) = a(i) + (IF i \in A THEN bytes[i] ELSE 0)
                       /\ b(0) = 0 /\ b(i + 1) = b(i) + (IF i \in B THEN more[i] ELSE 0)
    BY TotalStep
  <2> QED BY <2>1, <2>2
<1> HIDE DEF a, b
<1> DEFINE T == { i \in 0 .. n + 1 : a(i) # b(i) }
<1>11. ASSUME T # {} PROVE FALSE
  <2>1. T \subseteq Nat
    BY <1>1
  <2>2. PICK k \in T : \A j \in T : k <= j
    BY <1>11, <2>1, MinExists
  <2>3. k \in 0 .. n + 1 /\ k # 0 /\ a(k) # b(k)
    BY <1>10, <2>2
  <2>4. k - 1 \in Nat /\ (k - 1) + 1 = k /\ k - 1 \in 0 .. n /\ ~(k <= k - 1)
    BY <1>1, <2>3
  <2>5. a(k - 1) = b(k - 1)
    BY <1>1, <2>2, <2>4
  <2>6. /\ a(k) = a(k - 1) + (IF k - 1 \in A THEN bytes[k - 1] ELSE 0)
        /\ b(k) = b(k - 1) + (IF k - 1 \in B THEN more[k - 1] ELSE 0)
    BY <1>10, <2>4
  <2>7. (k - 1 \in B <=> k - 1 \in A) /\ (k - 1 \in A => more[k - 1] = bytes[k - 1])
    BY <1>1, <1>6, <2>4 DEF A, B
  <2> QED BY <2>3, <2>5, <2>6, <2>7
<1>12. a(n + 1) = b(n + 1)
  BY <1>1, <1>11
<1>13. b(n + 2) = b(n + 1) + Check(bytes)
  <2>1. n + 1 \in Nat /\ (n + 1) + 1 = n + 2 /\ n + 1 \in B
    BY <1>1 DEF B
  <2>2. b((n + 1) + 1) = b(n + 1) + more[n + 1]
    BY <1>10, <2>1
  <2> QED BY <1>6, <2>1, <2>2
<1>14. SumOf(more) = SumOf(bytes) + Check(bytes)
  BY <1>3, <1>9, <1>12, <1>13
<1> QED BY <1>5, <1>14 DEF more, AddsToNothing

\* The sum of numbers that are all the same.
LEMMA EqualSum ==
  ASSUME NEW n \in Nat, NEW w \in Nat, NEW g, DOMAIN g = 1 .. n, \A i \in 1 .. n : g[i] = w
  PROVE  SumOf(g) = n * w
<1> DEFINE a(i) == Total(g, 1 .. n, i)
           T == { i \in 0 .. n : a(i + 1) # i * w }
<1>1. Summable(g, DOMAIN g, n + 1)
  BY DEF Summable
<1>2. SumOf(g) = a(n + 1)
  BY <1>1, SumIs
<1>3. a(0) = 0 /\ \A i \in Nat : a(i + 1) = a(i) + (IF i \in 1 .. n THEN g[i] ELSE 0)
  <2> DEFINE A == 1 .. n
  <2> HIDE DEF A
  <2>1. Total(g, A, 0) = 0 /\ \A i \in Nat : Total(g, A, i + 1) = Total(g, A, i) + (IF i \in A THEN g[i] ELSE 0)
    BY TotalStep
  <2> QED BY <2>1 DEF A
<1> HIDE DEF a
<1>4. ASSUME T # {} PROVE FALSE
  <2>1. T \subseteq Nat
    OBVIOUS
  <2>2. PICK k \in T : \A j \in T : k <= j
    BY <1>4, <2>1, MinExists
  <2>3. k \in 0 .. n /\ a(k + 1) # k * w
    BY <2>2
  <2>4. CASE k = 0
    <3>1. a(0 + 1) = a(0) + 0
      BY <1>3
    <3> QED BY <1>3, <2>3, <2>4, <3>1
  <2>5. CASE k # 0
    <3>1. k - 1 \in 0 .. n /\ (k - 1) + 1 = k /\ ~(k <= k - 1) /\ k \in 1 .. n /\ k \in Nat
      BY <2>3, <2>5
    <3>2. a(k) = (k - 1) * w
      BY <2>2, <3>1
    <3>3. a(k + 1) = a(k) + w
      BY <1>3, <3>1
    <3>4. k * w = ((k - 1) * w) + w
      BY <3>1, SMT
    <3> QED BY <2>3, <3>2, <3>3, <3>4
  <2> QED BY <2>4, <2>5
<1>5. a(n + 1) = n * w
  <2>1. n \in 0 .. n /\ n \notin T
    BY <1>4
  <2> QED BY <2>1
<1> QED BY <1>2, <1>5

\* The bytes of a record and their check.
LEMMA RecordOf ==
  ASSUME NEW bytes, AreNumbers(bytes), NEW w \in Nat, Len(bytes) = 4 + w, bytes[1] = w
  PROVE  LET r == Append(bytes, Check(bytes))
         IN  IsRecord(r) /\ \A i \in 1 .. 4 + w : r[i] = bytes[i]
<1> DEFINE check == Check(bytes)
           r == Append(bytes, check)
           S == Nat
<1>1. check \in 0 .. 255 /\ AddsToNothing(r)
  BY CheckedSum
<1> HIDE DEF check
<1>2. check \in S /\ bytes \in Seq(S)
  <2>1. check \in Nat
    BY <1>1
  <2> QED BY <2>1 DEF AreNumbers
<1> HIDE DEF S
<1>3. Len(r) = Len(bytes) + 1 /\ \A i \in 1 .. Len(bytes) : r[i] = bytes[i]
  BY <1>2, AppendProperties
<1> HIDE DEF r
<1>4. Len(r) = 5 + w /\ (\A i \in 1 .. 4 + w : r[i] = bytes[i]) /\ r[1] = w
  BY <1>3
<1>5. IsRecord(r)
  BY <1>1, <1>4 DEF IsRecord, AddsToNothing
<1> QED BY <1>4, <1>5 DEF r, check

\* A record that fits: what a programmer reads in it.
Carries(r, address, data) ==
  /\ IsRecord(r) /\ r[1] = Len(data) /\ (256 * r[2]) + r[3] = address /\ r[4] = 0
  /\ \A k \in 1 .. Len(data) : r[k + 4] = data[k]

LEMMA RecordIs ==
  ASSUME NEW address \in Nat, address < 65536, NEW data, AreNumbers(data), Len(data) < 256
  PROVE  Carries(HexRecord(address, data), address, data)
<1> DEFINE head == << Len(data) % 256, (address \div 256) % 256, address % 256, 0 >>
           whole == head \o data
           r == Append(whole, Check(whole))
           w == Len(data)
<1>1. data \in Seq(Nat) /\ Len(data) = w /\ w \in Nat /\ w < 256 /\ w % 256 = w
  BY DEF AreNumbers
<1> HIDE DEF w
<1>2. /\ head \in Seq(Nat) /\ Len(head) = 4 /\ head[1] = w /\ head[2] = (address \div 256) % 256
      /\ head[3] = address % 256 /\ head[4] = 0
  BY <1>1
<1> HIDE DEF head
<1>3. /\ whole \in Seq(Nat) /\ Len(whole) = 4 + w
      /\ \A i \in 1 .. 4 + w : whole[i] = IF i <= 4 THEN head[i] ELSE data[i - 4]
  <2> DEFINE S == Nat
  <2>0. head \in Seq(S) /\ data \in Seq(S)
    BY <1>1, <1>2
  <2> HIDE DEF S
  <2>1. /\ whole \in Seq(S) /\ Len(whole) = Len(head) + Len(data)
        /\ \A i \in 1 .. Len(head) + Len(data) :
             whole[i] = IF i <= Len(head) THEN head[i] ELSE data[i - Len(head)]
    BY <2>0, ConcatProperties
  <2> HIDE DEF whole
  <2> QED BY <1>1, <1>2, <2>1 DEF S
<1>4. HexRecord(address, data) = r
  BY DEF HexRecord, head
<1> HIDE DEF whole
<1>5. AreNumbers(whole) /\ Len(whole) = 4 + w /\ whole[1] = w
  BY <1>1, <1>2, <1>3 DEF AreNumbers
<1>6. IsRecord(r) /\ \A i \in 1 .. 4 + w : r[i] = whole[i]
  <2>1. w \in Nat
    BY <1>1
  <2> QED BY ONLY <1>5, <2>1, RecordOf
<1> HIDE DEF r
<1>7. /\ r[1] = w /\ r[2] = (address \div 256) % 256 /\ r[3] = address % 256 /\ r[4] = 0
  BY <1>1, <1>2, <1>3, <1>6
<1>8. \A k \in 1 .. w : r[k + 4] = data[k]
  <2> SUFFICES ASSUME NEW k \in 1 .. w PROVE r[k + 4] = data[k]
    OBVIOUS
  <2>1. k + 4 \in 1 .. 4 + w /\ ~(k + 4 <= 4) /\ (k + 4) - 4 = k
    BY <1>1
  <2> QED BY <1>3, <1>6, <2>1
<1>9. (256 * r[2]) + r[3] = address
  BY <1>7
<1> QED BY <1>4, <1>6, <1>7, <1>8, <1>9 DEF w, Carries

-----------------------------------------------------------------------------
(* The emulator's way.                                                     *)

\* A place in a row of m pieces of w: its piece and its place in it.
LEMMA PlaceParts ==
  ASSUME NEW m \in Nat, NEW w \in Nat, w > 0, NEW x \in 1 .. m * w
  PROVE  \E i \in 1 .. m, j \in 1 .. w : x = ((i - 1) * w) + j /\ (x % w = 0 <=> j = w)
<1> DEFINE q == (x - 1) \div w
           s == (x - 1) % w
<1>1. x - 1 \in 0 .. (m * w) - 1 /\ m * w \in Nat
  BY SMT
<1>2. q \in 0 .. m - 1 /\ s \in 0 .. w - 1
  BY <1>1, AddressParts
<1>3. x - 1 = (w * q) + s
  BY <1>1, SMT
<1> HIDE DEF q, s
<1>4. w * q = q * w /\ q * w \in Nat
  BY <1>2, SMT
<1>5. q + 1 \in 1 .. m /\ s + 1 \in 1 .. w /\ (q + 1) - 1 = q
  BY <1>2
<1>6. x = (q * w) + (s + 1)
  BY <1>2, <1>3, <1>4
<1>7. x % w = 0 <=> s + 1 = w
  <2>1. CASE s + 1 = w
    <3>1. w * (q + 1) = (w * q) + w
      BY <1>2, SMT
    <3>2. x = (w * (q + 1)) + 0 /\ 0 \in 0 .. w - 1 /\ q + 1 \in Nat
      BY <1>2, <1>4, <1>6, <2>1, <3>1
    <3>3. ((w * (q + 1)) + 0) % w = 0
      BY <3>2, GroupOf
    <3> QED BY <2>1, <3>2, <3>3
  <2>2. CASE s + 1 # w
    <3>1. s + 1 \in 0 .. w - 1 /\ q \in Nat
      BY <1>2, <2>2
    <3>2. ((w * q) + (s + 1)) % w = s + 1
      BY <3>1, GroupOf
    <3> QED BY <1>2, <1>4, <1>6, <2>2, <3>2
  <2> QED BY <2>1, <2>2
<1> QED BY <1>5, <1>6, <1>7

\* What hex2mem reads: the lines of the text, one behind the other.
TextOf(chars, image, m, d) ==
  /\ chars \in [1 .. m * ((3 * d) + 1) -> Nat]
  /\ \A i \in 1 .. m :
       /\ chars[((i - 1) * ((3 * d) + 1)) + ((3 * d) + 1)] = Newline
       /\ \A k \in 1 .. d :
            /\ chars[((i - 1) * ((3 * d) + 1)) + ((3 * k) - 2)] = ByteAt(image, d, i, k) \div 16
            /\ chars[((i - 1) * ((3 * d) + 1)) + ((3 * k) - 1)] = ByteAt(image, d, i, k) % 16
            /\ chars[((i - 1) * ((3 * d) + 1)) + (3 * k)] = Space

LEMMA HexCharacters ==
  ASSUME NEW m \in Nat, m > 0, NEW d \in Nat, d > 0, NEW image \in ImagesOf(m, d)
  PROVE  TextOf(Characters(HexText(image, m, d)), image, m, d)
<1> DEFINE text == HexText(image, m, d)
           ended == [i \in 1 .. m |-> Append(text[i], Newline)]
           W == (3 * d) + 1
           c == Characters(text)
<1>1. DOMAIN text = 1 .. m
  BY DEF HexText
<1>2. c = FlattenSeq(ended)
  BY <1>1 DEF Characters
<1>3. \A i \in 1 .. m :
        /\ text[i] \in [1 .. 3 * d -> Nat]
        /\ \A k \in 1 .. d : /\ text[i][(3 * k) - 2] = ByteAt(image, d, i, k) \div 16
                             /\ text[i][(3 * k) - 1] = ByteAt(image, d, i, k) % 16
                             /\ text[i][3 * k] = Space
  BY HexLine, Zenon
<1> HIDE DEF text
<1>4. ASSUME NEW i \in 1 .. m
      PROVE  /\ ended[i] \in [1 .. W -> Nat] /\ ended[i][W] = Newline
             /\ \A j \in 1 .. 3 * d : ended[i][j] = text[i][j]
  <2> DEFINE S == Nat
             line == text[i]
  <2>1. line \in Seq(S) /\ Len(line) = 3 * d /\ Newline \in S
    <3>1. line \in [1 .. 3 * d -> Nat]
      BY <1>3
    <3>2. Newline \in Nat
      BY DEF Newline
    <3> HIDE DEF line
    <3>3. line \in Seq(Nat) /\ Len(line) = 3 * d
      BY <3>1
    <3> QED BY <3>2, <3>3
  <2>2. ended[i] = Append(line, Newline)
    OBVIOUS
  <2> HIDE DEF S, line, ended
  <2>3. /\ Append(line, Newline) \in Seq(S) /\ Len(Append(line, Newline)) = Len(line) + 1
        /\ \A j \in 1 .. Len(line) : Append(line, Newline)[j] = line[j]
        /\ Append(line, Newline)[Len(line) + 1] = Newline
    BY <2>1, AppendProperties
  <2>4. ended[i] \in Seq(S) /\ Len(ended[i]) = W
    BY <2>1, <2>2, <2>3
  <2>5. ended[i] \in [1 .. W -> S]
    BY <2>4
  <2> QED BY <2>1, <2>2, <2>3, <2>5 DEF S, line
<1>5. W \in Nat /\ W > 0
  OBVIOUS
<1>6. /\ c \in [1 .. m * W -> Nat]
      /\ \A i \in 1 .. m, j \in 1 .. W : c[((i - 1) * W) + j] = ended[i][j]
  <2>1. ended \in [1 .. m -> [1 .. W -> Nat]]
    <3>1. ended = [i \in 1 .. m |-> ended[i]]
      OBVIOUS
    <3> HIDE DEF ended
    <3> QED BY <1>4, <3>1
  <2> HIDE DEF W, ended, c
  <2>2. Pieces(ended, Nat, m, W)
    BY <2>1 DEF Pieces
  <2>3. Joined(c, ended, Nat, m, W)
    BY <1>2, <1>5, <2>2, FlattenEqual
  <2> QED BY <2>3 DEF Joined
<1> HIDE DEF ended, c
<1>7. ASSUME NEW i \in 1 .. m
      PROVE  c[((i - 1) * W) + W] = Newline
  <2> HIDE DEF W
  <2>1. W \in 1 .. W
    BY <1>5
  <2> QED BY <1>4, <1>6, <2>1
<1>8. ASSUME NEW i \in 1 .. m, NEW k \in 1 .. d
      PROVE  /\ c[((i - 1) * W) + ((3 * k) - 2)] = ByteAt(image, d, i, k) \div 16
             /\ c[((i - 1) * W) + ((3 * k) - 1)] = ByteAt(image, d, i, k) % 16
             /\ c[((i - 1) * W) + (3 * k)] = Space
  <2>1. /\ (3 * k) - 2 \in 1 .. 3 * d /\ (3 * k) - 1 \in 1 .. 3 * d /\ 3 * k \in 1 .. 3 * d
        /\ 1 .. 3 * d \subseteq 1 .. W
    OBVIOUS
  <2> HIDE DEF W
  <2>2. \A j \in 1 .. 3 * d : c[((i - 1) * W) + j] = text[i][j]
    BY <1>4, <1>6, <2>1
  <2> QED BY <1>3, <2>1, <2>2
<1> QED BY <1>6, <1>7, <1>8 DEF TextOf, c, text

\* hex2mem leaves one character behind every byte.
LEMMA HexMemory ==
  ASSUME NEW m \in Nat, m > 0, NEW d \in Nat, d > 0, NEW image \in ImagesOf(m, d)
  PROVE  LET mem == Hex2mem(HexText(image, m, d))
             chars == Characters(HexText(image, m, d))
         IN  mem = [k \in 1 .. m * (3 * d) |->
                      LET char == chars[k + ((k - 1) \div (3 * d))]
                      IN  IF IsDigit(char) THEN char ELSE Newline]
<1> DEFINE c == Characters(HexText(image, m, d))
           digits == DigitPlaces(c)
           places == { i \in DOMAIN c : i \in digits \/ i - 1 \in digits }
           L == 3 * d
           W == L + 1
           kept == Chosen(c, places)
           byte(i, k) == ByteAt(image, d, i, k)
<1>1. /\ c \in [1 .. m * W -> Nat]
      /\ \A i \in 1 .. m : c[((i - 1) * W) + W] = Newline
      /\ \A i \in 1 .. m, k \in 1 .. d :
           /\ c[((i - 1) * W) + ((3 * k) - 2)] = byte(i, k) \div 16
           /\ c[((i - 1) * W) + ((3 * k) - 1)] = byte(i, k) % 16
           /\ c[((i - 1) * W) + (3 * k)] = Space
  BY HexCharacters DEF TextOf
<1>2. \A i \in 1 .. m, k \in 1 .. d : byte(i, k) \in 0 .. 255
  BY WordIs
<1>3. Hex2mem(HexText(image, m, d))
        = [i \in DOMAIN kept |-> IF IsDigit(kept[i]) THEN kept[i] ELSE Newline]
  BY DEF Hex2mem
<1> HIDE DEF c, byte
<1>4. L \in Nat /\ L > 0 /\ W \in Nat /\ W > 0 /\ DOMAIN c = 1 .. m * W
  BY <1>1
<1>5. ASSUME NEW i \in 1 .. m, NEW j \in 1 .. W, ((i - 1) * W) + j \in 1 .. m * W
      PROVE  ((i - 1) * W) + j \in digits <=> j % 3 # 0 /\ j # W
  <2> DEFINE x == ((i - 1) * W) + j
  <2>1. x \in digits <=> c[x] < 16
    BY <1>4, <1>5 DEF DigitPlaces, IsDigit
  <2>2. j = W \/ (\E k \in 1 .. d : j = (3 * k) - 2) \/ (\E k \in 1 .. d : j = (3 * k) - 1)
          \/ (\E k \in 1 .. d : j = 3 * k)
    <3> DEFINE k == ((j - 1) \div 3) + 1
    <3>1. j # W => k \in 1 .. d
      OBVIOUS
    <3>2. j = (3 * k) - 2 \/ j = (3 * k) - 1 \/ j = 3 * k
      OBVIOUS
    <3> HIDE DEF k
    <3> QED BY <3>1, <3>2
  <2>3. CASE j = W
    BY <1>1, <2>1, <2>3 DEF Newline
  <2>4. ASSUME NEW k \in 1 .. d, j = (3 * k) - 2 PROVE x \in digits /\ j % 3 # 0 /\ j # W
    <3>1. c[x] = byte(i, k) \div 16 /\ byte(i, k) \in 0 .. 255
      BY <1>1, <1>2, <2>4
    <3>2. c[x] < 16
      BY <3>1
    <3>3. j % 3 # 0 /\ j # W
      BY <2>4
    <3> QED BY <2>1, <3>2, <3>3
  <2>5. ASSUME NEW k \in 1 .. d, j = (3 * k) - 1 PROVE x \in digits /\ j % 3 # 0 /\ j # W
    <3>1. c[x] = byte(i, k) % 16 /\ byte(i, k) \in 0 .. 255
      BY <1>1, <1>2, <2>5
    <3>2. c[x] < 16
      BY <3>1
    <3>3. j % 3 # 0 /\ j # W
      BY <2>5
    <3> QED BY <2>1, <3>2, <3>3
  <2>6. ASSUME NEW k \in 1 .. d, j = 3 * k PROVE x \notin digits /\ j % 3 = 0
    <3>1. c[x] = 16
      BY <1>1, <2>6 DEF Space
    <3>2. j % 3 = 0
      BY <2>6
    <3> QED BY <2>1, <3>1, <3>2
  <2> QED BY <2>2, <2>3, <2>4, <2>5, <2>6
<1>6. ASSUME NEW x \in 1 .. m * W
      PROVE  x \in places <=> x % W # 0
  <2>1. PICK i \in 1 .. m, j \in 1 .. W : x = ((i - 1) * W) + j /\ (x % W = 0 <=> j = W)
    <3>1. m \in Nat /\ x \in 1 .. m * W
      OBVIOUS
    <3> HIDE DEF W
    <3> QED BY ONLY <1>4, <3>1, PlaceParts
  <2>2. x \in digits <=> j % 3 # 0 /\ j # W
    <3> HIDE DEF W, digits
    <3> QED BY <1>5, <2>1
  <2>3. CASE j = 1
    <3>1. x \in digits /\ j # W
      BY <2>2, <2>3
    <3> QED BY <1>4, <2>1, <3>1
  <2>4. CASE j # 1
    <3> DEFINE P == (i - 1) * W
    <3>1. P \in Nat /\ m * W \in Nat
      BY <1>4, SMT
    <3> HIDE DEF P
    <3>2. x = P + j /\ x \in Nat
      BY <2>1 DEF P
    <3>3. j - 1 \in 1 .. W /\ P + (j - 1) = x - 1 /\ x - 1 \in 1 .. m * W
      <4> HIDE DEF W
      <4>1. m * W \in Int /\ x <= m * W
        BY <3>1
      <4> DEFINE M == m * W
      <4> HIDE DEF M
      <4>2. M \in Int /\ x <= M
        BY <4>1 DEF M
      <4>3. x - 1 \in 1 .. M /\ j - 1 \in 1 .. W /\ P + (j - 1) = x - 1
        BY <1>4, <2>4, <3>1, <3>2, <4>2
      <4> QED BY <4>3 DEF M
    <3>4. x - 1 \in digits <=> (j - 1) % 3 # 0 /\ j - 1 # W
      <4> HIDE DEF W, digits
      <4>1. ((i - 1) * W) + (j - 1) = x - 1
        BY <3>3 DEF P
      <4> QED BY <1>5, <3>3, <4>1
    <3>5. x \in places <=> x \in digits \/ x - 1 \in digits
      <4> HIDE DEF W, digits
      <4> QED BY <1>4
    <3>6. (j % 3 # 0 /\ j # W) \/ ((j - 1) % 3 # 0 /\ j - 1 # W) <=> j # W
      OBVIOUS
    <3> QED BY <2>1, <2>2, <3>4, <3>5, <3>6
  <2> QED BY <2>3, <2>4
<1> HIDE DEF places, digits
<1>7. kept = [k \in 1 .. m * L |-> c[k + ((k - 1) \div L)]]
  <2> HIDE DEF L
  <2>0. Len(c) = m * W
    <3> HIDE DEF W
    <3> DEFINE M == m * W
    <3>1. M \in Nat /\ c \in [1 .. M -> Nat]
      BY <1>1, <1>4, SMT
    <3> HIDE DEF M
    <3>2. Len(c) = M
      BY <3>1
    <3> QED BY <3>2 DEF M
  <2>1. AllButLast(c, places, m, L)
    BY <1>6, <2>0 DEF AllButLast
  <2>2. Thinned(kept, c, m, L)
    BY <1>4, <2>1, ChosenGroups
  <2> QED BY <2>2 DEF Thinned
<1>8. Hex2mem(HexText(image, m, d))
        = [k \in 1 .. m * L |-> LET char == c[k + ((k - 1) \div L)]
                                IN  IF IsDigit(char) THEN char ELSE Newline]
  <2> HIDE DEF kept, L
  <2>1. DOMAIN kept = 1 .. m * L /\ \A k \in 1 .. m * L : kept[k] = c[k + ((k - 1) \div L)]
    BY <1>7
  <2> QED BY <1>3, <2>1
<1> QED BY <1>8 DEF c

\* The bytes of an image.
BytesIn(image, m, d) == [address \in 0 .. (m * d) - 1 |-> Number8(image[address])]

\* An address is that of a word of an opcode.
WordAt(a, image, d, i, k) ==
  a = ((i - 1) * d) + (k - 1) /\ ByteAt(image, d, i, k) = Number8(image[a])

InImage(a, m, d) == a \in 0 .. (m * d) - 1

LEMMA AddressIs ==
  ASSUME NEW m \in Nat, NEW d \in Nat, d > 0, NEW a, InImage(a, m, d), NEW image
  PROVE  \E i \in 1 .. m, k \in 1 .. d : WordAt(a, image, d, i, k)
<1> DEFINE P == m * d
<1>0. P \in Nat /\ a \in 0 .. P - 1
  BY SMT DEF InImage
<1> HIDE DEF P
<1>1. a + 1 \in 1 .. P
  BY <1>0 DEF P
<1>2. PICK i \in 1 .. m, k \in 1 .. d : a + 1 = ((i - 1) * d) + k
  BY <1>1, PlaceParts DEF P
<1> DEFINE Q == (i - 1) * d
<1>3. Q \in Nat
  BY SMT
<1>4. ByteAt(image, d, i, k) = Number8(image[Q + k - 1])
  BY DEF ByteAt
<1>5. a + 1 = Q + k
  BY <1>2
<1> HIDE DEF Q
<1>6. a \in Int
  BY <1>0
<1>7. a = Q + (k - 1) /\ Q + k - 1 = a
  BY <1>3, <1>5, <1>6
<1> QED BY <1>4, <1>7 DEF Q, WordAt

LEMMA HexRead ==
  ASSUME NEW m \in Nat, NEW d \in Nat, NEW image \in ImagesOf(m, d),
         NEW erased, DOMAIN erased = 0 .. (m * d) - 1
  PROVE  ReadMem(erased, Hex2mem(HexText(image, m, d))) = BytesIn(image, m, d)
<1> DEFINE mem == Hex2mem(HexText(image, m, d))
           c == Characters(HexText(image, m, d))
           P == m * d
           L == 3 * d
           byte(i, k) == ByteAt(image, d, i, k)
<1>1. ASSUME NEW a \in 0 .. P - 1
      PROVE  /\ (3 * a) + 2 <= Len(mem)
             /\ ((16 * mem[(3 * a) + 1]) + mem[(3 * a) + 2]) % 256 = Number8(image[a])
  <2>1. m > 0 /\ d > 0 /\ P \in Nat
    BY SMT
  <2>2. PICK i \in 1 .. m, k \in 1 .. d :
          a = ((i - 1) * d) + (k - 1) /\ byte(i, k) = Number8(image[a])
    <3>1. PICK i \in 1 .. m, k \in 1 .. d : WordAt(a, image, d, i, k)
      <4>1. InImage(a, m, d)
        BY DEF InImage
      <4> HIDE DEF P, mem, c
      <4> QED BY <2>1, <4>1, AddressIs
    <3> QED BY <3>1 DEF WordAt
  <2>3. mem = [x \in 1 .. m * L |-> LET char == c[x + ((x - 1) \div L)]
                                    IN  IF IsDigit(char) THEN char ELSE Newline]
    BY <2>1, HexMemory
  <2>4. /\ c[((i - 1) * (L + 1)) + ((3 * k) - 2)] = byte(i, k) \div 16
        /\ c[((i - 1) * (L + 1)) + ((3 * k) - 1)] = byte(i, k) % 16
    BY <2>1, HexCharacters DEF TextOf
  <2>5. byte(i, k) \in 0 .. 255
    BY WordIs
  <2> DEFINE q == i - 1
             b == byte(i, k)
             A == q * d
             B == m * L
  <2>6. q \in Nat /\ A \in Nat /\ m * L = 3 * P /\ q * (L + 1) = (3 * A) + q /\ L * q = 3 * A
    BY SMT
  <2>7. Len(mem) = 3 * P
    <3> HIDE DEF mem, L, P
    <3> QED BY <2>1, <2>3, <2>6
  <2>8. ASSUME NEW s \in 0 .. 1
        PROVE  mem[(3 * a) + s + 1] = LET char == c[(q * (L + 1)) + ((3 * k) - 2) + s]
                                      IN  IF IsDigit(char) THEN char ELSE Newline
    <3>1. (3 * (k - 1)) + s \in 0 .. L - 1
      OBVIOUS
    <3> DEFINE t == (3 * (k - 1)) + s
    <3>2. ((L * q) + t) \div L = q
      <4>1. L \in Nat /\ L > 0
        BY <2>1
      <4> HIDE DEF L, t, q
      <4>2. t \in 0 .. L - 1
        BY <3>1 DEF t
      <4> QED BY <2>6, <4>1, <4>2, GroupOf
    <3>3. (3 * a) + s = (3 * A) + t
      <4>1. a = A + (k - 1)
        BY <2>2
      <4> HIDE DEF A
      <4> QED BY <2>6, <4>1
    <3>4. (3 * a) + s + 1 \in 1 .. m * L /\ ((3 * a) + s + 1) - 1 = (3 * A) + t
      <4>1. a \in Nat /\ a <= P - 1
        BY <2>1
      <4> HIDE DEF A, P
      <4>2. (3 * a) + s + 1 \in 1 .. 3 * P
        BY <2>1, <4>1
      <4> QED BY <2>6, <3>3, <4>1, <4>2
    <3> DEFINE x == (3 * a) + s + 1
    <3>5. x + ((x - 1) \div L) = (q * (L + 1)) + ((3 * k) - 2) + s
      <4>1. (x - 1) \div L = q
        BY <2>6, <3>2, <3>4
      <4>2. x = (3 * A) + t + 1
        <5>1. a \in Nat
          BY <2>1
        <5> HIDE DEF A
        <5> QED BY <2>6, <3>3, <5>1
      <4> HIDE DEF A, x, L, q
      <4>3. x + q = (3 * A) + q + ((3 * k) - 2) + s
        BY <2>6, <4>2
      <4>4. q * (L + 1) = (3 * A) + q
        BY <2>6
      <4> QED BY <4>1, <4>3, <4>4
    <3> HIDE DEF mem, x, L, q
    <3>6. mem[x] = LET char == c[x + ((x - 1) \div L)]
                   IN  IF IsDigit(char) THEN char ELSE Newline
      BY <2>3, <3>4 DEF x
    <3> QED BY <3>5, <3>6 DEF x
  <2>9. mem[(3 * a) + 1] = b \div 16 /\ mem[(3 * a) + 2] = b % 16
    <3>1. /\ mem[(3 * a) + 0 + 1] = LET char == c[(q * (L + 1)) + ((3 * k) - 2) + 0]
                                    IN  IF IsDigit(char) THEN char ELSE Newline
          /\ mem[(3 * a) + 1 + 1] = LET char == c[(q * (L + 1)) + ((3 * k) - 2) + 1]
                                    IN  IF IsDigit(char) THEN char ELSE Newline
      <4>1. 0 \in 0 .. 1 /\ 1 \in 0 .. 1
        OBVIOUS
      <4> QED BY <2>8, <4>1
    <3> DEFINE R == q * (L + 1)
    <3>2. R \in Nat
      BY <2>6
    <3>3. c[R + ((3 * k) - 2)] = b \div 16 /\ c[R + ((3 * k) - 1)] = b % 16
      BY <2>4
    <3> HIDE DEF mem, R, b
    <3>4. R + ((3 * k) - 2) + 0 = R + ((3 * k) - 2) /\ R + ((3 * k) - 2) + 1 = R + ((3 * k) - 1)
      BY <3>2
    <3>5. a \in Nat
      BY <2>1
    <3>6. (3 * a) + 0 + 1 = (3 * a) + 1 /\ (3 * a) + 1 + 1 = (3 * a) + 2
      BY <3>5
    <3>7. (b \div 16) < 16 /\ (b % 16) < 16
      <4>1. b \in 0 .. 255
        BY <2>5 DEF b
      <4> QED BY <4>1
    <3> QED BY <3>1, <3>3, <3>4, <3>6, <3>7 DEF R, IsDigit
  <2>10. ((16 * (b \div 16)) + (b % 16)) % 256 = b
    <3> HIDE DEF b
    <3>1. b \in 0 .. 255
      BY <2>5 DEF b
    <3> QED BY <3>1
  <2>11. (3 * a) + 2 <= Len(mem)
    <3>1. a \in Nat /\ a <= P - 1
      BY <2>1
    <3> HIDE DEF P, mem
    <3> QED BY <2>1, <2>7, <3>1
  <2> QED BY <2>2, <2>9, <2>10, <2>11
<1> HIDE DEF mem
<1>2. \A a \in DOMAIN erased : 
        (IF (3 * a) + 2 <= Len(mem)
         THEN ((16 * mem[(3 * a) + 1]) + mem[(3 * a) + 2]) % 256
         ELSE erased[a]) = Number8(image[a])
  BY <1>1
<1> QED BY <1>2 DEF ReadMem, BytesIn, mem

-----------------------------------------------------------------------------
(* The device programmer's way.                                            *)

\* Records of m rows of d bytes, each at its address, and the one at the end.
CarryRows(records, rows, m, d) ==
  /\ DOMAIN records = 1 .. m + 1 /\ records[m + 1][4] = 1
  /\ \A n \in 1 .. m :
       /\ IsRecord(records[n]) /\ records[n][1] = d /\ records[n][4] = 0
       /\ (256 * records[n][2]) + records[n][3] = (n - 1) * d
       /\ \A k \in 1 .. d : records[n][k + 4] = rows[n][k]

LEMMA ProgrammedRows ==
  ASSUME NEW m \in Nat, NEW d \in Nat, d > 0, NEW records, NEW rows, CarryRows(records, rows, m, d),
         NEW erased, DOMAIN erased = 0 .. (m * d) - 1,
         NEW i \in 1 .. m, NEW k \in 1 .. d, NEW a \in 0 .. (m * d) - 1, a = ((i - 1) * d) + (k - 1)
  PROVE  Programmed(records, erased)[a] = rows[i][k]
<1> DEFINE first(r) == (256 * r[2]) + r[3]
           holds(r) == r[4] = 0 /\ a \in first(r) .. first(r) + r[1] - 1
           found(n) == n \in DOMAIN records /\ IsRecord(records[n]) /\ holds(records[n])
           Q == (i - 1) * d
<1>1. /\ DOMAIN records = 1 .. m + 1 /\ records[m + 1][4] = 1
      /\ \A n \in 1 .. m :
           /\ IsRecord(records[n]) /\ records[n][1] = d /\ records[n][4] = 0
           /\ first(records[n]) = (n - 1) * d
           /\ \A j \in 1 .. d : records[n][j + 4] = rows[n][j]
  BY DEF CarryRows
<1>2. Q \in Nat
  BY SMT
<1>3. a = Q + (k - 1)
  OBVIOUS
<1>4. a \div d = i - 1
  <2> DEFINE q == i - 1
             s == k - 1
  <2>1. q \in Nat /\ s \in 0 .. d - 1
    OBVIOUS
  <2>2. d * q = Q
    BY SMT
  <2> HIDE DEF q, s, Q
  <2>3. ((d * q) + s) \div d = q
    BY <2>1, GroupOf
  <2> QED BY <1>3, <2>2, <2>3 DEF q, s
<1>5. found(i)
  <2>1. i \in 1 .. m + 1
    OBVIOUS
  <2>2. first(records[i]) = Q /\ records[i][1] = d /\ records[i][4] = 0
    BY <1>1
  <2> HIDE DEF Q, first
  <2>3. a \in Q .. Q + d - 1
    BY <1>2, <1>3
  <2> QED BY <1>1, <2>1, <2>2, <2>3
<1>6. ASSUME NEW n, found(n)
      PROVE  n = i
  <2>1. n \in 1 .. m
    BY <1>1, <1>6
  <2> DEFINE q == n - 1
             R == q * d
  <2>2. R \in Nat /\ d * q = R /\ q \in Nat
    BY <2>1, SMT
  <2>3. a \in R .. R + d - 1
    <3>1. first(records[n]) = R /\ records[n][1] = d
      BY <1>1, <2>1
    <3> HIDE DEF first, R
    <3> QED BY <1>6, <3>1
  <2> DEFINE s == a - R
  <2> HIDE DEF R
  <2>4. s \in 0 .. d - 1 /\ a = R + s
    BY <2>2, <2>3
  <2> HIDE DEF s, q
  <2>5. ((d * q) + s) \div d = q
    BY <2>2, <2>4, GroupOf
  <2>6. a \div d = q
    BY <2>2, <2>4, <2>5
  <2> QED BY <1>4, <2>1, <2>6 DEF q
<1>7. (CHOOSE n \in DOMAIN records : IsRecord(records[n]) /\ holds(records[n])) = i
  <2> HIDE DEF holds
  <2> QED BY <1>5, <1>6
<1>8. \E n \in DOMAIN records : IsRecord(records[n]) /\ holds(records[n])
  BY <1>5
<1>9. Programmed(records, erased)[a] = records[i][5 + a - first(records[i])]
  <2>1. a \in DOMAIN erased
    OBVIOUS
  <2> QED BY <1>7, <1>8, <2>1 DEF Programmed
<1>10. 5 + a - first(records[i]) = k + 4
  <2>1. first(records[i]) = Q
    BY <1>1
  <2> HIDE DEF Q, first
  <2> QED BY <1>2, <1>3, <2>1
<1> QED BY <1>1, <1>9, <1>10

\* The records that the generator writes for rows of one length.
RowsOf(base, text, rows, m, d) ==
  /\ DOMAIN text = 1 .. m
  /\ \A i \in 1 .. m :
       /\ Condensed(text[i]) # << >>
       /\ BytesOf(IF base = 2 THEN Nibbles(Condensed(text[i])) ELSE Condensed(text[i])) = rows[i]
       /\ AreNumbers(rows[i]) /\ Len(rows[i]) = d

LEMMA AllChosen ==
  ASSUME NEW m \in Nat
  PROVE  Chosen([i \in 1 .. m |-> i], 1 .. m) = [i \in 1 .. m |-> i]
<1> DEFINE seq == [i \in 1 .. m |-> i]
           p == [i \in 0 .. m |-> [k \in 1 .. i |-> k]]
<1>1. Len(seq) = m
  OBVIOUS
<1>2. ASSUME NEW i \in 0 .. m
      PROVE  p[i] = IF i = 0 THEN << >>
                    ELSE IF i \in 1 .. m THEN Append(p[i - 1], seq[i]) ELSE p[i - 1]
  <2>1. CASE i = 0
    BY <2>1
  <2>2. CASE i # 0
    <3>1. i \in 1 .. m /\ i - 1 \in 0 .. m /\ seq[i] = i
      BY <2>2
    <3> DEFINE q == p[i - 1]
    <3>2. q = [k \in 1 .. i - 1 |-> k] /\ p[i] = [k \in 1 .. i |-> k]
      BY <3>1
    <3>3. Append(q, i) = [k \in 1 .. i |-> k]
      <4>1. q \in Seq(Nat) /\ Len(q) = i - 1
        BY <3>1, <3>2
      <4>2. \A k \in 1 .. i - 1 : q[k] = k
        BY <3>2
      <4> DEFINE S == Nat
      <4>3. q \in Seq(S) /\ i \in S
        BY <3>1, <4>1
      <4> HIDE DEF p, q, seq, S
      <4> DEFINE a == Append(q, i)
      <4>4. a \in Seq(S) /\ Len(a) = i /\ a[i] = i /\ \A k \in 1 .. i - 1 : a[k] = q[k]
        <5>1. /\ a \in Seq(S) /\ Len(a) = Len(q) + 1
              /\ (\A k \in 1 .. Len(q) : a[k] = q[k]) /\ a[Len(q) + 1] = i
          BY <4>3, AppendProperties
        <5> HIDE DEF a
        <5> QED BY <3>1, <4>1, <5>1
      <4> HIDE DEF a
      <4>5. a = [k \in 1 .. i |-> a[k]]
        BY <4>4
      <4>6. \A k \in 1 .. i : a[k] = k
        BY <3>1, <4>2, <4>4
      <4>7. a = [k \in 1 .. i |-> k]
        BY <4>5, <4>6
      <4> QED BY <4>7 DEF a
    <3> QED BY <2>2, <3>1, <3>2, <3>3
  <2> QED BY <2>1, <2>2
<1>3. Chooses(p, seq, 1 .. m)
  BY <1>1, <1>2 DEF Chooses
<1>4. Chosen(seq, 1 .. m) = p[m]
  <2> HIDE DEF p, seq
  <2>1. Len(seq) \in Nat
    BY <1>1
  <2> QED BY <1>1, <1>3, <2>1, ChosenIs
<1> QED BY <1>4

LEMMA RecordsOfRows ==
  ASSUME NEW m \in Nat, NEW d \in Nat, d > 0, d < 256, m * d <= 65536,
         NEW base, NEW text, NEW rows, RowsOf(base, text, rows, m, d)
  PROVE  CarryRows(IntelHex(base, text), rows, m, d)
<1> DEFINE condensed == [i \in DOMAIN text |-> Condensed(text[i])]
           data == [i \in DOMAIN text |->
                      IF condensed[i] = << >> THEN << >>
                      ELSE BytesOf(IF base = 2 THEN Nibbles(condensed[i]) ELSE condensed[i])]
           written == Chosen([i \in DOMAIN text |-> i], { i \in DOMAIN text : condensed[i] # << >> })
           body == [n \in DOMAIN written |->
                      HexRecord(AddressOfLine(data, written[n]), data[written[n]])]
           records == IntelHex(base, text)
<1>1. records = Append(body, EndRecord)
  BY DEF IntelHex
<1>2. /\ DOMAIN text = 1 .. m
      /\ \A i \in 1 .. m : condensed[i] # << >> /\ data[i] = rows[i]
  BY DEF RowsOf
<1>3. \A i \in 1 .. m : AreNumbers(rows[i]) /\ Len(rows[i]) = d
  BY DEF RowsOf
<1>4. DOMAIN data = 1 .. m
  BY <1>2
<1>5. written = [i \in 1 .. m |-> i]
  <2> DEFINE places == { i \in DOMAIN text : condensed[i] # << >> }
             seq == [i \in DOMAIN text |-> i]
  <2>0. written = Chosen(seq, places)
    OBVIOUS
  <2>1. places = 1 .. m /\ seq = [i \in 1 .. m |-> i]
    BY <1>2
  <2> HIDE DEF written, condensed, places, seq
  <2>2. written = Chosen([i \in 1 .. m |-> i], 1 .. m)
    BY <2>0, <2>1
  <2> QED BY <2>2, AllChosen
<1> HIDE DEF condensed, data, written, records
<1>6. ASSUME NEW n \in 1 .. m
      PROVE  AddressOfLine(data, n) = (n - 1) * d
  <2> DEFINE g == [i \in 1 .. n - 1 |-> Len(data[i])]
  <2>1. DOMAIN g = 1 .. n - 1 /\ \A i \in 1 .. n - 1 : g[i] = d
    BY <1>2, <1>3
  <2>2. AddressOfLine(data, n) = SumOf(g)
    BY DEF AddressOfLine
  <2>3. n - 1 \in Nat
    OBVIOUS
  <2> HIDE DEF g
  <2> QED BY <2>1, <2>2, <2>3, EqualSum
<1>7. body = [n \in 1 .. m |-> HexRecord((n - 1) * d, rows[n])]
  BY <1>2, <1>5, <1>6
<1> HIDE DEF body
<1>8. ASSUME NEW n \in 1 .. m
      PROVE  /\ IsRecord(body[n]) /\ body[n][1] = d /\ body[n][4] = 0
             /\ (256 * body[n][2]) + body[n][3] = (n - 1) * d
             /\ \A k \in 1 .. d : body[n][k + 4] = rows[n][k]
  <2> DEFINE address == (n - 1) * d
             row == rows[n]
             r == HexRecord(address, row)
  <2>1. address \in Nat /\ address < 65536
    <3> DEFINE M == m * d
               N == n * d
    <3>1. M \in Nat /\ N \in Nat /\ N <= M /\ address = N - d /\ address \in Nat
      BY SMT
    <3>2. M <= 65536
      OBVIOUS
    <3> HIDE DEF M, N, address
    <3> QED BY <3>1, <3>2
  <2>2. body[n] = r
    BY <1>7
  <2>3. AreNumbers(row) /\ Len(row) = d
    BY <1>3
  <2> HIDE DEF address, row
  <2>4. Len(row) < 256
    BY <2>3
  <2>5. Carries(r, address, row)
    BY <2>1, <2>3, <2>4, RecordIs
  <2> HIDE DEF r
  <2> QED BY <2>2, <2>3, <2>5 DEF address, row, Carries
<1>9. /\ DOMAIN records = 1 .. m + 1 /\ records[m + 1] = EndRecord
      /\ \A n \in 1 .. m : records[n] = body[n]
  <2> DEFINE S == { body[n] : n \in 1 .. m } \cup { EndRecord }
  <2>1. body \in Seq(S) /\ Len(body) = m /\ EndRecord \in S
    <3>1. body = [n \in 1 .. m |-> body[n]] /\ \A n \in 1 .. m : body[n] \in S
      BY <1>7
    <3> HIDE DEF S
    <3>2. body \in Seq(S) /\ Len(body) = m
      BY <3>1
    <3> QED BY <3>2 DEF S
  <2> HIDE DEF S
  <2>2. /\ records \in Seq(S) /\ Len(records) = Len(body) + 1
        /\ \A n \in 1 .. Len(body) : records[n] = body[n]
        /\ records[Len(body) + 1] = EndRecord
    <3>1. /\ Append(body, EndRecord) \in Seq(S) /\ Len(Append(body, EndRecord)) = Len(body) + 1
          /\ \A n \in 1 .. Len(body) : Append(body, EndRecord)[n] = body[n]
          /\ Append(body, EndRecord)[Len(body) + 1] = EndRecord
      BY <2>1, AppendProperties
    <3> QED BY ONLY <1>1, <3>1
  <2>3. DOMAIN records = 1 .. Len(body) + 1
    BY ONLY <2>1, <2>2
  <2> QED BY ONLY <2>1, <2>2, <2>3
<1>10. EndRecord[4] = 1
  BY DEF EndRecord
<1>11. ASSUME NEW n \in 1 .. m
       PROVE  /\ IsRecord(records[n]) /\ records[n][1] = d /\ records[n][4] = 0
              /\ (256 * records[n][2]) + records[n][3] = (n - 1) * d
              /\ \A k \in 1 .. d : records[n][k + 4] = rows[n][k]
  <2>1. records[n] = body[n]
    BY <1>9
  <2> QED BY ONLY <1>8, <2>1, n \in 1 .. m
<1>12. records[m + 1][4] = 1
  BY <1>9, <1>10
<1>13. CarryRows(records, rows, m, d)
  BY ONLY <1>9, <1>11, <1>12 DEF CarryRows
<1> QED BY <1>13 DEF records

\* The generator writes the rows of an image, from either format.
Rows(image, m, d) == [i \in 1 .. m |-> Row(image, d, i)]

LEMMA RowIs ==
  ASSUME NEW m \in Nat, NEW d \in Nat, NEW image \in ImagesOf(m, d), NEW i \in 1 .. m
  PROVE  AreNumbers(Row(image, d, i)) /\ Len(Row(image, d, i)) = d
<1> DEFINE row == Row(image, d, i)
           byte(k) == ByteAt(image, d, i, k)
<1>1. row = [k \in 1 .. d |-> byte(k)]
  BY DEF Row
<1>2. ASSUME NEW k \in 1 .. d
      PROVE  byte(k) \in Nat
  <2>1. byte(k) \in 0 .. 255
    BY WordIs
  <2> HIDE DEF byte
  <2> QED BY <2>1
<1> HIDE DEF row, byte
<1>3. row \in [1 .. d -> Nat]
  BY <1>1, <1>2
<1>4. row \in Seq(Nat) /\ Len(row) = d
  BY <1>3
<1> QED BY <1>4 DEF row, AreNumbers

LEMMA HexRows ==
  ASSUME NEW m \in Nat, NEW d \in Nat, d > 0, NEW image \in ImagesOf(m, d)
  PROVE  RowsOf(16, HexText(image, m, d), Rows(image, m, d), m, d)
<1> DEFINE text == HexText(image, m, d)
<1>1. DOMAIN text = 1 .. m
  BY DEF HexText
<1>2. ASSUME NEW i \in 1 .. m
      PROVE  /\ Condensed(text[i]) # << >> /\ BytesOf(Condensed(text[i])) = Row(image, d, i)
             /\ AreNumbers(Row(image, d, i)) /\ Len(Row(image, d, i)) = d
  <2> DEFINE c == Condensed(text[i])
  <2>1. /\ c \in Seq(Nat) /\ Len(c) = 2 * d
        /\ BytesOf(c) = Row(image, d, i)
    BY HexCondensed, Zenon
  <2> HIDE DEF c
  <2>2. c # << >>
    BY <2>1
  <2> QED BY <2>1, <2>2, RowIs DEF c
<1> HIDE DEF text
<1>3. \A i \in 1 .. m : Rows(image, m, d)[i] = Row(image, d, i)
  BY DEF Rows
<1>4. 16 # 2
  OBVIOUS
<1> QED BY <1>1, <1>2, <1>3, <1>4 DEF RowsOf, text

LEMMA BinRows ==
  ASSUME NEW m \in Nat, NEW d \in Nat, d > 0, NEW image \in ImagesOf(m, d)
  PROVE  RowsOf(2, BinText(image, m, d), Rows(image, m, d), m, d)
<1> DEFINE text == BinText(image, m, d)
<1>1. DOMAIN text = 1 .. m
  BY DEF BinText
<1>2. ASSUME NEW i \in 1 .. m
      PROVE  /\ Condensed(text[i]) # << >> /\ BytesOf(Nibbles(Condensed(text[i]))) = Row(image, d, i)
             /\ AreNumbers(Row(image, d, i)) /\ Len(Row(image, d, i)) = d
  <2> DEFINE c == Condensed(text[i])
  <2>1. /\ c \in Seq(Nat) /\ Len(c) = 8 * d
        /\ BytesOf(Nibbles(c)) = Row(image, d, i)
    BY BinCondensed, Zenon
  <2> HIDE DEF c
  <2>2. c # << >>
    BY <2>1
  <2> QED BY <2>1, <2>2, RowIs DEF c
<1> HIDE DEF text
<1>3. \A i \in 1 .. m : Rows(image, m, d)[i] = Row(image, d, i)
  BY DEF Rows
<1> QED BY <1>1, <1>2, <1>3 DEF RowsOf, text

LEMMA RowsProgrammed ==
  ASSUME NEW m \in Nat, NEW d \in Nat, d < 256, m * d <= 65536, NEW image \in ImagesOf(m, d),
         NEW base, NEW text, d > 0 => RowsOf(base, text, Rows(image, m, d), m, d),
         NEW erased, DOMAIN erased = 0 .. (m * d) - 1
  PROVE  Programmed(IntelHex(base, text), erased) = BytesIn(image, m, d)
<1> DEFINE P == m * d
           records == IntelHex(base, text)
<1>1. ASSUME NEW a \in 0 .. P - 1
      PROVE  Programmed(records, erased)[a] = Number8(image[a])
  <2>1. d > 0
    BY SMT
  <2>2. CarryRows(records, Rows(image, m, d), m, d)
    BY <2>1, RecordsOfRows
  <2>3. PICK i \in 1 .. m, k \in 1 .. d : WordAt(a, image, d, i, k)
    <3>1. m \in Nat /\ d \in Nat /\ InImage(a, m, d)
      BY DEF InImage
    <3> HIDE DEF P, records
    <3> QED BY ONLY <2>1, <3>1, AddressIs
  <2>4. a = ((i - 1) * d) + (k - 1) /\ ByteAt(image, d, i, k) = Number8(image[a])
    BY <2>3 DEF WordAt
  <2> HIDE DEF records
  <2> DEFINE rows == Rows(image, m, d)
  <2>5. Programmed(records, erased)[a] = rows[i][k]
    <3>1. a \in 0 .. (m * d) - 1 /\ CarryRows(records, rows, m, d)
      BY <2>2
    <3> HIDE DEF rows, P
    <3> QED BY <2>1, <2>4, <3>1, ProgrammedRows
  <2>6. Rows(image, m, d)[i][k] = ByteAt(image, d, i, k)
    BY DEF Rows, Row
  <2> QED BY <2>4, <2>5, <2>6
<1>2. Programmed(records, erased) = [a \in DOMAIN erased |-> Programmed(records, erased)[a]]
  BY DEF Programmed
<1> HIDE DEF records, P
<1>3. DOMAIN erased = 0 .. P - 1
  BY DEF P
<1> DEFINE programmed == Programmed(records, erased)
<1> HIDE DEF programmed
<1>4. programmed = [a \in 0 .. P - 1 |-> Number8(image[a])]
  <2>1. programmed = [a \in 0 .. P - 1 |-> programmed[a]]
    BY <1>2, <1>3 DEF programmed
  <2>2. \A a \in 0 .. P - 1 : programmed[a] = Number8(image[a])
    BY <1>1 DEF programmed
  <2> QED BY <2>1, <2>2
<1> QED BY <1>4 DEF BytesIn, P, records, programmed

\* Every image arrives: in every state in which the types are right.
LEMMA TypedImagesArrive == TypeOK => ImagesArrive
<1> SUFFICES ASSUME TypeOK, stage = "done", sizes["WIDTH"] = 8, NEW r \in Roms
             PROVE  LET bytes == [address \in Addresses |-> Number8(images[r][address])]
                    IN  /\ InEmulator(r) = bytes
                        /\ FitsRecords => InDevice(r, 16) = bytes /\ InDevice(r, 2) = bytes
  BY DEF ImagesArrive
<1> DEFINE m == sizes["ASM"]
           d == sizes["DEPTH"]
           image == images[r]
<1>1. m \in Nat /\ d \in Nat
  BY DEF TypeOK, Parameters
<1>2. images \in [Roms -> [0 .. (m * d) - 1 -> SUBSET (0 .. 7)]]
  BY DEF TypeOK, Bits
<1>3. 0 \in Roms
  BY DEF TypeOK, Roms, Parameters
<1> HIDE DEF m, d
<1>4. image \in ImagesOf(m, d) /\ Addresses = 0 .. (m * d) - 1
  BY <1>2, <1>3 DEF ImagesOf, Addresses
<1> HIDE DEF image
<1>5. DOMAIN Ones = 0 .. (m * d) - 1
  BY <1>4 DEF Ones
<1>6. [address \in Addresses |-> Number8(images[r][address])] = BytesIn(image, m, d)
  BY <1>4 DEF BytesIn, image
<1>7. InEmulator(r) = BytesIn(image, m, d)
  BY <1>1, <1>4, <1>5, HexRead DEF InEmulator, m, d, image
<1>8. ASSUME FitsRecords
      PROVE  InDevice(r, 16) = BytesIn(image, m, d) /\ InDevice(r, 2) = BytesIn(image, m, d)
  <2>1. d < 256 /\ m * d <= 65536
    BY <1>8 DEF FitsRecords, m, d
  <2>2. Programmed(IntelHex(16, HexText(image, m, d)), Ones) = BytesIn(image, m, d)
    <3>1. d > 0 => RowsOf(16, HexText(image, m, d), Rows(image, m, d), m, d)
      BY <1>1, <1>4, HexRows
    <3> QED BY <1>1, <1>4, <1>5, <2>1, <3>1, RowsProgrammed
  <2>3. Programmed(IntelHex(2, BinText(image, m, d)), Ones) = BytesIn(image, m, d)
    <3>1. d > 0 => RowsOf(2, BinText(image, m, d), Rows(image, m, d), m, d)
      BY <1>1, <1>4, BinRows
    <3> QED BY <1>1, <1>4, <1>5, <2>1, <3>1, RowsProgrammed
  <2>4. 16 # 2
    OBVIOUS
  <2> QED BY <2>2, <2>3, <2>4 DEF InDevice, m, d, image
<1> QED BY <1>6, <1>7, <1>8

(* Every image of ROMs of eight bits arrives as it was generated, of any   *)
(* size and with any bits: at the emulator through hex2mem, and, when its  *)
(* records fit, at a device from either format (generateRoms, hex2mem's    *)
(* main, the Intel HEX generator's main, readMemFile).                     *)
THEOREM ImagesArriveAlways == Spec => []ImagesArrive
BY MicroassemblerTypesAlways, TypedImagesArrive, PTL

=============================================================================
