----------------------------- MODULE DuckProofs -----------------------------
(***************************************************************************)
(* The heap and the stacks of DuckVM for heaps and programs of every size. *)
(***************************************************************************)
EXTENDS DuckVM, SequenceTheorems, FiniteSetTheorems, WellFoundedInduction, TLAPS

-----------------------------------------------------------------------------
(* What the recursive functions of the collector compute.                  *)

\* A set of natural numbers has a least one.
LEMMA LeastExists ==
  ASSUME NEW T, T \subseteq Nat, T # {}
  PROVE  \E x \in T : \A y \in T : x <= y
<1> DEFINE R == OpToRel(<, Nat)
<1>1. \A y, x \in Nat : y < x => << y, x >> \in R
  BY Zenon DEF OpToRel
<1>2. IsWellFoundedOn(R, Nat)
  BY NatLessThanWellFounded
<1> HIDE DEF R
<1>3. PICK x \in T : \A y \in T : ~(<< y, x >> \in R)
  BY <1>2, WFMin, Zenon
<1>4. \A y \in T : ~(y < x)
  BY <1>1, <1>3, Zenon
<1> HIDE <1>2
<1> QED BY <1>3, <1>4, SMT

\* A set of numbers with a bound has a last one.
LEMMA MaxIsLast ==
  ASSUME NEW n \in Nat, NEW S, S \subseteq 1 .. n, S # {}
  PROVE  Max(S) \in S /\ \A y \in S : Max(S) >= y
<1> DEFINE T == { n - c : c \in S }
<1>1. PICK t \in T : \A u \in T : t <= u
  <2>1. \A c \in S : c \in Nat /\ c <= n /\ n - c \in Nat
    BY SMT
  <2>2. T \subseteq Nat /\ T # {}
    BY <2>1, Zenon
  <2> QED BY <2>2, LeastExists
<1>2. \A c \in S : n - t >= c
  BY <1>1
<1>3. n - t \in S
  BY <1>1
<1>4. \E x \in S : \A y \in S : x >= y
  BY <1>2, <1>3
<1> QED BY <1>4, Zenon DEF Max

\* The last free cell is a free cell.
LEMMA MaxIsFree ==
  ASSUME NEW S, S \subseteq Cells, S # {}
  PROVE  Max(S) \in S
BY MaxObjectsAssumption, MaxIsLast DEF Cells

\* A step that only adds members comes to an end from every set, in the
\* least set that it leaves alone: the recursion of Marked and Reachable.
Grows(D, step) ==
  /\ IsFiniteSet(D) /\ step \in [SUBSET D -> SUBSET D]
  /\ \A S \in SUBSET D : S \subseteq step[S]
  /\ \A S, T \in SUBSET D : S \subseteq T => step[S] \subseteq step[T]
Iterates(f, D, step) == f = [S \in SUBSET D |-> IF step[S] = S THEN S ELSE f[step[S]]]

LEMMA StepGrows ==
  ASSUME NEW D, NEW step, Grows(D, step), NEW P, P \subseteq SUBSET D,
         \A S \in P : step[S] # S /\ step[S] \in P
  PROVE  P = {}
<1> SUFFICES ASSUME P # {} PROVE FALSE
  OBVIOUS
<1> USE DEF Grows
<1> DEFINE T == { Cardinality(D \ S) : S \in P }
<1>1. \A S \in SUBSET D : IsFiniteSet(D \ S) /\ Cardinality(D \ S) \in Nat
  BY FS_Difference, FS_CardinalityType
<1>2. T \subseteq Nat /\ T # {}
  BY <1>1
<1>3. PICK t \in T : \A u \in T : t <= u
  BY <1>2, LeastExists
<1>4. PICK S \in P : t = Cardinality(D \ S)
  BY <1>3
<1>5. step[S] \in P /\ D \ step[S] \subseteq D \ S /\ D \ step[S] # D \ S
  OBVIOUS
<1>6. /\ Cardinality(D \ step[S]) <= Cardinality(D \ S)
      /\ Cardinality(D \ step[S]) # Cardinality(D \ S)
  BY <1>1, <1>5, FS_Subset
<1>7. Cardinality(D \ step[S]) \in T
  BY <1>5
<1>8. t <= Cardinality(D \ step[S])
  BY <1>3, <1>7
<1>9. Cardinality(D \ step[S]) \in Nat /\ Cardinality(D \ S) \in Nat
  BY <1>1, <1>5
<1> HIDE DEF T
<1> QED BY <1>4, <1>6, <1>8, <1>9

LEMMA IterationExists ==
  ASSUME NEW D, NEW step, Grows(D, step)
  PROVE  \E f : Iterates(f, D, step)
<1> USE DEF Grows
<1> DEFINE Least(S) == { c \in D : \A T \in SUBSET D : S \subseteq T /\ step[T] = T => c \in T }
           f == [S \in SUBSET D |-> Least(S)]
<1>1. ASSUME NEW S \in SUBSET D
      PROVE  f[S] = IF step[S] = S THEN S ELSE f[step[S]]
  <2>1. CASE step[S] = S
    BY <2>1
  <2>2. CASE step[S] # S
    <3>1. \A T \in SUBSET D : step[T] = T => (S \subseteq T <=> step[S] \subseteq T)
      OBVIOUS
    <3>2. Least(S) = Least(step[S])
      BY <3>1
    <3> QED BY <2>2, <3>2
  <2> QED BY <2>1, <2>2
<1>2. Iterates(f, D, step)
  BY <1>1 DEF Iterates
<1> QED BY <1>2, Zenon

LEMMA IterationFacts ==
  ASSUME NEW D, NEW step, Grows(D, step), NEW f, Iterates(f, D, step), NEW R \in SUBSET D
  PROVE  /\ R \subseteq f[R] /\ f[R] \in SUBSET D /\ step[f[R]] = f[R]
         /\ \A T \in SUBSET D : R \subseteq T /\ step[T] = T => f[R] \subseteq T
<1> USE DEF Grows
<1> DEFINE Good(S) == /\ S \subseteq f[S] /\ f[S] \in SUBSET D /\ step[f[S]] = f[S]
                      /\ \A T \in SUBSET D : S \subseteq T /\ step[T] = T => f[S] \subseteq T
           P == { S \in SUBSET D : ~Good(S) }
<1>1. \A S \in SUBSET D : f[S] = IF step[S] = S THEN S ELSE f[step[S]]
  BY DEF Iterates
<1>2. ASSUME NEW S \in P
      PROVE  step[S] # S /\ step[S] \in P
  <2>1. step[S] # S
    BY <1>1
  <2>2. f[S] = f[step[S]]
    BY <1>1, <2>1
  <2>3. ASSUME Good(step[S]) PROVE Good(S)
    <3>1. \A T \in SUBSET D : S \subseteq T /\ step[T] = T => step[S] \subseteq T
      OBVIOUS
    <3>2. S \subseteq step[S]
      OBVIOUS
    <3> QED BY <2>2, <2>3, <3>1, <3>2
  <2>4. ~Good(S) /\ step[S] \in SUBSET D
    OBVIOUS
  <2> QED BY <2>1, <2>3, <2>4
<1> HIDE DEF P
<1>3. P \subseteq SUBSET D
  BY DEF P
<1>4. P = {}
  BY <1>2, <1>3, StepGrows
<1> QED BY <1>4 DEF P

\* Marking reaches the roots and what they lead to, and nothing else.
LEMMA MarkedFacts ==
  ASSUME NEW m, DOMAIN m.heap \subseteq Cells, Roots(m) \subseteq DOMAIN m.heap,
         \A c \in DOMAIN m.heap : Traced(m.heap[c]) \subseteq DOMAIN m.heap
  PROVE  /\ Roots(m) \subseteq Marked(m) /\ Marked(m) \subseteq DOMAIN m.heap
         /\ \A c \in Marked(m) : Traced(m.heap[c]) \subseteq Marked(m)
         /\ \A T \in SUBSET DOMAIN m.heap :
              Roots(m) \subseteq T /\ (\A c \in T : Traced(m.heap[c]) \subseteq T)
                => Marked(m) \subseteq T
<1> DEFINE D == DOMAIN m.heap
           After(S) == S \cup UNION { Traced(m.heap[c]) : c \in S }
           step == [S \in SUBSET D |-> After(S)]
           more == CHOOSE f : f = [S \in SUBSET D |-> LET T == After(S)
                                                      IN  IF T = S THEN S ELSE f[T]]
<1>1. IsFiniteSet(D)
  <2>1. IsFiniteSet(Cells)
    BY MaxObjectsAssumption, FS_Interval DEF Cells
  <2> QED BY <2>1, FS_Subset
<1>2. \A S \in SUBSET D : After(S) \in SUBSET D /\ S \subseteq After(S)
  OBVIOUS
<1>3. \A S, T \in SUBSET D : S \subseteq T => After(S) \subseteq After(T)
  OBVIOUS
<1> HIDE DEF After
<1>4. /\ step \in [SUBSET D -> SUBSET D]
      /\ \A S \in SUBSET D : step[S] = After(S)
  BY <1>2
<1>5. Grows(D, step)
  BY <1>1, <1>2, <1>3, <1>4 DEF Grows
<1>6. \A f : [S \in SUBSET D |-> LET T == After(S) IN IF T = S THEN S ELSE f[T]]
               = [S \in SUBSET D |-> IF step[S] = S THEN S ELSE f[step[S]]]
  BY <1>4
<1>7. Roots(m) \in SUBSET D
  OBVIOUS
<1> HIDE DEF step, D
<1>8. \E f : Iterates(f, D, step)
  BY <1>5, IterationExists
<1>9. \E f : f = [S \in SUBSET D |-> LET T == After(S) IN IF T = S THEN S ELSE f[T]]
  BY <1>6, <1>8 DEF Iterates
<1>10. more = [S \in SUBSET D |-> LET T == After(S) IN IF T = S THEN S ELSE more[T]]
  BY <1>9
<1>11. Marked(m) = more[Roots(m)]
  BY DEF Marked, After, D
<1> HIDE DEF more
<1>12. Iterates(more, D, step)
  BY <1>6, <1>10 DEF Iterates
<1>13. /\ Roots(m) \subseteq more[Roots(m)] /\ more[Roots(m)] \in SUBSET D
       /\ step[more[Roots(m)]] = more[Roots(m)]
       /\ \A T \in SUBSET D : Roots(m) \subseteq T /\ step[T] = T => more[Roots(m)] \subseteq T
  BY <1>5, <1>7, <1>12, IterationFacts
<1>14. After(Marked(m)) = Marked(m)
  BY <1>4, <1>11, <1>13
<1>15. \A T \in SUBSET D : Roots(m) \subseteq T /\ After(T) = T => Marked(m) \subseteq T
  BY <1>4, <1>11, <1>13
<1>16. ASSUME NEW T \in SUBSET D, \A c \in T : Traced(m.heap[c]) \subseteq T
       PROVE  After(T) = T
  BY <1>16 DEF After
<1>17. \A c \in Marked(m) : Traced(m.heap[c]) \subseteq Marked(m)
  BY <1>14 DEF After
<1>18. \A T \in SUBSET D : Roots(m) \subseteq T /\ (\A c \in T : Traced(m.heap[c]) \subseteq T)
                             => Marked(m) \subseteq T
  BY <1>15, <1>16
<1>19. Roots(m) \subseteq Marked(m) /\ Marked(m) \subseteq D
  BY <1>11, <1>13
<1> QED BY <1>17, <1>18, <1>19 DEF D

-----------------------------------------------------------------------------
(* Sequences of whatever they hold.                                        *)

IsSeq(s) == \E S : s \in Seq(S)

LEMMA SeqDomain ==
  ASSUME NEW s, IsSeq(s)
  PROVE  Len(s) \in Nat /\ DOMAIN s = 1 .. Len(s)
BY DEF IsSeq

LEMMA SeqAppend ==
  ASSUME NEW s, IsSeq(s), NEW x
  PROVE  /\ IsSeq(Append(s, x)) /\ Len(Append(s, x)) = Len(s) + 1
         /\ \A i \in 1 .. Len(s) : Append(s, x)[i] = s[i]
         /\ Append(s, x)[Len(s) + 1] = x
<1>1. PICK S : s \in Seq(S)
  BY DEF IsSeq
<1>2. s \in Seq(S \cup {x}) /\ x \in S \cup {x}
  BY <1>1
<1> QED BY <1>2, AppendProperties DEF IsSeq

LEMMA SeqCut ==
  ASSUME NEW s, IsSeq(s), NEW n \in 0 .. Len(s)
  PROVE  /\ IsSeq(SubSeq(s, 1, n)) /\ Len(SubSeq(s, 1, n)) = n
         /\ \A i \in 1 .. n : SubSeq(s, 1, n)[i] = s[i]
<1>1. PICK S : s \in Seq(S)
  BY DEF IsSeq
<1> QED BY <1>1, SubSeqProperties DEF IsSeq

LEMMA SeqChange ==
  ASSUME NEW s, IsSeq(s), NEW k \in 1 .. Len(s), NEW x
  PROVE  /\ IsSeq([s EXCEPT ![k] = x]) /\ Len([s EXCEPT ![k] = x]) = Len(s)
         /\ \A i \in 1 .. Len(s) : [s EXCEPT ![k] = x][i] = IF i = k THEN x ELSE s[i]
<1>1. PICK S : s \in Seq(S)
  BY DEF IsSeq
<1>2. s \in Seq(S \cup {x}) /\ x \in S \cup {x}
  BY <1>1
<1> QED BY <1>2, ExceptSeq DEF IsSeq

-----------------------------------------------------------------------------
(* What a sound machine is.                                                *)

Fields == {"heap", "free", "stack", "uvs", "globals", "frames", "current", "ip",
           "status", "types", "cell"}

\* The cells that are not on the free list.
InUse(m) == DOMAIN m.heap \ m.free

\* A cell in use that holds one of some types of objects, and a reference
\* that may also be null.
IsOf(m, c, types) == c \in InUse(m) /\ m.heap[c].type \in types
MayBe(m, c, types) == c = Null \/ IsOf(m, c, types)

Linked == ValueTypes \cup {"cons"}

\* Whether programs capture variables.
MayCapture == ~(Programs.captures \subseteq { << >> })

\* What an object is, where its references only count by the types and the
\* sizes of what they lead to.  There are no instances, and a closure was made
\* by the code that it belongs to.
FitsScalar(o) ==
  /\ o.type \in (ValueTypes \cup CellTypes) \ {"composite", "internalComposite"}
  /\ o.type = "integer" => o.integer \in Int
  /\ o.type = "bool" => o.boolean \in Int
  /\ o.type = "internalString" => o.value_length \in Nat
FitsPair(m, o) ==
  /\ o.type = "list" => MayBe(m, o.list, Linked)
  /\ o.type = "cons" =>
       /\ {"type", "car", "cdr"} \subseteq DOMAIN o
       /\ MayBe(m, o.car, Linked) /\ MayBe(m, o.cdr, Linked)
  /\ o.type # "cons" =>
       "car" \notin DOMAIN o /\ "cdr" \notin DOMAIN o /\ o = [f \in DOMAIN o |-> o[f]]
FitsText(m, o) ==
  /\ o.type = "symbol" => o.id \in Int /\ IsOf(m, o.internalString, {"internalString"})
  /\ o.type = "string" =>
       /\ {"type", "internalString", "offset", "length"} \subseteq DOMAIN o
       /\ o.offset \in Nat /\ o.length \in Nat /\ o.offset <= o.length
       /\ MayBe(m, o.internalString, {"internalString"})
       /\ o.internalString # Null => o.length <= m.heap[o.internalString].value_length
FitsVector(m, o) ==
  /\ o.type = "vector" =>
       /\ {"type", "internal_vector", "offset"} \subseteq DOMAIN o /\ o.offset \in Nat
       /\ MayBe(m, o.internal_vector, {"internalVector"})
       /\ o.internal_vector # Null => o.offset <= Len(m.heap[o.internal_vector].values)
  /\ o.type = "internalVector" =>
       /\ "makeVector" \in Programs.instructions
       /\ {"type", "length", "initialized", "values"} \subseteq DOMAIN o
       /\ IsSeq(o.values) /\ o.length = Len(o.values) /\ o.initialized \in BOOLEAN
       /\ \A k \in 1 .. o.length :
            IF o.initialized THEN IsOf(m, o.values[k], ValueTypes) ELSE o.values[k] = Null
FitsClosure(m, o) ==
  o.type = "closure" =>
    /\ IsOf(m, o.upvalue_array, {"upvalueArray"})
    /\ IsOf(m, o.bytecode, {"bytecode"}) /\ o.name = o.bytecode /\ o.arity \in Nat
FitsUpvalue(m, o) ==
  /\ o.type = "upvalueArray" =>
       /\ {"type", "upvalues"} \subseteq DOMAIN o
       /\ \A k \in DOMAIN o.upvalues : MayBe(m, o.upvalues[k], {"upvalue"})
  /\ o.type = "upvalue" =>
       /\ MayCapture /\ o = Upvalue(o.kind, o.target) /\ o.kind \in {"stack", "object", "upvalue"}
       /\ o.kind = "object" => IsOf(m, o.target, ValueTypes)
       /\ o.kind = "upvalue" => IsOf(m, o.target, {"upvalue"})

Fits(m, o) ==
  /\ FitsScalar(o) /\ FitsPair(m, o) /\ FitsText(m, o) /\ FitsVector(m, o)
  /\ FitsClosure(m, o) /\ FitsUpvalue(m, o)

IsValue(m, o) == o.type \in ValueTypes /\ Fits(m, o)

\* All vectors in use are filled, but for the one in cell w.
SoundHeap(w, m) ==
  /\ DOMAIN m = Fields /\ DOMAIN m.heap \subseteq Cells /\ m.free \subseteq DOMAIN m.heap
  /\ \A c \in m.free : m.heap[c] = Blank
  /\ \A c \in InUse(m) :
       /\ Fits(m, m.heap[c])
       /\ m.heap[c].type = "internalVector" /\ c # w => m.heap[c].initialized

SoundRoots(m) ==
  /\ IsSeq(m.stack) /\ IsSeq(m.uvs)
  /\ \A i \in 1 .. Len(m.stack) : IsValue(m, m.stack[i])
  /\ Len(m.uvs) <= Len(m.stack)
  /\ \A i \in 1 .. Len(m.uvs) : MayBe(m, m.uvs[i], {"upvalue"})
  /\ \A k \in DOMAIN m.globals : IsOf(m, m.globals[k], ValueTypes)
  /\ MayBe(m, m.current, {"bytecode"})

\* Code that is running, at depth n of the call stack: that of the program
\* or that of a function which a caller keeps on the stack.
RunsIn(m, n, code) ==
  code = m.current
    \/ \E j \in 1 .. n : /\ m.stack[m.frames[j].base].type = "closure"
                         /\ m.stack[m.frames[j].base].name = code

SoundCalls(m) ==
  /\ IsSeq(m.frames) /\ RunsIn(m, Len(m.frames), m.ip)
  /\ \A k \in 1 .. Len(m.frames) :
       /\ m.frames[k].bytecode = m.current /\ RunsIn(m, k - 1, m.frames[k].ip)
       /\ m.frames[k].base \in 1 .. Len(m.stack)
       /\ m.frames[k].base \in 1 .. Len(m.uvs) /\ m.uvs[m.frames[k].base] = Null
       /\ \A j \in 1 .. k - 1 : m.frames[j].base < m.frames[k].base
       /\ m.frames[k].upvalues # Null =>
            /\ m.stack[m.frames[k].base].type = "closure"
            /\ m.stack[m.frames[k].base].upvalue_array = m.frames[k].upvalues

\* Upvalues that stand for others come to an end.
Ranked(m) ==
  \E rank \in [Cells -> Nat] :
    \A c \in InUse(m) :
      m.heap[c].type = "upvalue" /\ m.heap[c].kind = "upvalue"
        => rank[m.heap[c].target] < rank[c]

\* Every open upvalue is the one that its slot will release.  Programs that
\* capture variables store nothing: only main's functions are global then,
\* and none of them is the copy of a variable.
SoundUpvalues(m) ==
  /\ Ranked(m)
  /\ \A c \in InUse(m) :
       m.heap[c].type = "upvalue" /\ m.heap[c].kind = "stack"
         => m.heap[c].target \in 1 .. Len(m.uvs) /\ m.uvs[m.heap[c].target] = c
  /\ MayCapture => \A k \in DOMAIN m.globals :
       /\ m.heap[m.globals[k]].type = "function"
       /\ \A c \in InUse(m) : m.heap[c].type = "upvalue" /\ m.heap[c].kind = "object"
                                => m.heap[c].target # m.globals[k]

\* What is captured has been as it is since the instruction began: upvalues
\* may have been closed, but what is seen through each one is the same.
Content(m, u) == IF u.kind = "object" THEN m.heap[u.target] ELSE m.stack[u.target]
Keeps(m) ==
  \A c \in InUse(m) \cap Marked(vm) :
    m.heap[c].type = "upvalue" =>
      /\ vm.heap[c].type = "upvalue"
      /\ m.heap[c].kind = "upvalue" => m.heap[c] = vm.heap[c]
      /\ m.heap[c].kind # "upvalue" =>
           vm.heap[c].kind # "upvalue" /\ Content(m, m.heap[c]) = Content(vm, vm.heap[c])

Solid(w, m) == SoundHeap(w, m) /\ SoundRoots(m) /\ SoundCalls(m)
Firm(w, m) == Solid(w, m) /\ SoundUpvalues(m)
Sound(w, m) ==
  SoundHeap(w, m) /\ SoundRoots(m) /\ SoundCalls(m) /\ SoundUpvalues(m) /\ Keeps(m)

LEMMA SoundSolid ==
  ASSUME NEW w, NEW m, Sound(w, m)
  PROVE  Solid(w, m) /\ SoundUpvalues(m) /\ Keeps(m)
BY DEF Sound, Solid

\* What a reference sees of the cell it leads to.
Alike(o, p) ==
  /\ o.type = p.type \/ (o.type \in ValueTypes /\ p.type \in ValueTypes)
  /\ o.type = "internalString" => o.value_length = p.value_length
  /\ o.type = "internalVector" => Len(o.values) = Len(p.values)
Kept(m, h, S) == \A c \in S : c \in InUse(h) /\ Alike(m.heap[c], h.heap[c])

LEMMA TracedFacts ==
  ASSUME NEW o
  PROVE  /\ o.type = "list" => Traced(o) = {o.list} \ {Null}
         /\ o.type = "cons" => Traced(o) = {o.car, o.cdr} \ {Null}
         /\ o.type \in {"string", "symbol"} => Traced(o) = {o.internalString} \ {Null}
         /\ o.type = "vector" => Traced(o) = {o.internal_vector} \ {Null}
         /\ o.type = "internalVector" /\ o.initialized => Traced(o) = Elements(o) \ {Null}
         /\ o.type = "internalVector" /\ ~o.initialized => Traced(o) = {}
         /\ o.type = "closure" => Traced(o) = {o.upvalue_array, o.bytecode} \ {Null}
         /\ o.type = "upvalueArray" => Traced(o) = Range(o.upvalues) \ {Null}
         /\ o.type = "upvalue" /\ o.kind # "stack" => Traced(o) = {o.target} \ {Null}
         /\ o.type = "upvalue" /\ o.kind = "stack" => Traced(o) = {}
         /\ o.type \notin {"list", "cons", "string", "symbol", "vector", "internalVector",
                           "closure", "upvalueArray", "upvalue"} => Traced(o) = {}
BY DEF Traced

\* A fitting object refers to what the collector traces, and to cells in use.
LEMMA FitsTraced ==
  ASSUME NEW m, DOMAIN m.heap \subseteq Cells, NEW o, Fits(m, o)
  PROVE  /\ References(o) = Traced(o) /\ Traced(o) \subseteq InUse(m)
         /\ o.type \in ValueTypes => StackTraced(o) = Traced(o)
<1>1. Null \notin Cells
  BY DEF Null, Cells
<1>2. Traced(o) \subseteq InUse(m)
  <2>1. CASE o.type \in {"list", "cons"}
    BY <2>1, TracedFacts DEF Fits, FitsPair, MayBe, IsOf
  <2>2. CASE o.type \in {"string", "symbol"}
    BY <2>2, TracedFacts DEF Fits, FitsText, MayBe, IsOf
  <2>3. CASE o.type \in {"vector", "internalVector"}
    <3>1. CASE o.type = "vector"
      BY <3>1, TracedFacts DEF Fits, FitsVector, MayBe, IsOf
    <3>2. CASE o.type = "internalVector" /\ o.initialized
      BY <3>2, TracedFacts DEF Fits, FitsVector, IsOf, Elements
    <3> QED BY <2>3, <3>1, <3>2, TracedFacts
  <2>4. CASE o.type = "closure"
    BY <2>4, TracedFacts DEF Fits, FitsClosure, IsOf
  <2>5. CASE o.type = "upvalueArray"
    BY <2>5, TracedFacts DEF Fits, FitsUpvalue, MayBe, IsOf, Range
  <2>6. CASE o.type = "upvalue"
    BY <2>6, TracedFacts DEF Fits, FitsUpvalue, IsOf
  <2> QED BY <2>1, <2>2, <2>3, <2>4, <2>5, <2>6, TracedFacts DEF Fits, FitsScalar
<1>3. References(o) = Traced(o)
  <2>1. CASE o.type = "closure"
    BY <2>1, TracedFacts DEF Fits, FitsClosure, References
  <2>2. CASE o.type = "internalVector"
    BY <2>2, TracedFacts DEF Fits, FitsVector, References, Elements
  <2> QED BY <2>1, <2>2, <1>1, <1>2 DEF References, Fits, FitsScalar, InUse
<1>4. o.type \in ValueTypes => StackTraced(o) = Traced(o)
  BY TracedFacts DEF StackTraced, Fits, FitsScalar, ValueTypes
<1> QED BY <1>2, <1>3, <1>4

LEMMA KeptOf ==
  ASSUME NEW m, NEW h, NEW S, Kept(m, h, S), NEW c \in S
  PROVE  /\ IsOf(m, c, Linked) => IsOf(h, c, Linked)
         /\ IsOf(m, c, ValueTypes) => IsOf(h, c, ValueTypes)
         /\ \A t : t \notin ValueTypes /\ IsOf(m, c, {t}) => IsOf(h, c, {t})
BY Zenon DEF Kept, IsOf, Alike, Linked

\* An object goes on fitting when what it leads to stays.
LEMMA FitsKept ==
  ASSUME NEW m, DOMAIN m.heap \subseteq Cells, NEW o, Fits(m, o),
         NEW h, Kept(m, h, Traced(o))
  PROVE  Fits(h, o)
<1>1. Null \notin Cells
  BY DEF Null, Cells
<1>2. FitsScalar(o)
  BY DEF Fits
<1>3. \A c \in Traced(o) :
        /\ IsOf(m, c, Linked) => IsOf(h, c, Linked)
        /\ IsOf(m, c, ValueTypes) => IsOf(h, c, ValueTypes)
        /\ IsOf(m, c, {"internalString"}) =>
             /\ IsOf(h, c, {"internalString"})
             /\ h.heap[c].value_length = m.heap[c].value_length
        /\ IsOf(m, c, {"internalVector"}) =>
             /\ IsOf(h, c, {"internalVector"}) /\ Len(h.heap[c].values) = Len(m.heap[c].values)
        /\ IsOf(m, c, {"upvalueArray"}) => IsOf(h, c, {"upvalueArray"})
        /\ IsOf(m, c, {"upvalue"}) => IsOf(h, c, {"upvalue"})
        /\ IsOf(m, c, {"bytecode"}) => IsOf(h, c, {"bytecode"})
  <2> SUFFICES ASSUME NEW c \in Traced(o)
               PROVE  /\ IsOf(m, c, Linked) => IsOf(h, c, Linked)
                      /\ IsOf(m, c, ValueTypes) => IsOf(h, c, ValueTypes)
                      /\ \A t \in CellTypes : IsOf(m, c, {t}) => IsOf(h, c, {t})
                      /\ IsOf(m, c, {"internalString"})
                           => h.heap[c].value_length = m.heap[c].value_length
                      /\ IsOf(m, c, {"internalVector"})
                           => Len(h.heap[c].values) = Len(m.heap[c].values)
    BY DEF CellTypes
  <2>1. ValueTypes \cap CellTypes = {}
    BY DEF ValueTypes, CellTypes
  <2>2. Alike(m.heap[c], h.heap[c])
    BY DEF Kept
  <2> QED BY <2>1, <2>2, KeptOf DEF IsOf, Alike
<1>4. FitsPair(h, o)
  <2>1. CASE o.type = "list"
    BY <2>1, <1>3, TracedFacts, Zenon DEF Fits, FitsPair, MayBe
  <2>2. CASE o.type = "cons"
    BY <2>2, <1>3, TracedFacts DEF Fits, FitsPair, MayBe
  <2> QED BY <2>1, <2>2 DEF Fits, FitsPair
<1>5. FitsText(h, o)
  <2>1. CASE o.type \in {"string", "symbol"}
    BY <2>1, <1>1, <1>3, TracedFacts DEF Fits, FitsText, MayBe, IsOf, InUse
  <2> QED BY <2>1 DEF FitsText
<1>6. FitsVector(h, o)
  <2>1. CASE o.type = "vector"
    BY <2>1, <1>1, <1>3, TracedFacts DEF Fits, FitsVector, MayBe, IsOf, InUse
  <2>2. CASE o.type = "internalVector"
    <3>1. ASSUME NEW k \in 1 .. o.length, o.initialized
          PROVE  IsOf(h, o.values[k], ValueTypes)
      <4>1. IsOf(m, o.values[k], ValueTypes)
        BY <2>2, <3>1 DEF Fits, FitsVector
      <4>2. o.values[k] \in Traced(o)
        BY <2>2, <3>1, <4>1, <1>1, TracedFacts DEF Elements, IsOf, InUse
      <4> QED BY <1>3, <4>1, <4>2
    <3> QED BY <2>2, <3>1 DEF Fits, FitsVector
  <2> QED BY <2>1, <2>2 DEF FitsVector
<1>7. FitsClosure(h, o)
  <2>1. CASE o.type = "closure"
    BY <2>1, <1>1, <1>3, TracedFacts DEF Fits, FitsClosure, IsOf, InUse
  <2> QED BY <2>1 DEF FitsClosure
<1>8. FitsUpvalue(h, o)
  <2>1. CASE o.type = "upvalueArray"
    <3>1. ASSUME NEW k \in DOMAIN o.upvalues
          PROVE  MayBe(h, o.upvalues[k], {"upvalue"})
      <4>1. MayBe(m, o.upvalues[k], {"upvalue"})
        BY <2>1 DEF Fits, FitsUpvalue
      <4>2. o.upvalues[k] # Null => o.upvalues[k] \in Traced(o)
        BY <2>1, TracedFacts DEF Range
      <4> QED BY <1>3, <4>1, <4>2 DEF MayBe
    <3> QED BY <2>1, <3>1 DEF Fits, FitsUpvalue
  <2>2. CASE o.type = "upvalue"
    BY <2>2, <1>1, <1>3, TracedFacts DEF Fits, FitsUpvalue, IsOf, InUse
  <2> QED BY <2>1, <2>2 DEF FitsUpvalue
<1> QED BY <1>2, <1>4, <1>5, <1>6, <1>7, <1>8 DEF Fits

-----------------------------------------------------------------------------
(* Upvalues.                                                               *)

\* Upvalues may be closed.
LEMMA UpvaluesClosed ==
  ASSUME NEW m, SoundUpvalues(m), Keeps(m), NEW h, h.globals = m.globals,
         MayCapture => \A k \in DOMAIN m.globals : h.heap[m.globals[k]].type = "function",
         \A c \in InUse(h) :
           h.heap[c].type = "upvalue" =>
             /\ c \in InUse(m) /\ m.heap[c].type = "upvalue"
             /\ h.heap[c].kind = "upvalue" => h.heap[c] = m.heap[c]
             /\ h.heap[c].kind # "upvalue" =>
                  m.heap[c].kind # "upvalue" /\ Content(h, h.heap[c]) = Content(m, m.heap[c])
             /\ h.heap[c].kind = "stack" =>
                  h.heap[c].target \in 1 .. Len(h.uvs) /\ h.uvs[h.heap[c].target] = c
             /\ MayCapture /\ h.heap[c].kind = "object" =>
                  \A k \in DOMAIN m.globals : h.heap[c].target # m.globals[k]
  PROVE  SoundUpvalues(h) /\ Keeps(h)
<1>1. Ranked(h)
  <2>1. PICK rank \in [Cells -> Nat] :
          \A c \in InUse(m) :
            m.heap[c].type = "upvalue" /\ m.heap[c].kind = "upvalue"
              => rank[m.heap[c].target] < rank[c]
    BY DEF SoundUpvalues, Ranked
  <2> QED BY <2>1 DEF Ranked
<1>2. SoundUpvalues(h)
  BY <1>1 DEF SoundUpvalues
<1>3. Keeps(h)
  <2> SUFFICES ASSUME NEW c \in InUse(h), c \in Marked(vm), h.heap[c].type = "upvalue"
               PROVE  /\ vm.heap[c].type = "upvalue"
                      /\ h.heap[c].kind = "upvalue" => h.heap[c] = vm.heap[c]
                      /\ h.heap[c].kind # "upvalue" =>
                           /\ vm.heap[c].kind # "upvalue"
                           /\ Content(h, h.heap[c]) = Content(vm, vm.heap[c])
    BY Zenon DEF Keeps
  <2>1. c \in InUse(m) /\ m.heap[c].type = "upvalue"
    OBVIOUS
  <2>2. /\ vm.heap[c].type = "upvalue"
        /\ m.heap[c].kind = "upvalue" => m.heap[c] = vm.heap[c]
        /\ m.heap[c].kind # "upvalue" =>
             /\ vm.heap[c].kind # "upvalue"
             /\ Content(m, m.heap[c]) = Content(vm, vm.heap[c])
    BY <2>1 DEF Keeps
  <2> QED BY <2>2
<1> QED BY <1>2, <1>3

\* Upvalues stay as they are, and so does what is seen through them.
LEMMA UpvaluesKept ==
  ASSUME NEW m, SoundUpvalues(m), Keeps(m), NEW h, h.globals = m.globals,
         \A k \in DOMAIN m.globals : h.heap[m.globals[k]] = m.heap[m.globals[k]],
         \A c \in InUse(h) :
           h.heap[c].type = "upvalue" =>
             /\ c \in InUse(m) /\ h.heap[c] = m.heap[c]
             /\ h.heap[c].kind \in {"stack", "object", "upvalue"}
             /\ h.heap[c].kind = "object" => h.heap[h.heap[c].target] = m.heap[h.heap[c].target]
             /\ h.heap[c].kind = "stack" =>
                  /\ h.heap[c].target \in 1 .. Len(h.uvs)
                  /\ h.uvs[h.heap[c].target] = m.uvs[h.heap[c].target]
                  /\ h.stack[h.heap[c].target] = m.stack[h.heap[c].target]
  PROVE  SoundUpvalues(h) /\ Keeps(h)
<1>1. MayCapture => \A k \in DOMAIN m.globals : h.heap[m.globals[k]].type = "function"
  BY DEF SoundUpvalues
<1>2. ASSUME NEW c \in InUse(h), h.heap[c].type = "upvalue"
      PROVE  /\ c \in InUse(m) /\ m.heap[c].type = "upvalue"
             /\ h.heap[c].kind = "upvalue" => h.heap[c] = m.heap[c]
             /\ h.heap[c].kind # "upvalue" =>
                  m.heap[c].kind # "upvalue" /\ Content(h, h.heap[c]) = Content(m, m.heap[c])
             /\ h.heap[c].kind = "stack" =>
                  h.heap[c].target \in 1 .. Len(h.uvs) /\ h.uvs[h.heap[c].target] = c
             /\ MayCapture /\ h.heap[c].kind = "object" =>
                  \A k \in DOMAIN m.globals : h.heap[c].target # m.globals[k]
  <2>1. c \in InUse(m) /\ h.heap[c] = m.heap[c] /\ m.heap[c].type = "upvalue"
    BY <1>2
  <2>2. /\ m.heap[c].kind = "stack" => m.uvs[m.heap[c].target] = c
        /\ MayCapture /\ m.heap[c].kind = "object" =>
             \A k \in DOMAIN m.globals : m.heap[c].target # m.globals[k]
    BY <2>1 DEF SoundUpvalues
  <2>3. h.heap[c].kind # "upvalue" => Content(h, h.heap[c]) = Content(m, m.heap[c])
    BY <1>2, <2>1 DEF Content
  <2> QED BY <1>2, <2>1, <2>2, <2>3
<1> QED BY <1>1, <1>2, UpvaluesClosed

\* Without captured variables there is nothing to say.
LEMMA UpvaluesNone ==
  ASSUME NEW w, NEW h, SoundHeap(w, h), ~MayCapture
  PROVE  SoundUpvalues(h) /\ Keeps(h)
<1>1. \A c \in InUse(h) : h.heap[c].type # "upvalue"
  BY DEF SoundHeap, Fits, FitsUpvalue
<1>2. [c \in Cells |-> 0] \in [Cells -> Nat]
  OBVIOUS
<1> QED BY <1>1, <1>2 DEF SoundUpvalues, Keeps, Ranked

-----------------------------------------------------------------------------
(* Collecting and allocating.                                              *)

\* What values on the stack lead to is reached by the collector.
LEMMA RootsInUse ==
  ASSUME NEW w, NEW m, Solid(w, m)
  PROVE  /\ Roots(m) \subseteq InUse(m)
         /\ \A i \in 1 .. Len(m.stack) : Traced(m.stack[i]) \subseteq Roots(m)
         /\ \A k \in DOMAIN m.globals : m.globals[k] \in Roots(m)
         /\ \A i \in 1 .. Len(m.uvs) : m.uvs[i] # Null => m.uvs[i] \in Roots(m)
         /\ m.current # Null => m.current \in Roots(m)
<1>1. /\ DOMAIN m.heap \subseteq Cells
      /\ \A i \in 1 .. Len(m.stack) : IsValue(m, m.stack[i])
      /\ DOMAIN m.stack = 1 .. Len(m.stack) /\ DOMAIN m.uvs = 1 .. Len(m.uvs)
      /\ DOMAIN m.frames = 1 .. Len(m.frames)
  BY SeqDomain DEF Solid, SoundHeap, SoundRoots, SoundCalls
<1>2. Null \notin Cells
  BY DEF Null, Cells
<1>3. \A i \in 1 .. Len(m.stack) :
        StackTraced(m.stack[i]) = Traced(m.stack[i]) /\ Traced(m.stack[i]) \subseteq InUse(m)
  BY <1>1, FitsTraced DEF IsValue
<1>4. Range(m.uvs) \subseteq InUse(m) \cup {Null} /\ Range(m.globals) \subseteq InUse(m)
  BY <1>1 DEF Range, Solid, SoundRoots, IsOf, MayBe
<1>5. { m.frames[i].bytecode : i \in DOMAIN m.frames } \subseteq {m.current}
  BY <1>1 DEF Solid, SoundCalls
<1>6. m.current = Null \/ m.current \in InUse(m)
  BY DEF Solid, SoundRoots, MayBe, IsOf
<1> DEFINE T == UNION { StackTraced(m.stack[i]) : i \in DOMAIN m.stack }
           F == { m.frames[i].bytecode : i \in DOMAIN m.frames }
<1>7. \A c : c \in Roots(m) <=>
        /\ c # Null
        /\ c \in T \/ c \in Range(m.uvs) \/ c \in Range(m.globals) \/ c \in F \/ c = m.current
  BY Zenon DEF Roots
<1>8. \A c : c \in T <=> \E i \in 1 .. Len(m.stack) : c \in Traced(m.stack[i])
  BY <1>1, <1>3
<1>9. \A c : c \in Range(m.globals) <=> \E k \in DOMAIN m.globals : c = m.globals[k]
  BY Zenon DEF Range
<1>10. F \subseteq {m.current} /\ InUse(m) \subseteq Cells
  BY <1>1, <1>5 DEF InUse
<1> HIDE DEF T, F
<1>11. Roots(m) \subseteq InUse(m)
  BY <1>3, <1>4, <1>6, <1>7, <1>8, <1>10
<1>12. \A i \in 1 .. Len(m.stack) : Traced(m.stack[i]) \subseteq Roots(m)
  BY <1>2, <1>3, <1>7, <1>8, <1>10
<1>13. \A k \in DOMAIN m.globals : m.globals[k] \in Roots(m)
  BY <1>2, <1>4, <1>7, <1>9, <1>10
<1>14. m.current # Null => m.current \in Roots(m)
  BY <1>7
<1>15. \A i \in 1 .. Len(m.uvs) : m.uvs[i] # Null => m.uvs[i] \in Roots(m)
  BY <1>1, <1>7 DEF Range
<1> QED BY <1>11, <1>12, <1>13, <1>14, <1>15

\* Marking stays within the cells in use, and what a marked cell leads to is
\* marked.
LEMMA MarkedInUse ==
  ASSUME NEW w, NEW m, Solid(w, m)
  PROVE  /\ Roots(m) \subseteq Marked(m) /\ Marked(m) \subseteq InUse(m)
         /\ \A c \in Marked(m) : Traced(m.heap[c]) \subseteq Marked(m)
         /\ \A T \in SUBSET InUse(m) :
              Roots(m) \subseteq T /\ (\A c \in T : Traced(m.heap[c]) \subseteq T)
                => Marked(m) \subseteq T
<1>1. DOMAIN m.heap \subseteq Cells /\ InUse(m) \subseteq DOMAIN m.heap
  BY DEF Solid, SoundHeap, InUse
<1>2. Roots(m) \subseteq InUse(m)
  BY RootsInUse
<1>3. \A c \in InUse(m) : Traced(m.heap[c]) \subseteq InUse(m)
  BY <1>1, FitsTraced DEF Solid, SoundHeap
<1>4. \A c \in DOMAIN m.heap : Traced(m.heap[c]) \subseteq DOMAIN m.heap
  <2>1. \A c \in m.free : Traced(m.heap[c]) = {}
    BY TracedFacts DEF Solid, SoundHeap, Blank
  <2> QED BY <1>1, <1>3, <2>1 DEF InUse
<1>5. /\ Roots(m) \subseteq Marked(m)
      /\ \A c \in Marked(m) : Traced(m.heap[c]) \subseteq Marked(m)
      /\ \A T \in SUBSET DOMAIN m.heap :
           Roots(m) \subseteq T /\ (\A c \in T : Traced(m.heap[c]) \subseteq T)
             => Marked(m) \subseteq T
  BY <1>1, <1>2, <1>4, MarkedFacts
<1> QED BY <1>1, <1>2, <1>3, <1>5

\* Two machines with the same stacks, globals, code and calls.
SameRoots(m, h) ==
  /\ h.stack = m.stack /\ h.uvs = m.uvs /\ h.globals = m.globals /\ h.frames = m.frames
  /\ h.current = m.current /\ h.ip = m.ip

\* The roots of another machine are sound when what they lead to stays.
LEMMA RootsKept ==
  ASSUME NEW w, NEW m, Solid(w, m), NEW h, SameRoots(m, h), Kept(m, h, Roots(m))
  PROVE  SoundRoots(h) /\ SoundCalls(h)
<1>1. DOMAIN m.heap \subseteq Cells /\ SoundRoots(m) /\ SoundCalls(m)
  BY DEF Solid, SoundHeap
<1>2. \A i \in 1 .. Len(m.stack) : IsValue(h, m.stack[i])
  <2> SUFFICES ASSUME NEW i \in 1 .. Len(m.stack) PROVE IsValue(h, m.stack[i])
    OBVIOUS
  <2>1. Fits(m, m.stack[i]) /\ m.stack[i].type \in ValueTypes
    BY <1>1 DEF SoundRoots, IsValue
  <2>2. Kept(m, h, Traced(m.stack[i]))
    BY RootsInUse DEF Kept
  <2> QED BY <1>1, <2>1, <2>2, FitsKept DEF IsValue
<1>3. \A k \in DOMAIN m.globals : IsOf(h, m.globals[k], ValueTypes)
  BY <1>1, RootsInUse, KeptOf DEF SoundRoots
<1>4. MayBe(h, m.current, {"bytecode"})
  <2>1. "bytecode" \notin ValueTypes
    BY DEF ValueTypes
  <2> QED BY <1>1, <2>1, RootsInUse, KeptOf DEF SoundRoots, MayBe
<1>5. SoundRoots(h)
  <2>1. ASSUME NEW i \in 1 .. Len(m.uvs) PROVE MayBe(h, m.uvs[i], {"upvalue"})
    <3>1. MayBe(m, m.uvs[i], {"upvalue"}) /\ "upvalue" \notin ValueTypes
      BY <1>1 DEF SoundRoots, ValueTypes
    <3>2. m.uvs[i] # Null => m.uvs[i] \in Roots(m)
      BY RootsInUse
    <3> QED BY <3>1, <3>2, KeptOf DEF MayBe
  <2>2. h.stack = m.stack /\ h.uvs = m.uvs /\ h.globals = m.globals /\ h.current = m.current
    BY DEF SameRoots
  <2> QED BY <1>1, <1>2, <1>3, <1>4, <2>1, <2>2 DEF SoundRoots
<1>6. \A n, code : RunsIn(h, n, code) <=> RunsIn(m, n, code)
  BY DEF SameRoots, RunsIn
<1>7. SoundCalls(h)
  <2>1. /\ h.frames = m.frames /\ h.stack = m.stack /\ h.uvs = m.uvs
        /\ h.current = m.current /\ h.ip = m.ip
    BY DEF SameRoots
  <2> QED BY <1>1, <1>6, <2>1 DEF SoundCalls
<1> QED BY <1>5, <1>7

\* A collection keeps what it marks and frees the rest.
LEMMA SolidCollected ==
  ASSUME NEW w, NEW m, Solid(w, m)
  PROVE  /\ Solid(w, Collected(m)) /\ InUse(Collected(m)) = Marked(m)
         /\ \A c \in Marked(m) : Collected(m).heap[c] = m.heap[c]
         /\ SameRoots(m, Collected(m))
         /\ Collected(m).status = m.status /\ Collected(m).types = m.types
<1> DEFINE h == Collected(m)
<1>1. /\ DOMAIN m = Fields /\ DOMAIN m.heap \subseteq Cells
      /\ \A c \in InUse(m) : /\ Fits(m, m.heap[c])
                             /\ m.heap[c].type = "internalVector" /\ c # w
                                  => m.heap[c].initialized
  BY DEF Solid, SoundHeap
<1>2. /\ Roots(m) \subseteq Marked(m) /\ Marked(m) \subseteq InUse(m)
      /\ \A c \in Marked(m) : Traced(m.heap[c]) \subseteq Marked(m)
  BY MarkedInUse
<1>3. /\ DOMAIN h = Fields /\ SameRoots(m, h) /\ h.status = m.status /\ h.types = m.types
      /\ h.free = DOMAIN m.heap \ Marked(m)
      /\ h.heap = [c \in DOMAIN m.heap |-> IF c \in Marked(m) THEN m.heap[c] ELSE Blank]
  BY <1>1 DEF Collected, Sweep, Fields, SameRoots
<1> HIDE DEF h
<1>4. /\ InUse(h) = Marked(m)
      /\ \A c \in Marked(m) : h.heap[c] = m.heap[c]
  BY <1>2, <1>3 DEF InUse
<1>5. Kept(m, h, Marked(m)) /\ Kept(m, h, Roots(m))
  BY <1>2, <1>4 DEF Kept, Alike
<1>6. \A c \in Marked(m) : Fits(h, m.heap[c])
  <2> SUFFICES ASSUME NEW c \in Marked(m) PROVE Fits(h, m.heap[c])
    OBVIOUS
  <2>1. Kept(m, h, Traced(m.heap[c]))
    BY <1>2, <1>5 DEF Kept
  <2> QED BY <1>1, <1>2, <2>1, FitsKept
<1>7. SoundHeap(w, h)
  BY <1>1, <1>2, <1>3, <1>4, <1>6 DEF SoundHeap
<1>8. SoundRoots(h) /\ SoundCalls(h)
  BY <1>3, <1>5, RootsKept
<1> QED BY <1>3, <1>4, <1>7, <1>8 DEF Solid, h

LEMMA CollectedSound ==
  ASSUME NEW w, NEW m, Sound(w, m)
  PROVE  /\ Sound(w, Collected(m)) /\ InUse(Collected(m)) = Marked(m)
         /\ \A c \in Marked(m) : Collected(m).heap[c] = m.heap[c]
         /\ SameRoots(m, Collected(m))
         /\ Collected(m).status = m.status /\ Collected(m).types = m.types
<1> DEFINE h == Collected(m)
<1>1. Solid(w, m)
  BY DEF Sound, Solid
<1>2. /\ Solid(w, h) /\ InUse(h) = Marked(m) /\ SameRoots(m, h)
      /\ \A c \in Marked(m) : h.heap[c] = m.heap[c]
      /\ h.status = m.status /\ h.types = m.types
  BY <1>1, SolidCollected
<1> HIDE DEF h
<1>3. /\ Roots(m) \subseteq Marked(m) /\ Marked(m) \subseteq InUse(m)
      /\ \A c \in Marked(m) : Traced(m.heap[c]) \subseteq Marked(m)
      /\ \A k \in DOMAIN m.globals : m.globals[k] \in Roots(m)
  BY <1>1, RootsInUse, MarkedInUse
<1>4. ASSUME NEW c \in Marked(m), m.heap[c].type = "upvalue", m.heap[c].kind = "object"
      PROVE  m.heap[c].target \in Marked(m)
  <2>1. IsOf(m, m.heap[c].target, ValueTypes) /\ Null \notin InUse(m)
    BY <1>3, <1>4 DEF Sound, SoundHeap, Fits, FitsUpvalue, InUse, Cells, Null
  <2> QED BY <1>3, <1>4, <2>1, TracedFacts DEF IsOf
<1>5. SoundUpvalues(h) /\ Keeps(h)
  <2>1. h.stack = m.stack /\ h.uvs = m.uvs /\ h.globals = m.globals
    BY <1>2 DEF SameRoots
  <2>2. SoundUpvalues(m) /\ Keeps(m)
    BY DEF Sound
  <2>3. \A k \in DOMAIN m.globals : h.heap[m.globals[k]] = m.heap[m.globals[k]]
    BY <1>2, <1>3
  <2>4. \A c \in InUse(h) :
          h.heap[c].type = "upvalue" =>
            /\ c \in InUse(m) /\ h.heap[c] = m.heap[c]
            /\ h.heap[c].kind \in {"stack", "object", "upvalue"}
            /\ h.heap[c].kind = "object" => h.heap[h.heap[c].target] = m.heap[h.heap[c].target]
            /\ h.heap[c].kind = "stack" =>
                 /\ h.heap[c].target \in 1 .. Len(h.uvs)
                 /\ h.uvs[h.heap[c].target] = m.uvs[h.heap[c].target]
                 /\ h.stack[h.heap[c].target] = m.stack[h.heap[c].target]
    <3>1. \A c \in InUse(h) : h.heap[c].type = "upvalue"
                                => h.heap[c].kind \in {"stack", "object", "upvalue"}
      BY <1>2 DEF Solid, SoundHeap, Fits, FitsUpvalue
    <3> QED BY <1>2, <1>3, <1>4, <2>1, <2>2, <3>1 DEF SoundUpvalues
  <2> QED BY <2>1, <2>2, <2>3, <2>4, UpvaluesKept
<1> QED BY <1>2, <1>5 DEF Sound, Solid, h

-----------------------------------------------------------------------------
(* Steps of an instruction.                                                *)

\* A machine whose roots are the same, and whose heap holds what fitted the
\* old one.
LEMMA HeapChanged ==
  ASSUME NEW w, NEW m, Solid(w, m), NEW v, NEW h,
         DOMAIN h = Fields, SameRoots(m, h),
         DOMAIN h.heap \subseteq Cells, h.free \subseteq DOMAIN h.heap,
         \A c \in h.free : h.heap[c] = Blank,
         Kept(m, h, InUse(m)),
         \A c \in InUse(h) :
           /\ Fits(m, h.heap[c])
           /\ h.heap[c].type = "internalVector" /\ c # v => h.heap[c].initialized
  PROVE  Solid(v, h)
<1>1. DOMAIN m.heap \subseteq Cells
  BY DEF Solid, SoundHeap
<1>2. \A c \in InUse(h) : Fits(h, h.heap[c])
  <2> SUFFICES ASSUME NEW c \in InUse(h) PROVE Fits(h, h.heap[c])
    OBVIOUS
  <2>1. Traced(h.heap[c]) \subseteq InUse(m)
    BY <1>1, FitsTraced
  <2>2. Kept(m, h, Traced(h.heap[c]))
    BY <2>1 DEF Kept
  <2> QED BY <1>1, <2>2, FitsKept
<1>3. SoundHeap(v, h)
  BY <1>2 DEF SoundHeap
<1>4. Kept(m, h, Roots(m))
  BY RootsInUse DEF Kept
<1>5. SoundRoots(h) /\ SoundCalls(h)
  BY <1>4, RootsKept
<1> QED BY <1>3, <1>5 DEF Solid

SameHeap(m, h) == DOMAIN h = Fields /\ h.heap = m.heap /\ h.free = m.free

\* The status, the number of types and the last cell do not matter.
LEMMA SoundSame ==
  ASSUME NEW w, NEW m, Sound(w, m), NEW h, SameHeap(m, h), SameRoots(m, h)
  PROVE  Sound(w, h)
<1>1. SoundHeap(w, m) /\ Solid(w, m) /\ SoundUpvalues(m) /\ Keeps(m)
  BY DEF Sound, Solid
<1>2. InUse(h) = InUse(m) /\ h.heap = m.heap /\ h.free = m.free /\ DOMAIN h = Fields
  BY DEF InUse, SameHeap
<1>3. Kept(m, h, InUse(m))
  BY <1>2 DEF Kept, Alike
<1>4. Solid(w, h)
  BY <1>1, <1>2, <1>3, HeapChanged DEF SoundHeap
<1>5. SoundUpvalues(h) /\ Keeps(h)
  BY <1>1, <1>2 DEF SameRoots, SoundUpvalues, Ranked, Keeps, Content
<1> QED BY <1>4, <1>5 DEF Sound, Solid

\* One more vector may be being filled than there is.
LEMMA SoundWeaker ==
  ASSUME NEW m, Sound(Null, m), NEW v
  PROVE  Sound(v, m)
<1>1. \A c \in InUse(m) : c # Null
  BY DEF Sound, SoundHeap, InUse, Cells, Null
<1> QED BY <1>1 DEF Sound, SoundHeap

\* An object in use is replaced by one of the same type and size.
LEMMA CellChanged ==
  ASSUME NEW w, NEW m, Sound(w, m), NEW c \in InUse(m), NEW o, NEW v,
         Fits(m, o), Alike(m.heap[c], o), v = w \/ (v = Null /\ c = w),
         o = m.heap[c] \/ m.heap[c].type \notin ValueTypes \cup {"upvalue"},
         o.type = "internalVector" => o.initialized,
         NEW h, DOMAIN h = Fields, SameRoots(m, h), h.free = m.free,
         h.heap = [m.heap EXCEPT ![c] = o]
  PROVE  Sound(v, h)
<1>1. SoundHeap(w, m) /\ DOMAIN m.heap \subseteq Cells /\ m.free \subseteq DOMAIN m.heap
  BY DEF Sound, SoundHeap
<1>2. /\ DOMAIN h.heap = DOMAIN m.heap /\ InUse(h) = InUse(m)
      /\ \A d \in DOMAIN m.heap : h.heap[d] = IF d = c THEN o ELSE m.heap[d]
  BY DEF InUse
<1>3. c \in DOMAIN m.heap /\ c \notin m.free
  BY DEF InUse
<1>4. \A d \in h.free : h.heap[d] = Blank
  BY <1>1, <1>2, <1>3 DEF SoundHeap
<1>5. Kept(m, h, InUse(m))
  BY <1>2 DEF Kept, Alike, InUse
<1>6. \A d \in InUse(h) :
        /\ Fits(m, h.heap[d])
        /\ h.heap[d].type = "internalVector" /\ d # v => h.heap[d].initialized
  BY <1>1, <1>2 DEF SoundHeap, InUse
<1>7. Solid(w, m) /\ SoundUpvalues(m) /\ Keeps(m)
  BY DEF Sound, Solid
<1>8. Solid(v, h)
  BY <1>1, <1>2, <1>4, <1>5, <1>6, <1>7, HeapChanged
<1>9. h.stack = m.stack /\ h.uvs = m.uvs /\ h.globals = m.globals
  BY DEF SameRoots
<1>10. ASSUME NEW d, IsOf(m, d, ValueTypes)
       PROVE  h.heap[d] = m.heap[d]
  BY <1>2, <1>10 DEF IsOf, InUse
<1>11. \A k \in DOMAIN m.globals : h.heap[m.globals[k]] = m.heap[m.globals[k]]
  BY <1>7, <1>10 DEF Solid, SoundRoots
<1>12. \A d \in InUse(h) :
         h.heap[d].type = "upvalue" =>
           /\ d \in InUse(m) /\ h.heap[d] = m.heap[d]
           /\ h.heap[d].kind \in {"stack", "object", "upvalue"}
           /\ h.heap[d].kind = "object" => h.heap[h.heap[d].target] = m.heap[h.heap[d].target]
           /\ h.heap[d].kind = "stack" =>
                /\ h.heap[d].target \in 1 .. Len(h.uvs)
                /\ h.uvs[h.heap[d].target] = m.uvs[h.heap[d].target]
                /\ h.stack[h.heap[d].target] = m.stack[h.heap[d].target]
  <2> SUFFICES ASSUME NEW d \in InUse(h), h.heap[d].type = "upvalue"
               PROVE  /\ d \in InUse(m) /\ h.heap[d] = m.heap[d]
                      /\ h.heap[d].kind \in {"stack", "object", "upvalue"}
                      /\ h.heap[d].kind = "object" => IsOf(m, h.heap[d].target, ValueTypes)
                      /\ h.heap[d].kind = "stack" => h.heap[d].target \in 1 .. Len(m.uvs)
    BY <1>9, <1>10
  <2>1. d \in InUse(m) /\ h.heap[d] = m.heap[d]
    BY <1>2 DEF Alike, InUse
  <2>2. /\ m.heap[d].kind \in {"stack", "object", "upvalue"}
        /\ m.heap[d].kind = "object" => IsOf(m, m.heap[d].target, ValueTypes)
    BY <1>1, <2>1 DEF SoundHeap, Fits, FitsUpvalue
  <2>3. m.heap[d].kind = "stack" => m.heap[d].target \in 1 .. Len(m.uvs)
    BY <1>7, <2>1 DEF SoundUpvalues
  <2> QED BY <2>1, <2>2, <2>3
<1>13. SoundUpvalues(h) /\ Keeps(h)
  BY <1>7, <1>9, <1>11, <1>12, UpvaluesKept
<1> QED BY <1>8, <1>13 DEF Sound, Solid


-----------------------------------------------------------------------------
(* The stacks.                                                             *)

\* Where the slots of the function at depth n of the call stack begin.
BaseAt(m, n) == IF n = 0 THEN 0 ELSE m.frames[n].base

LEMMA SolidBase ==
  ASSUME NEW w, NEW m, Solid(w, m)
  PROVE  /\ Base(m) = BaseAt(m, Len(m.frames)) /\ Len(m.frames) \in Nat
         /\ Base(m) \in 0 .. Len(m.stack) /\ Len(m.stack) \in Nat
         /\ Base(m) \in 0 .. Len(m.uvs) /\ Len(m.uvs) \in Nat /\ Len(m.uvs) <= Len(m.stack)
         /\ Base(m) = 0 => m.frames = << >>
         /\ m.frames # << >> => Len(m.frames) > 0
         /\ \A n \in 0 .. Len(m.frames) : BaseAt(m, n) \in 0 .. Len(m.stack)
         /\ \A n \in 1 .. Len(m.frames) :
              m.frames[n].base \in 1 .. Base(m) /\ m.uvs[m.frames[n].base] = Null
         /\ \A n \in 1 .. Len(m.frames) : \A j \in 1 .. n : m.frames[j].base <= BaseAt(m, n)
<1>1. /\ IsSeq(m.frames) /\ IsSeq(m.stack) /\ IsSeq(m.uvs)
      /\ Len(m.uvs) <= Len(m.stack)
  BY DEF Solid, SoundCalls, SoundRoots
<1>2. /\ Len(m.frames) \in Nat /\ Len(m.stack) \in Nat /\ Len(m.uvs) \in Nat
      /\ (m.frames = << >> <=> Len(m.frames) = 0)
  <2>1. PICK S : m.frames \in Seq(S)
    BY <1>1 DEF IsSeq
  <2> QED BY <1>1, <2>1, EmptySeq, SeqDomain
<1>3. \A k \in 1 .. Len(m.frames) :
        /\ m.frames[k].base \in 1 .. Len(m.stack)
        /\ m.frames[k].base \in 1 .. Len(m.uvs) /\ m.uvs[m.frames[k].base] = Null
        /\ \A j \in 1 .. k - 1 : m.frames[j].base < m.frames[k].base
  BY DEF Solid, SoundCalls
<1>4. Base(m) = BaseAt(m, Len(m.frames))
  BY <1>2 DEF Base, BaseAt, Last
<1>5. \A n \in 0 .. Len(m.frames) : BaseAt(m, n) \in 0 .. Len(m.stack)
  BY <1>2, <1>3 DEF BaseAt
<1>6. \A n \in 1 .. Len(m.frames) : \A j \in 1 .. n : m.frames[j].base <= BaseAt(m, n)
  <2> SUFFICES ASSUME NEW n \in 1 .. Len(m.frames), NEW j \in 1 .. n
               PROVE  m.frames[j].base <= m.frames[n].base
    BY <1>2 DEF BaseAt
  <2>1. n \in Nat /\ j \in Nat /\ (j = n \/ j \in 1 .. n - 1)
    BY <1>2
  <2>2. m.frames[n].base \in Nat
    BY <1>2, <1>3
  <2> QED BY <1>2, <1>3, <2>1, <2>2
<1>7. Base(m) = 0 => m.frames = << >>
  BY <1>2, <1>3, <1>4 DEF BaseAt
<1>8. Base(m) \in 0 .. Len(m.uvs)
  BY <1>2, <1>3, <1>4 DEF BaseAt
<1>9. \A n \in 1 .. Len(m.frames) : m.frames[n].base \in 1 .. Base(m)
  <2> SUFFICES ASSUME NEW n \in 1 .. Len(m.frames) PROVE m.frames[n].base \in 1 .. Base(m)
    OBVIOUS
  <2>1. Len(m.frames) \in 1 .. Len(m.frames) /\ n \in 1 .. Len(m.frames)
    BY <1>2
  <2>2. m.frames[n].base <= Base(m) /\ m.frames[n].base \in 1 .. Len(m.stack)
    BY <1>3, <1>4, <1>6, <2>1
  <2> QED BY <1>2, <1>8, <2>2
<1>10. Base(m) \in 0 .. Len(m.stack)
  BY <1>2, <1>4, <1>5
<1>11. m.frames # << >> => Len(m.frames) > 0
  BY <1>2
<1>12. \A n \in 1 .. Len(m.frames) :
         m.frames[n].base \in 1 .. Base(m) /\ m.uvs[m.frames[n].base] = Null
  BY <1>3, <1>9
<1> QED BY <1>1, <1>2, <1>4, <1>5, <1>6, <1>7, <1>8, <1>10, <1>11, <1>12, Zenon

LEMMA BaseFacts ==
  ASSUME NEW w, NEW m, Sound(w, m)
  PROVE  /\ Base(m) = BaseAt(m, Len(m.frames)) /\ Len(m.frames) \in Nat
         /\ Base(m) \in 0 .. Len(m.stack) /\ Len(m.stack) \in Nat
         /\ Base(m) \in 0 .. Len(m.uvs) /\ Len(m.uvs) \in Nat /\ Len(m.uvs) <= Len(m.stack)
         /\ Base(m) = 0 => m.frames = << >>
         /\ m.frames # << >> => Len(m.frames) > 0
         /\ \A n \in 0 .. Len(m.frames) : BaseAt(m, n) \in 0 .. Len(m.stack)
         /\ \A n \in 1 .. Len(m.frames) :
              m.frames[n].base \in 1 .. Base(m) /\ m.uvs[m.frames[n].base] = Null
         /\ \A n \in 1 .. Len(m.frames) : \A j \in 1 .. n : m.frames[j].base <= BaseAt(m, n)
BY SolidBase DEF Sound, Solid

\* The stacks change above the slots of the function at depth n, and the
\* calls that it made are left.
LEMMA StackSolid ==
  ASSUME NEW w, NEW m, Solid(w, m), NEW n \in 0 .. Len(m.frames), NEW h,
         SameHeap(m, h), h.globals = m.globals, h.current = m.current,
         IsSeq(h.frames), Len(h.frames) = n, \A k \in 1 .. n : h.frames[k] = m.frames[k],
         RunsIn(m, n, h.ip),
         IsSeq(h.stack), IsSeq(h.uvs),
         \A i \in 1 .. Len(h.stack) : IsValue(m, h.stack[i]),
         \A i \in 1 .. Len(h.uvs) : MayBe(m, h.uvs[i], {"upvalue"}),
         Len(h.uvs) >= BaseAt(m, n), Len(h.uvs) <= Len(h.stack),
         \A k \in 1 .. n : h.uvs[m.frames[k].base] = Null,
         Len(h.stack) >= BaseAt(m, n),
         \A k \in 1 .. n : h.stack[m.frames[k].base] = m.stack[m.frames[k].base]
  PROVE  Solid(w, h)
<1>1. SoundHeap(w, m) /\ SoundRoots(m) /\ SoundCalls(m) /\ DOMAIN m.heap \subseteq Cells
  BY DEF Solid, SoundHeap
<1>2. InUse(h) = InUse(m) /\ h.heap = m.heap /\ h.free = m.free /\ DOMAIN h = Fields
  BY DEF InUse, SameHeap
<1>3. \A o : Fits(m, o) => Fits(h, o)
  <2> SUFFICES ASSUME NEW o, Fits(m, o) PROVE Fits(h, o)
    OBVIOUS
  <2>1. Kept(m, h, Traced(o))
    BY <1>1, <1>2, FitsTraced DEF Kept, Alike
  <2> QED BY <1>1, <2>1, FitsKept
<1>4. SoundHeap(w, h)
  BY <1>1, <1>2, <1>3 DEF SoundHeap
<1>5. SoundRoots(h)
  BY <1>1, <1>2, <1>3 DEF SoundRoots, IsValue, IsOf, MayBe
<1>6. /\ n \in Nat /\ Len(m.frames) \in Nat /\ n <= Len(m.frames)
      /\ Len(m.stack) \in Nat /\ Len(h.stack) \in Nat
      /\ BaseAt(m, n) \in Nat
      /\ \A j \in 1 .. n : m.frames[j].base \in 1 .. BaseAt(m, n)
  <2>1. Len(m.frames) \in Nat /\ n \in Nat /\ n <= Len(m.frames)
    BY SolidBase
  <2>2. \A j \in 1 .. n : m.frames[j].base \in 1 .. Len(m.stack)
    BY <1>1, <2>1 DEF SoundCalls
  <2>3. BaseAt(m, n) \in Nat /\ \A j \in 1 .. n : m.frames[j].base <= BaseAt(m, n)
    BY <2>1, SolidBase
  <2>4. Len(m.stack) \in Nat /\ Len(h.stack) \in Nat
    BY <1>1, SeqDomain DEF SoundRoots
  <2> QED BY <2>1, <2>2, <2>3, <2>4
<1>7. \A j \in 1 .. n : h.stack[h.frames[j].base] = m.stack[m.frames[j].base]
  BY <1>6
<1>8. \A k \in 0 .. n : \A code : RunsIn(m, k, code) => RunsIn(h, k, code)
  <2> SUFFICES ASSUME NEW k \in 0 .. n, NEW code, RunsIn(m, k, code) PROVE RunsIn(h, k, code)
    OBVIOUS
  <2>1. \A j \in 1 .. k : j \in 1 .. n
    BY <1>6
  <2> QED BY <1>7, <2>1 DEF RunsIn
<1>9. SoundCalls(h)
  <2>1. RunsIn(h, Len(h.frames), h.ip)
    BY <1>6, <1>8
  <2>2. ASSUME NEW k \in 1 .. n
        PROVE  /\ h.frames[k].bytecode = h.current /\ RunsIn(h, k - 1, h.frames[k].ip)
               /\ h.frames[k].base \in 1 .. Len(h.stack)
               /\ h.frames[k].base \in 1 .. Len(h.uvs) /\ h.uvs[h.frames[k].base] = Null
               /\ \A j \in 1 .. k - 1 : h.frames[j].base < h.frames[k].base
               /\ h.frames[k].upvalues # Null =>
                    /\ h.stack[h.frames[k].base].type = "closure"
                    /\ h.stack[h.frames[k].base].upvalue_array = h.frames[k].upvalues
    <3>1. k \in 1 .. Len(m.frames) /\ k - 1 \in 0 .. n /\ \A j \in 1 .. k - 1 : j \in 1 .. n
      BY <1>6
    <3>2. /\ m.frames[k].bytecode = m.current /\ RunsIn(m, k - 1, m.frames[k].ip)
          /\ \A j \in 1 .. k - 1 : m.frames[j].base < m.frames[k].base
          /\ m.frames[k].upvalues # Null =>
               /\ m.stack[m.frames[k].base].type = "closure"
               /\ m.stack[m.frames[k].base].upvalue_array = m.frames[k].upvalues
      BY <1>1, <3>1 DEF SoundCalls
    <3>3. /\ h.frames[k].base \in 1 .. Len(h.stack)
          /\ h.frames[k].base \in 1 .. Len(h.uvs) /\ h.uvs[h.frames[k].base] = Null
      <4>1. h.frames[k] = m.frames[k] /\ m.frames[k].base \in 1 .. BaseAt(m, n)
        BY <1>6
      <4>2. /\ BaseAt(m, n) \in Nat /\ Len(h.stack) \in Nat /\ Len(h.stack) >= BaseAt(m, n)
            /\ Len(h.uvs) \in Nat /\ Len(h.uvs) >= BaseAt(m, n)
        BY <1>6, SeqDomain
      <4> HIDE <1>6
      <4> QED BY <4>1, <4>2
    <3>4. RunsIn(h, k - 1, h.frames[k].ip)
      BY <1>8, <3>1, <3>2
    <3>5. /\ \A j \in 1 .. k - 1 : h.frames[j].base < h.frames[k].base
          /\ h.stack[h.frames[k].base] = m.stack[m.frames[k].base]
      BY <1>7, <3>1, <3>2
    <3> QED BY <3>2, <3>3, <3>4, <3>5
  <2> QED BY <2>1, <2>2 DEF SoundCalls
<1> QED BY <1>4, <1>5, <1>9 DEF Solid

\* A place on the stack whose variable is captured and not yet released.
Opens(m, i) ==
  i \in DOMAIN m.uvs /\ m.uvs[i] # Null /\ m.heap[m.uvs[i]] = Upvalue("stack", i)

\* Captured variables stay when the places that are open stay.
LEMMA OpenKept ==
  ASSUME NEW w, NEW m, Sound(w, m), NEW h, SameHeap(m, h), h.globals = m.globals,
         \A i : Opens(m, i) =>
           i \in 1 .. Len(h.uvs) /\ h.uvs[i] = m.uvs[i] /\ h.stack[i] = m.stack[i]
  PROVE  SoundUpvalues(h) /\ Keeps(h)
<1>1. SoundUpvalues(m) /\ Keeps(m) /\ SoundHeap(w, m) /\ SoundRoots(m)
  BY DEF Sound
<1>2. InUse(h) = InUse(m) /\ h.heap = m.heap
  BY DEF InUse, SameHeap
<1>3. ASSUME NEW c \in InUse(m), m.heap[c].type = "upvalue"
      PROVE  /\ m.heap[c].kind \in {"stack", "object", "upvalue"}
             /\ m.heap[c].kind = "stack" => Opens(m, m.heap[c].target)
  <2>1. /\ m.heap[c] = Upvalue(m.heap[c].kind, m.heap[c].target)
        /\ m.heap[c].kind \in {"stack", "object", "upvalue"}
    BY <1>1, <1>3 DEF SoundHeap, Fits, FitsUpvalue
  <2>2. ASSUME m.heap[c].kind = "stack"
        PROVE  Opens(m, m.heap[c].target)
    <3>1. m.heap[c].target \in 1 .. Len(m.uvs) /\ m.uvs[m.heap[c].target] = c
      BY <1>1, <1>3, <2>2 DEF SoundUpvalues
    <3>2. c # Null
      BY <1>1 DEF SoundHeap, InUse, Cells, Null
    <3> QED BY <1>1, <2>1, <2>2, <3>1, <3>2, SeqDomain DEF SoundRoots, Opens
  <2> QED BY <2>1, <2>2
<1>4. \A k \in DOMAIN m.globals : h.heap[m.globals[k]] = m.heap[m.globals[k]]
  BY <1>2
<1>5. \A c \in InUse(h) :
        h.heap[c].type = "upvalue" =>
          /\ c \in InUse(m) /\ h.heap[c] = m.heap[c]
          /\ h.heap[c].kind \in {"stack", "object", "upvalue"}
          /\ h.heap[c].kind = "object" => h.heap[h.heap[c].target] = m.heap[h.heap[c].target]
          /\ h.heap[c].kind = "stack" =>
               /\ h.heap[c].target \in 1 .. Len(h.uvs)
               /\ h.uvs[h.heap[c].target] = m.uvs[h.heap[c].target]
               /\ h.stack[h.heap[c].target] = m.stack[h.heap[c].target]
  BY <1>2, <1>3
<1> QED BY <1>1, <1>4, <1>5, UpvaluesKept

SameCalls(m, h) == h.frames = m.frames /\ h.current = m.current /\ h.ip = m.ip
Aligned(m) == Len(m.stack) = Len(m.uvs)

\* The running function's slots change.
LEMMA SlotsSolid ==
  ASSUME NEW w, NEW m, Solid(w, m), NEW h,
         SameHeap(m, h), h.globals = m.globals, SameCalls(m, h),
         IsSeq(h.stack), IsSeq(h.uvs),
         \A i \in 1 .. Len(h.stack) : IsValue(m, h.stack[i]),
         \A i \in 1 .. Len(h.uvs) : MayBe(m, h.uvs[i], {"upvalue"}),
         Len(h.uvs) >= Base(m), Len(h.uvs) <= Len(h.stack),
         \A i \in 1 .. Base(m) : h.stack[i] = m.stack[i],
         \A i \in 1 .. Base(m) : m.uvs[i] = Null => h.uvs[i] = Null
  PROVE  Solid(w, h)
<1>1. /\ Base(m) = BaseAt(m, Len(m.frames)) /\ Len(m.frames) \in 0 .. Len(m.frames)
      /\ Base(m) \in Nat /\ Len(h.stack) \in Nat /\ Len(h.uvs) \in Nat
      /\ Len(h.stack) >= Base(m)
      /\ \A n \in 1 .. Len(m.frames) :
           m.frames[n].base \in 1 .. Base(m) /\ m.uvs[m.frames[n].base] = Null
  BY SolidBase, SeqDomain
<1>2. IsSeq(h.frames) /\ RunsIn(m, Len(m.frames), h.ip)
  BY DEF Solid, SoundCalls, SameCalls
<1>3. h.current = m.current /\ h.frames = m.frames
  BY DEF SameCalls
<1>4. \A k \in 1 .. Len(m.frames) :
        /\ h.uvs[m.frames[k].base] = Null
        /\ h.stack[m.frames[k].base] = m.stack[m.frames[k].base]
  BY <1>1
<1> QED BY <1>1, <1>2, <1>3, <1>4, StackSolid

LEMMA SlotsChanged ==
  ASSUME NEW w, NEW m, Sound(w, m), NEW h,
         SameHeap(m, h), h.globals = m.globals, SameCalls(m, h),
         IsSeq(h.stack), IsSeq(h.uvs),
         \A i \in 1 .. Len(h.stack) : IsValue(m, h.stack[i]),
         \A i \in 1 .. Len(h.uvs) : MayBe(m, h.uvs[i], {"upvalue"}),
         Len(h.uvs) >= Base(m), Len(h.uvs) <= Len(h.stack),
         \A i \in 1 .. Base(m) : h.stack[i] = m.stack[i],
         \A i \in 1 .. Base(m) : h.uvs[i] = m.uvs[i],
         \A i : Opens(m, i) =>
           i \in 1 .. Len(h.uvs) /\ h.uvs[i] = m.uvs[i] /\ h.stack[i] = m.stack[i]
  PROVE  Sound(w, h)
<1>1. SoundUpvalues(h) /\ Keeps(h)
  BY OpenKept
<1>2. Solid(w, m)
  BY DEF Sound, Solid
<1>3. Solid(w, h)
  BY <1>2, SlotsSolid
<1> QED BY <1>1, <1>3 DEF Sound, Solid

\* What the machine has and what an instruction may count on.
LEMMA SoundFacts ==
  ASSUME NEW w, NEW m, Sound(w, m)
  PROVE  /\ DOMAIN m = Fields /\ DOMAIN m.heap \subseteq Cells /\ m.free \subseteq DOMAIN m.heap
         /\ InUse(m) \subseteq DOMAIN m.heap /\ Null \notin InUse(m)
         /\ \A c \in InUse(m) : Fits(m, m.heap[c])
         /\ IsSeq(m.stack) /\ IsSeq(m.uvs) /\ Len(m.stack) \in Nat /\ Len(m.uvs) \in Nat
         /\ DOMAIN m.stack = 1 .. Len(m.stack) /\ DOMAIN m.uvs = 1 .. Len(m.uvs)
         /\ \A i \in 1 .. Len(m.stack) : IsValue(m, m.stack[i])
         /\ Len(m.uvs) <= Len(m.stack)
         /\ \A i \in 1 .. Len(m.uvs) : MayBe(m, m.uvs[i], {"upvalue"})
         /\ \A i : Opens(m, i) => i \in 1 .. Len(m.uvs) /\ i \in 1 .. Len(m.stack)
         /\ \A k \in DOMAIN m.globals : IsOf(m, m.globals[k], ValueTypes)
<1>1. Null \notin Cells
  BY DEF Null, Cells
<1>2. \A i : Opens(m, i) => i \in 1 .. Len(m.uvs) /\ i \in 1 .. Len(m.stack)
  BY SeqDomain DEF Sound, SoundRoots, Opens
<1> QED BY <1>1, <1>2, SeqDomain DEF Sound, SoundHeap, SoundRoots, InUse

\* A value is pushed, with its entry on the stack of upvalues or without.
LEMMA PushSound ==
  ASSUME NEW w, NEW m, Sound(w, m), NEW x, IsValue(m, x),
         NEW h, h = Push(m, x) \/ h = PushUntracked(m, x)
  PROVE  /\ Sound(w, h) /\ SameHeap(m, h) /\ SameCalls(m, h)
         /\ h.globals = m.globals /\ h.status = m.status /\ h.cell = m.cell
         /\ Ok(m) => /\ Len(h.stack) = Len(m.stack) + 1 /\ h.stack[Len(m.stack) + 1] = x
                     /\ \A i \in 1 .. Len(m.stack) : h.stack[i] = m.stack[i]
         /\ \A i \in 1 .. Len(m.uvs) : h.uvs[i] = m.uvs[i]
         /\ h = Push(m, x) /\ Ok(m) =>
              Len(h.uvs) = Len(m.uvs) + 1 /\ h.uvs[Len(m.uvs) + 1] = Null
         /\ h = PushUntracked(m, x) => h.uvs = m.uvs
<1>1. DOMAIN m = Fields
  BY SoundFacts
<1>2. CASE ~Ok(m)
  <2>1. h = m
    BY <1>2 DEF Push, PushUntracked
  <2> QED BY <1>1, <1>2, <2>1 DEF SameHeap, SameCalls
<1>3. CASE Ok(m)
  <2>1. /\ SameHeap(m, h) /\ SameCalls(m, h) /\ h.globals = m.globals
        /\ h.status = m.status /\ h.cell = m.cell /\ h.stack = Append(m.stack, x)
        /\ h.uvs \in {m.uvs, Append(m.uvs, Null)}
        /\ h = PushUntracked(m, x) => h.uvs = m.uvs
    BY <1>1, <1>3 DEF Push, PushUntracked, SameHeap, SameCalls, Fields
  <2>2. h = Push(m, x) => h.uvs = Append(m.uvs, Null)
    BY <1>1, <1>3 DEF Push, Fields
  <2>3. /\ IsSeq(h.stack) /\ Len(h.stack) = Len(m.stack) + 1
        /\ h.stack[Len(m.stack) + 1] = x
        /\ \A i \in 1 .. Len(m.stack) : h.stack[i] = m.stack[i]
    BY <2>1, SoundFacts, SeqAppend
  <2>4. /\ IsSeq(Append(m.uvs, Null)) /\ Len(Append(m.uvs, Null)) = Len(m.uvs) + 1
        /\ Append(m.uvs, Null)[Len(m.uvs) + 1] = Null
        /\ \A i \in 1 .. Len(m.uvs) : Append(m.uvs, Null)[i] = m.uvs[i]
    BY SoundFacts, SeqAppend
  <2>5. /\ IsSeq(h.uvs) /\ \A i \in 1 .. Len(h.uvs) : MayBe(m, h.uvs[i], {"upvalue"})
        /\ Len(h.uvs) >= Len(m.uvs) /\ Len(h.uvs) <= Len(m.stack) + 1
        /\ \A i \in 1 .. Len(m.uvs) : h.uvs[i] = m.uvs[i]
    <3>1. CASE h.uvs = m.uvs
      BY <3>1, SoundFacts
    <3>2. CASE h.uvs = Append(m.uvs, Null)
      <4>1. Len(m.uvs) \in Nat /\ Len(m.stack) \in Nat /\ Len(m.uvs) <= Len(m.stack)
        BY SoundFacts
      <4>2. \A i \in 1 .. Len(h.uvs) : i \in 1 .. Len(m.uvs) \/ i = Len(m.uvs) + 1
        BY <2>4, <3>2, <4>1
      <4> QED BY <2>4, <3>2, <4>1, <4>2, SoundFacts DEF MayBe
    <3> QED BY <2>1, <3>1, <3>2
  <2>6. \A i \in 1 .. Len(h.stack) : IsValue(m, h.stack[i])
    <3>1. Len(m.stack) \in Nat
      BY SoundFacts
    <3>2. \A i \in 1 .. Len(h.stack) : i \in 1 .. Len(m.stack) \/ i = Len(m.stack) + 1
      BY <2>3, <3>1
    <3> QED BY <2>3, <3>2, SoundFacts
  <2>7. /\ Len(h.uvs) >= Base(m) /\ Len(h.uvs) <= Len(h.stack)
        /\ \A i \in 1 .. Base(m) : h.stack[i] = m.stack[i]
        /\ \A i \in 1 .. Base(m) : h.uvs[i] = m.uvs[i]
        /\ \A i \in 1 .. Len(m.uvs) : i \in 1 .. Len(h.uvs)
    <3>1. /\ Base(m) \in 0 .. Len(m.stack) /\ Len(m.stack) \in Nat
          /\ Base(m) \in 0 .. Len(m.uvs) /\ Len(m.uvs) \in Nat /\ Len(h.uvs) \in Nat
      BY <2>5, BaseFacts, SeqDomain
    <3> QED BY <2>3, <2>5, <3>1
  <2>8. \A i : Opens(m, i) =>
          i \in 1 .. Len(h.uvs) /\ h.uvs[i] = m.uvs[i] /\ h.stack[i] = m.stack[i]
    BY <2>3, <2>5, <2>7, SoundFacts
  <2>9. Sound(w, h)
    BY <2>1, <2>3, <2>5, <2>6, <2>7, <2>8, SlotsChanged
  <2> QED BY <1>3, <2>1, <2>2, <2>3, <2>4, <2>5, <2>9
<1> QED BY <1>2, <1>3

\* Values are popped from the running function's slots.
LEMMA PopSound ==
  ASSUME NEW w, NEW m, Sound(w, m), Aligned(m), NEW count \in 0 .. Len(m.stack) - Base(m),
         Released(m, 1 .. count)
  PROVE  /\ Sound(w, Pop(m, count)) /\ Aligned(Pop(m, count))
         /\ SameHeap(m, Pop(m, count)) /\ SameCalls(m, Pop(m, count))
         /\ Pop(m, count).status = m.status /\ Pop(m, count).globals = m.globals
         /\ Ok(m) => /\ Len(Pop(m, count).stack) = Len(m.stack) - count
                     /\ \A i \in 1 .. Len(m.stack) - count :
                          /\ Pop(m, count).stack[i] = m.stack[i]
                          /\ Pop(m, count).uvs[i] = m.uvs[i]
<1> DEFINE h == Pop(m, count)
<1>1. DOMAIN m = Fields
  BY SoundFacts
<1>2. CASE ~Ok(m)
  <2>1. h = m
    BY <1>2 DEF Pop
  <2> QED BY <1>1, <1>2, <2>1 DEF SameHeap, SameCalls
<1>3. CASE Ok(m)
  <2>1. /\ Len(m.stack) \in Nat /\ Len(m.uvs) = Len(m.stack) /\ Base(m) \in 0 .. Len(m.stack)
        /\ count \in Nat /\ Len(m.stack) - count \in 0 .. Len(m.stack)
        /\ Len(m.stack) - count >= Base(m)
    BY BaseFacts DEF Aligned
  <2>2. ~(Len(m.uvs) < count) /\ ~(Len(m.stack) < count)
    BY <2>1
  <2>3. h = [m EXCEPT !.uvs = SubSeq(@, 1, Len(@) - count),
                      !.stack = SubSeq(@, 1, Len(@) - count)]
    BY <1>3, <2>2 DEF Pop
  <2>4. /\ SameHeap(m, h) /\ SameCalls(m, h) /\ h.status = m.status /\ h.globals = m.globals
        /\ h.stack = SubSeq(m.stack, 1, Len(m.stack) - count)
        /\ h.uvs = SubSeq(m.uvs, 1, Len(m.stack) - count)
    BY <1>1, <2>1, <2>3 DEF SameHeap, SameCalls, Fields
  <2> HIDE DEF h
  <2>5. /\ IsSeq(h.stack) /\ Len(h.stack) = Len(m.stack) - count
        /\ \A i \in 1 .. Len(m.stack) - count : h.stack[i] = m.stack[i]
    BY <2>1, <2>4, SoundFacts, SeqCut
  <2>6. /\ IsSeq(h.uvs) /\ Len(h.uvs) = Len(m.stack) - count
        /\ \A i \in 1 .. Len(m.stack) - count : h.uvs[i] = m.uvs[i]
    BY <2>1, <2>4, SoundFacts, SeqCut
  <2>7. \A i \in 1 .. Len(m.stack) - count : i \in 1 .. Len(m.stack)
    BY <2>1
  <2>8. /\ \A i \in 1 .. Len(h.stack) : IsValue(m, h.stack[i])
        /\ \A i \in 1 .. Len(h.uvs) : MayBe(m, h.uvs[i], {"upvalue"})
    BY <2>1, <2>5, <2>6, <2>7, SoundFacts
  <2>9. /\ Len(h.uvs) >= Base(m) /\ Len(h.uvs) <= Len(h.stack)
        /\ \A i \in 1 .. Base(m) : h.stack[i] = m.stack[i]
        /\ \A i \in 1 .. Base(m) : h.uvs[i] = m.uvs[i]
    <3>1. /\ Len(h.uvs) = Len(m.stack) - count /\ Len(h.stack) = Len(m.stack) - count
          /\ \A i \in 1 .. Base(m) : i \in 1 .. Len(m.stack) - count
      BY <2>1, <2>5, <2>6
    <3>2. Len(h.uvs) >= Base(m) /\ Len(h.uvs) <= Len(h.stack)
      BY <2>1, <3>1
    <3> QED BY <2>5, <2>6, <3>1, <3>2, Zenon
  <2>10. ASSUME NEW i, Opens(m, i)
         PROVE  i \in 1 .. Len(h.uvs) /\ h.uvs[i] = m.uvs[i] /\ h.stack[i] = m.stack[i]
    <3>1. i \in 1 .. Len(m.stack)
      BY <2>10, SoundFacts
    <3>2. ASSUME ~(i \in 1 .. Len(m.stack) - count) PROVE FALSE
      <4>1. Len(m.stack) + 1 - i \in 1 .. count /\ Slot(m, Len(m.stack) + 1 - i) = i
        BY <2>1, <3>1, <3>2 DEF Slot
      <4> QED BY <2>10, <4>1 DEF Released, IsOpen, Opens
    <3> QED BY <2>5, <2>6, <3>2
  <2>11. Sound(w, h)
    BY <2>4, <2>5, <2>6, <2>8, <2>9, <2>10, SlotsChanged
  <2> QED BY <2>4, <2>5, <2>6, <2>11 DEF h, Aligned
<1> QED BY <1>2, <1>3

\* One of the running function's slots gets another value.
LEMMA SetAtSound ==
  ASSUME NEW w, NEW m, Sound(w, m), NEW j \in Own(m), ~IsOpen(m, j), NEW x, IsValue(m, x)
  PROVE  /\ Sound(w, SetAt(m, j, x)) /\ SameHeap(m, SetAt(m, j, x))
         /\ SameCalls(m, SetAt(m, j, x)) /\ SetAt(m, j, x).globals = m.globals
         /\ SetAt(m, j, x).status = m.status /\ SetAt(m, j, x).cell = m.cell
         /\ SetAt(m, j, x).uvs = m.uvs /\ Len(SetAt(m, j, x).stack) = Len(m.stack)
         /\ Ok(m) => \A i \in 1 .. Len(m.stack) :
                       SetAt(m, j, x).stack[i] = IF i = Slot(m, j) THEN x ELSE m.stack[i]
<1> DEFINE h == SetAt(m, j, x)
<1>1. DOMAIN m = Fields
  BY SoundFacts
<1>2. CASE ~Ok(m)
  <2>1. h = m
    BY <1>2 DEF SetAt
  <2> QED BY <1>1, <1>2, <2>1 DEF SameHeap, SameCalls
<1>3. CASE Ok(m)
  <2>1. /\ Len(m.stack) \in Nat /\ Base(m) \in 0 .. Len(m.stack)
        /\ Slot(m, j) \in Base(m) + 1 .. Len(m.stack) /\ Slot(m, j) \in 1 .. Len(m.stack)
    BY BaseFacts DEF Own, Slot
  <2>2. /\ SameHeap(m, h) /\ SameCalls(m, h) /\ h.status = m.status /\ h.globals = m.globals
        /\ h.cell = m.cell /\ h.uvs = m.uvs /\ h.stack = [m.stack EXCEPT ![Slot(m, j)] = x]
    BY <1>1, <1>3 DEF SetAt, SameHeap, SameCalls, Fields
  <2> HIDE DEF h
  <2>3. /\ IsSeq(h.stack) /\ Len(h.stack) = Len(m.stack)
        /\ \A i \in 1 .. Len(m.stack) : h.stack[i] = IF i = Slot(m, j) THEN x ELSE m.stack[i]
    BY <2>1, <2>2, SoundFacts, SeqChange
  <2>4. /\ \A i \in 1 .. Len(h.stack) : IsValue(m, h.stack[i])
        /\ \A i \in 1 .. Len(h.uvs) : MayBe(m, h.uvs[i], {"upvalue"})
        /\ IsSeq(h.uvs)
    BY <2>2, <2>3, SoundFacts
  <2>5. /\ Len(h.uvs) >= Base(m) /\ Len(h.uvs) <= Len(h.stack)
        /\ \A i \in 1 .. Base(m) : h.stack[i] = m.stack[i]
        /\ \A i \in 1 .. Base(m) : h.uvs[i] = m.uvs[i]
    BY <2>1, <2>2, <2>3, BaseFacts
  <2>6. \A i : Opens(m, i) =>
          i \in 1 .. Len(h.uvs) /\ h.uvs[i] = m.uvs[i] /\ h.stack[i] = m.stack[i]
    <3>1. ~Opens(m, Slot(m, j))
      BY DEF IsOpen, Opens
    <3> QED BY <2>2, <2>3, <3>1, SoundFacts
  <2>7. Sound(w, h)
    BY <2>2, <2>3, <2>4, <2>5, <2>6, SlotsChanged
  <2> QED BY <2>2, <2>3, <2>7 DEF h
<1> QED BY <1>2, <1>3

\* Values on the stack change, but not those that are being called.
LEMMA ValuesSolid ==
  ASSUME NEW w, NEW m, Solid(w, m), NEW h,
         SameHeap(m, h), h.globals = m.globals, SameCalls(m, h), h.uvs = m.uvs,
         IsSeq(h.stack), Len(h.stack) = Len(m.stack),
         \A i \in 1 .. Len(h.stack) : IsValue(m, h.stack[i]),
         \A k \in 1 .. Len(m.frames) : h.stack[m.frames[k].base] = m.stack[m.frames[k].base]
  PROVE  Solid(w, h)
<1>1. /\ Base(m) = BaseAt(m, Len(m.frames)) /\ Len(m.frames) \in 0 .. Len(m.frames)
      /\ Base(m) \in 0 .. Len(m.stack) /\ Base(m) \in 0 .. Len(m.uvs)
      /\ Len(m.stack) \in Nat /\ Len(m.uvs) \in Nat /\ Len(m.uvs) <= Len(m.stack)
      /\ \A n \in 1 .. Len(m.frames) : m.uvs[m.frames[n].base] = Null
  BY SolidBase
<1>2. /\ IsSeq(h.frames) /\ RunsIn(m, Len(m.frames), h.ip)
      /\ h.current = m.current /\ h.frames = m.frames
  BY DEF Solid, SoundCalls, SameCalls
<1>3. /\ IsSeq(h.uvs) /\ \A i \in 1 .. Len(h.uvs) : MayBe(m, h.uvs[i], {"upvalue"})
  BY DEF Solid, SoundRoots
<1>4. /\ Len(h.uvs) >= BaseAt(m, Len(m.frames)) /\ Len(h.uvs) <= Len(h.stack)
      /\ Len(h.stack) >= BaseAt(m, Len(m.frames))
      /\ \A n \in 1 .. Len(m.frames) : h.uvs[m.frames[n].base] = Null
  BY <1>1
<1> QED BY <1>1, <1>2, <1>3, <1>4, StackSolid

\* A variable gets another value: one of the running function's, or one that
\* is captured, wherever it is.
LEMMA WriteFirm ==
  ASSUME NEW w, NEW m, Sound(w, m), NEW x, IsValue(m, x), NEW t \in 1 .. Len(m.stack),
         t > Base(m) \/ (t \in 1 .. Len(m.uvs) /\ m.uvs[t] # Null),
         NEW h, h = [m EXCEPT !.stack[t] = x]
  PROVE  /\ Firm(w, h) /\ h.current = m.current /\ h.uvs = m.uvs
         /\ Len(h.stack) = Len(m.stack)
<1>1. /\ DOMAIN m = Fields /\ Solid(w, m) /\ SoundUpvalues(m)
      /\ IsSeq(m.stack) /\ IsSeq(m.uvs) /\ Len(m.uvs) <= Len(m.stack)
      /\ \A i \in 1 .. Len(m.stack) : IsValue(m, m.stack[i])
      /\ \A i \in 1 .. Len(m.uvs) : MayBe(m, m.uvs[i], {"upvalue"})
  BY SoundFacts DEF Sound, Solid
<1>2. /\ SameHeap(m, h) /\ h.globals = m.globals /\ SameCalls(m, h) /\ h.uvs = m.uvs
      /\ h.stack = [m.stack EXCEPT ![t] = x]
  BY <1>1 DEF SameHeap, SameCalls, Fields
<1>3. /\ IsSeq(h.stack) /\ Len(h.stack) = Len(m.stack)
      /\ \A i \in 1 .. Len(m.stack) : h.stack[i] = IF i = t THEN x ELSE m.stack[i]
  BY <1>1, <1>2, SeqChange
<1>4. /\ Base(m) = BaseAt(m, Len(m.frames)) /\ Len(m.frames) \in 0 .. Len(m.frames)
      /\ Base(m) \in 0 .. Len(m.stack) /\ Base(m) \in 0 .. Len(m.uvs)
      /\ Len(m.stack) \in Nat /\ Len(m.uvs) \in Nat
      /\ \A n \in 1 .. Len(m.frames) :
           m.frames[n].base \in 1 .. Base(m) /\ m.uvs[m.frames[n].base] = Null
  BY BaseFacts
<1>5. \A k \in 1 .. Len(m.frames) :
        /\ h.uvs[m.frames[k].base] = Null
        /\ h.stack[m.frames[k].base] = m.stack[m.frames[k].base]
  BY <1>2, <1>3, <1>4
<1>6. /\ h.current = m.current /\ h.frames = m.frames /\ IsSeq(h.frames)
      /\ RunsIn(m, Len(m.frames), h.ip)
  BY <1>1, <1>2 DEF SameCalls, Solid, SoundCalls
<1>7. \A i \in 1 .. Len(h.stack) : IsValue(m, h.stack[i])
  BY <1>1, <1>3
<1>8. \A k \in 1 .. Len(m.frames) : h.stack[m.frames[k].base] = m.stack[m.frames[k].base]
  BY <1>5
<1>9. Solid(w, h)
  BY <1>1, <1>2, <1>3, <1>7, <1>8, ValuesSolid
<1>10. SoundUpvalues(h)
  BY <1>1, <1>2 DEF SoundUpvalues, Ranked, SameHeap, InUse
<1> QED BY <1>2, <1>3, <1>6, <1>9, <1>10 DEF Firm

-----------------------------------------------------------------------------
(* The heap.                                                               *)

\* What lies on the stack is a value, and the collector reaches it.
OnStack(m, x) == \E i \in 1 .. Len(m.stack) : x = m.stack[i]

LEMMA OnStackFacts ==
  ASSUME NEW w, NEW m, Sound(w, m), NEW x, OnStack(m, x)
  PROVE  IsValue(m, x) /\ Traced(x) \subseteq Marked(m)
<1>1. PICK i \in 1 .. Len(m.stack) : x = m.stack[i]
  BY DEF OnStack
<1>2. IsValue(m, x)
  BY <1>1, SoundFacts
<1>3. Solid(w, m)
  BY DEF Sound, Solid
<1>4. Traced(x) \subseteq Roots(m)
  BY <1>1, <1>3, RootsInUse
<1>5. Roots(m) \subseteq Marked(m)
  BY <1>3, MarkedInUse
<1> QED BY <1>2, <1>4, <1>5

LEMMA AtFacts ==
  ASSUME NEW w, NEW m, Sound(w, m), NEW i \in 1 .. Len(m.stack)
  PROVE  /\ OnStack(m, At(m, i)) /\ IsValue(m, At(m, i))
         /\ Slot(m, i) \in 1 .. Len(m.stack) /\ At(m, i) = m.stack[Slot(m, i)]
<1>1. Slot(m, i) \in 1 .. Len(m.stack)
  BY SoundFacts DEF Slot
<1> QED BY <1>1, OnStackFacts DEF At, OnStack

\* What is there before an object is allocated: a collection may have run.
Room(m) == IF m.free = {} THEN Collected(m) ELSE m

LEMMA RoomSound ==
  ASSUME NEW w, NEW m, Sound(w, m)
  PROVE  /\ Sound(w, Room(m)) /\ Solid(w, Room(m)) /\ SameRoots(m, Room(m))
         /\ Room(m).status = m.status /\ Room(m).types = m.types
         /\ Marked(m) \subseteq InUse(Room(m)) /\ InUse(Room(m)) \subseteq InUse(m)
         /\ \A c \in InUse(Room(m)) : Room(m).heap[c] = m.heap[c]
<1>1. Solid(w, m) /\ Marked(m) \subseteq InUse(m)
  BY MarkedInUse DEF Sound, Solid
<1>2. CASE m.free = {}
  <2>1. Room(m) = Collected(m)
    BY <1>2 DEF Room
  <2> QED BY <1>1, <2>1, CollectedSound DEF Sound, Solid
<1>3. CASE m.free # {}
  <2>1. Room(m) = m
    BY <1>3 DEF Room
  <2> QED BY <1>1, <2>1 DEF SameRoots
<1> QED BY <1>2, <1>3

LEMMA PushObjectIs ==
  ASSUME NEW m, NEW o
  PROVE  /\ Ok(m) => PushObject(m, o) = Allocate(Room(m), o)
         /\ ~Ok(m) => PushObject(m, o) = m
BY DEF PushObject, Room

\* An object that fits gets a free cell.
LEMMA AllocateSolid ==
  ASSUME NEW w, NEW g, Solid(w, g), Ok(g), NEW o, Fits(g, o),
         NEW h, h = Allocate(g, o), g.free # {},
         o.type = "internalVector" => o.initialized \/ h.cell = w
  PROVE  /\ Solid(w, h) /\ SameRoots(g, h) /\ Ok(h) /\ h.types = g.types
         /\ h.cell \notin InUse(g) /\ h.cell \in Cells /\ InUse(h) = InUse(g) \cup {h.cell}
         /\ h.heap[h.cell] = o /\ \A c \in InUse(g) : h.heap[c] = g.heap[c]
<1>1. DOMAIN g = Fields /\ DOMAIN g.heap \subseteq Cells /\ g.free \subseteq DOMAIN g.heap
  BY DEF Solid, SoundHeap
<1> DEFINE a == Max(g.free)
<1>2. a \in g.free /\ a \in DOMAIN g.heap /\ a \notin InUse(g)
  BY <1>1, MaxIsFree DEF InUse
<1>3. h = [g EXCEPT !.free = @ \ {a}, !.heap[a] = o, !.cell = a]
  BY DEF Allocate
<1> HIDE DEF a
<1>4. /\ DOMAIN h = Fields /\ SameRoots(g, h) /\ h.status = g.status /\ h.types = g.types
      /\ h.cell = a /\ h.free = g.free \ {a} /\ h.heap = [g.heap EXCEPT ![a] = o]
  BY <1>1, <1>3 DEF SameRoots, Fields
<1>5. /\ InUse(h) = InUse(g) \cup {a} /\ h.heap[a] = o
      /\ \A c \in DOMAIN g.heap : c # a => h.heap[c] = g.heap[c]
  BY <1>2, <1>4 DEF InUse
<1>6. Kept(g, h, InUse(g))
  BY <1>2, <1>5 DEF Kept, Alike, InUse
<1>7. /\ SoundHeap(w, g)
      /\ o.type = "internalVector" /\ a # w => o.initialized
  BY <1>4 DEF Solid
<1>8. \A c \in h.free : h.heap[c] = Blank
  BY <1>4, <1>5, <1>7 DEF SoundHeap
<1>9. \A c \in InUse(h) :
        /\ Fits(g, h.heap[c])
        /\ h.heap[c].type = "internalVector" /\ c # w => h.heap[c].initialized
  BY <1>2, <1>5, <1>7 DEF SoundHeap, InUse
<1>10. Solid(w, h)
  <2>1. DOMAIN h.heap \subseteq Cells /\ h.free \subseteq DOMAIN h.heap
    BY <1>1, <1>4
  <2>2. DOMAIN h = Fields /\ SameRoots(g, h)
    BY <1>4
  <2> QED BY <1>6, <1>8, <1>9, <2>1, <2>2, HeapChanged
<1> QED BY <1>1, <1>2, <1>4, <1>5, <1>10 DEF Ok, InUse

\* An object that fits, and that leads to what the collector reaches, gets a
\* free cell, after a collection if need be; all that the collector reaches
\* stays as it was.
LEMMA PushObjectSolid ==
  ASSUME NEW w, NEW m, Sound(w, m), NEW o, Fits(m, o), Traced(o) \subseteq Marked(m),
         NEW h, h = PushObject(m, o),
         o.type = "internalVector" => o.initialized \/ (Ok(h) => h.cell = w)
  PROVE  /\ Solid(w, h) /\ SameRoots(m, h) /\ h.types = m.types
         /\ \A c \in Marked(m) : c \in InUse(h) /\ h.heap[c] = m.heap[c]
         /\ Ok(h) => /\ h.cell \in InUse(h) /\ h.heap[h.cell] = o /\ h.cell \in Cells
                     /\ h.cell \notin Marked(m) /\ h.cell \notin InUse(Room(m)) /\ Ok(m)
                     /\ \A c \in InUse(Room(m)) : c \in InUse(h) /\ h.heap[c] = m.heap[c]
                     /\ \A c \in InUse(h) :
                          \/ c = h.cell
                          \/ c \in InUse(Room(m)) /\ c \in InUse(m) /\ h.heap[c] = m.heap[c]
         /\ ~Ok(h) => Sound(w, h)
         /\ ~Ok(m) => h = m
         /\ h.status \in {m.status, "outOfMemory"}
         /\ Ok(m) /\ ~Ok(h) => h.free = {}
<1>1. CASE ~Ok(m)
  <2>1. h = m
    BY <1>1 DEF PushObject
  <2>2. Solid(w, m)
    BY DEF Sound, Solid
  <2>3. \A c \in Marked(m) : c \in InUse(m)
    BY <2>2, MarkedInUse
  <2> QED BY <1>1, <2>1, <2>2, <2>3 DEF SameRoots
<1>2. CASE Ok(m)
  <2> DEFINE g == Room(m)
  <2>1. /\ Sound(w, g) /\ Solid(w, g) /\ SameRoots(m, g) /\ Ok(g) /\ g.types = m.types
        /\ Marked(m) \subseteq InUse(g) /\ InUse(g) \subseteq InUse(m)
        /\ \A c \in InUse(g) : g.heap[c] = m.heap[c]
    BY <1>2, RoomSound DEF Ok
  <2>2. h = Allocate(g, o)
    BY <1>2, PushObjectIs
  <2> HIDE DEF g
  <2>3. DOMAIN g = Fields
    BY <2>1, SoundFacts
  <2>4. CASE g.free = {}
    <3>1. h = [g EXCEPT !.status = "outOfMemory"]
      BY <2>1, <2>2, <2>4 DEF Allocate, Failed, Ok
    <3>2. /\ SameHeap(g, h) /\ SameRoots(g, h) /\ h.status = "outOfMemory"
          /\ h.types = g.types /\ InUse(h) = InUse(g)
      BY <2>3, <3>1 DEF SameHeap, SameRoots, Fields, InUse
    <3>3. Sound(w, h)
      BY <2>1, <3>2, SoundSame
    <3>4. Solid(w, h)
      BY <3>3 DEF Sound, Solid
    <3> QED BY <1>2, <2>1, <2>4, <3>2, <3>3, <3>4 DEF Ok, SameHeap, SameRoots, g
  <2>5. CASE g.free # {}
    <3>1. Fits(g, o)
      <4>1. Kept(m, g, Traced(o))
        BY <2>1 DEF Kept, Alike
      <4> QED BY <4>1, FitsKept, SoundFacts
    <3>2. o.type = "internalVector" => o.initialized \/ h.cell = w
      <4>1. Ok(h)
        BY <2>1, <2>2, <2>3, <2>5 DEF Allocate, Ok, Fields
      <4> QED BY <4>1
    <3>3. /\ Solid(w, h) /\ SameRoots(g, h) /\ Ok(h) /\ h.types = g.types
          /\ h.cell \notin InUse(g) /\ h.cell \in Cells /\ InUse(h) = InUse(g) \cup {h.cell}
          /\ h.heap[h.cell] = o /\ \A c \in InUse(g) : h.heap[c] = g.heap[c]
      BY <2>1, <2>2, <2>5, <3>1, <3>2, AllocateSolid
    <3> QED BY <1>2, <2>1, <3>3 DEF Ok, SameRoots, g
  <2> QED BY <2>4, <2>5
<1> QED BY <1>1, <1>2

\* Captured variables stay when what is allocated is no upvalue.
LEMMA PushObjectSound ==
  ASSUME NEW w, NEW m, Sound(w, m), NEW o, Fits(m, o), Traced(o) \subseteq Marked(m),
         o.type # "upvalue",
         NEW h, h = PushObject(m, o),
         o.type = "internalVector" => o.initialized \/ (Ok(h) => h.cell = w)
  PROVE  /\ Sound(w, h) /\ SameRoots(m, h) /\ h.types = m.types
         /\ \A c \in Marked(m) : c \in InUse(h) /\ h.heap[c] = m.heap[c]
         /\ Ok(h) => /\ h.cell \in InUse(h) /\ h.heap[h.cell] = o
                     /\ h.cell \notin Marked(m) /\ Ok(m)
         /\ ~Ok(m) => h = m
         /\ h.status \in {m.status, "outOfMemory"}
<1>1. /\ Solid(w, h) /\ SameRoots(m, h) /\ h.types = m.types
      /\ \A c \in Marked(m) : c \in InUse(h) /\ h.heap[c] = m.heap[c]
      /\ Ok(h) => /\ h.cell \in InUse(h) /\ h.heap[h.cell] = o
                  /\ h.cell \notin Marked(m) /\ Ok(m)
                  /\ \A c \in InUse(Room(m)) : c \in InUse(h) /\ h.heap[c] = m.heap[c]
                  /\ \A c \in InUse(h) :
                       \/ c = h.cell
                       \/ c \in InUse(Room(m)) /\ c \in InUse(m) /\ h.heap[c] = m.heap[c]
      /\ ~Ok(h) => Sound(w, h)
      /\ ~Ok(m) => h = m
      /\ h.status \in {m.status, "outOfMemory"}
  BY PushObjectSolid
<1>2. CASE ~Ok(h)
  BY <1>1, <1>2
<1>3. CASE Ok(h)
  <2>1. SoundUpvalues(m) /\ Keeps(m) /\ Solid(w, m) /\ Sound(w, Room(m))
    BY RoomSound DEF Sound, Solid
  <2>2. h.stack = m.stack /\ h.uvs = m.uvs /\ h.globals = m.globals
    BY <1>1 DEF SameRoots
  <2>3. \A k \in DOMAIN m.globals : h.heap[m.globals[k]] = m.heap[m.globals[k]]
    BY <1>1, <2>1, RootsInUse, MarkedInUse
  <2>4. \A c \in InUse(h) :
          h.heap[c].type = "upvalue" =>
            /\ c \in InUse(m) /\ h.heap[c] = m.heap[c]
            /\ h.heap[c].kind \in {"stack", "object", "upvalue"}
            /\ h.heap[c].kind = "object" => h.heap[h.heap[c].target] = m.heap[h.heap[c].target]
            /\ h.heap[c].kind = "stack" =>
                 /\ h.heap[c].target \in 1 .. Len(h.uvs)
                 /\ h.uvs[h.heap[c].target] = m.uvs[h.heap[c].target]
                 /\ h.stack[h.heap[c].target] = m.stack[h.heap[c].target]
    <3> SUFFICES ASSUME NEW c \in InUse(h), h.heap[c].type = "upvalue"
                 PROVE  /\ c \in InUse(m) /\ h.heap[c] = m.heap[c]
                        /\ h.heap[c].kind \in {"stack", "object", "upvalue"}
                        /\ h.heap[c].kind = "object" => h.heap[c].target \in InUse(Room(m))
                        /\ h.heap[c].kind = "stack" => h.heap[c].target \in 1 .. Len(m.uvs)
      BY <1>1, <1>3, <2>2
    <3>1. c \in InUse(Room(m)) /\ c \in InUse(m) /\ h.heap[c] = m.heap[c]
      BY <1>1, <1>3
    <3>2. /\ m.heap[c].kind \in {"stack", "object", "upvalue"}
          /\ m.heap[c].kind = "stack" => m.heap[c].target \in 1 .. Len(m.uvs)
      BY <2>1, <3>1 DEF Solid, SoundHeap, Fits, FitsUpvalue, SoundUpvalues
    <3>3. m.heap[c].kind = "object" => m.heap[c].target \in InUse(Room(m))
      <4>1. Fits(Room(m), Room(m).heap[c]) /\ Room(m).heap[c] = m.heap[c]
        BY <2>1, <3>1, RoomSound DEF Sound, SoundHeap
      <4> QED BY <3>1, <4>1 DEF Fits, FitsUpvalue, IsOf
    <3> QED BY <3>1, <3>2, <3>3
  <2>5. SoundUpvalues(h) /\ Keeps(h)
    BY <2>1, <2>2, <2>3, <2>4, UpvaluesKept
  <2> QED BY <1>1, <2>5 DEF Sound, Solid
<1> QED BY <1>2, <1>3

\* A copy of a value on the stack is made.
LEMMA CopySound ==
  ASSUME NEW w, NEW m, Sound(w, m), NEW x, OnStack(m, x)
  PROVE  /\ Sound(w, PushObject(m, x)) /\ SameRoots(m, PushObject(m, x))
         /\ \A c \in Marked(m) :
              c \in InUse(PushObject(m, x)) /\ PushObject(m, x).heap[c] = m.heap[c]
         /\ Ok(PushObject(m, x)) =>
              /\ IsOf(PushObject(m, x), PushObject(m, x).cell, ValueTypes)
              /\ PushObject(m, x).cell \notin Marked(m)
              /\ Ok(m)
<1>1. Fits(m, x) /\ x.type \in ValueTypes /\ Traced(x) \subseteq Marked(m)
  BY OnStackFacts DEF IsValue
<1>2. x.type # "internalVector" /\ x.type # "upvalue"
  BY <1>1 DEF ValueTypes
<1> QED BY <1>1, <1>2, PushObjectSound DEF IsOf

\* A cell is written.
LEMMA SetCellSound ==
  ASSUME NEW w, NEW m, Sound(w, m), NEW c \in InUse(m), NEW o,
         Fits(m, o), Alike(m.heap[c], o), o.type = "internalVector" => o.initialized,
         o = m.heap[c] \/ m.heap[c].type \notin ValueTypes \cup {"upvalue"}
  PROVE  /\ Sound(w, SetCell(m, c, o)) /\ SameRoots(m, SetCell(m, c, o))
         /\ SetCell(m, c, o).status = m.status /\ SetCell(m, c, o).cell = m.cell
         /\ InUse(SetCell(m, c, o)) = InUse(m)
         /\ \A d \in InUse(m) : Alike(m.heap[d], SetCell(m, c, o).heap[d])
         /\ Ok(m) /\ c = w => Sound(Null, SetCell(m, c, o))
<1> DEFINE h == SetCell(m, c, o)
<1>1. CASE ~Ok(m)
  <2>1. h = m
    BY <1>1 DEF SetCell
  <2> QED BY <1>1, <2>1 DEF SameRoots, Alike
<1>2. CASE Ok(m)
  <2>1. DOMAIN m = Fields /\ c \in DOMAIN m.heap
    BY SoundFacts
  <2>2. /\ DOMAIN h = Fields /\ SameRoots(m, h) /\ h.free = m.free
        /\ h.heap = [m.heap EXCEPT ![c] = o] /\ h.status = m.status /\ h.cell = m.cell
    BY <1>2, <2>1 DEF SetCell, Fields, SameRoots
  <2> HIDE DEF h
  <2>3. InUse(h) = InUse(m)
    BY <2>1, <2>2 DEF InUse
  <2>4. \A d \in InUse(m) : Alike(m.heap[d], h.heap[d])
    BY <2>2 DEF Alike, InUse
  <2>5. Sound(w, h)
    BY <2>2, CellChanged
  <2>6. c = w => Sound(Null, h)
    BY <2>2, CellChanged
  <2> QED BY <2>2, <2>3, <2>4, <2>5, <2>6 DEF h
<1> QED BY <1>1, <1>2

-----------------------------------------------------------------------------
(* What an instruction finds and what it leaves.                           *)

Ready(m) == Sound(Null, m) /\ Aligned(m) /\ Ok(m) /\ m.current # Null
Good(m, h) == Sound(Null, h) /\ Aligned(h) /\ h.current = m.current

\* The same, but that a captured variable may have got another value.
Fair(m, h) == Firm(Null, h) /\ Aligned(h) /\ h.current = m.current

LEMMA StopGood ==
  ASSUME NEW m, Ready(m), NEW status
  PROVE  Good(m, Failed(m, status)) /\ Good(m, Invalid(m)) /\ Good(m, Fault(m)) /\ Good(m, m)
<1>1. \A s : Good(m, Failed(m, s))
  <2> SUFFICES ASSUME NEW s PROVE Good(m, Failed(m, s))
    OBVIOUS
  <2>1. DOMAIN m = Fields
    BY SoundFacts DEF Ready
  <2>2. /\ SameHeap(m, Failed(m, s)) /\ SameRoots(m, Failed(m, s))
    BY <2>1 DEF Failed, SameHeap, SameRoots, Fields
  <2>3. Sound(Null, Failed(m, s))
    BY <2>2, SoundSame DEF Ready
  <2> QED BY <2>2, <2>3 DEF Good, Ready, Aligned, SameRoots
<1>2. Good(m, m)
  BY DEF Good, Ready
<1> QED BY <1>1, <1>2 DEF Invalid, Fault

LEMMA ReadsGood ==
  ASSUME NEW m, Ready(m), NEW offsets, NEW next, Good(m, next)
  PROVE  Good(m, Reads(m, offsets, next))
BY StopGood DEF Reads

LEMMA PushGood ==
  ASSUME NEW m, Ready(m), NEW x, IsValue(m, x)
  PROVE  Good(m, Push(m, x))
<1>1. /\ Sound(Null, Push(m, x)) /\ SameCalls(m, Push(m, x))
      /\ Len(Push(m, x).stack) = Len(m.stack) + 1
      /\ Len(Push(m, x).uvs) = Len(m.uvs) + 1
  BY PushSound DEF Ready
<1> QED BY <1>1 DEF Good, Ready, Aligned, SameCalls

\* Values that lead nowhere.
LEMMA Scalars ==
  ASSUME NEW m
  PROVE  /\ IsValue(m, Nil) /\ IsValue(m, EmptyVector) /\ IsValue(m, EmptyString)
         /\ \A n \in Int : IsValue(m, Integer(n)) /\ IsValue(m, Bool(n))
         /\ \A n, d : IsValue(m, Float(n, d)) /\ IsValue(m, Nearest(n, d))
         /\ \A p : IsValue(m, Truth(p))
         /\ \A f : IsValue(m, [type |-> "function", callback |-> f])
         /\ \A t : IsValue(m, [type |-> "type", of |-> t])
<1> USE DEF IsValue, ValueTypes, CellTypes, Fits, FitsScalar, FitsPair, FitsText, FitsVector,
            FitsClosure, FitsUpvalue, MayBe, Null
<1>1. IsValue(m, Nil)
  BY DEF Nil
<1>2. IsValue(m, EmptyVector)
  BY DEF EmptyVector
<1>3. IsValue(m, EmptyString)
  BY DEF EmptyString
<1>4. \A n \in Int : IsValue(m, Integer(n))
  BY DEF Integer
<1>5. \A n \in Int : IsValue(m, Bool(n))
  BY DEF Bool
<1>6. \A n, d : IsValue(m, Float(n, d)) /\ IsValue(m, Nearest(n, d))
  BY DEF Float, Nearest
<1>7. \A f : IsValue(m, [type |-> "function", callback |-> f])
  OBVIOUS
<1>8. \A t : IsValue(m, [type |-> "type", of |-> t])
  OBVIOUS
<1> HIDE DEF IsValue
<1>9. \A p : IsValue(m, Truth(p))
  <2> SUFFICES ASSUME NEW p PROVE IsValue(m, Truth(p))
    OBVIOUS
  <2>1. (IF p THEN 1 ELSE 0) \in Int
    OBVIOUS
  <2> QED BY <1>5, <2>1 DEF Truth
<1> QED BY <1>1, <1>2, <1>3, <1>4, <1>5, <1>6, <1>7, <1>8, <1>9

\* A value of a cell, and what a reference of a pair stands for.
LEMMA HeapValue ==
  ASSUME NEW w, NEW m, Sound(w, m)
  PROVE  /\ \A c : IsOf(m, c, ValueTypes) => IsValue(m, m.heap[c])
         /\ \A c : MayBe(m, c, Linked) => IsValue(m, ValueOf(m, c))
         /\ \A c : MayBe(m, c, Linked) => IsValue(m, [type |-> "list", list |-> c])
<1>1. \A c : IsOf(m, c, ValueTypes) => IsValue(m, m.heap[c])
  BY SoundFacts DEF IsOf, IsValue
<1>2. \A c : MayBe(m, c, Linked) => IsValue(m, [type |-> "list", list |-> c])
  BY DEF IsValue, ValueTypes, CellTypes, Fits, FitsScalar, FitsPair, FitsText, FitsVector,
         FitsClosure, FitsUpvalue
<1>3. ASSUME NEW c, MayBe(m, c, Linked) PROVE IsValue(m, ValueOf(m, c))
  <2>1. CASE c = Null \/ m.heap[c].type = "cons"
    BY <1>2, <1>3, <2>1 DEF ValueOf
  <2>2. CASE ~(c = Null \/ m.heap[c].type = "cons")
    <3>1. IsOf(m, c, ValueTypes)
      BY <1>3, <2>2 DEF MayBe, IsOf, Linked
    <3> QED BY <1>1, <2>2, <3>1 DEF ValueOf
  <2> QED BY <2>1, <2>2
<1> QED BY <1>1, <1>2, <1>3

-----------------------------------------------------------------------------
(* Numbers.                                                                *)

LEMMA NumberFacts ==
  ASSUME NEW m, NEW x, IsValue(m, x), IsNumber(x), x.type # "float"
  PROVE  x.type \in {"integer", "bool"} /\ Numerator(x) \in Int /\ Denominator(x) = 1
BY DEF IsValue, Fits, FitsScalar, IsNumber, Numerator, Denominator

LEMMA StoredFits ==
  ASSUME NEW m, NEW type \in {"integer", "bool", "float"}, NEW n, NEW d,
         type = "float" \/ n \in Int
  PROVE  IsValue(m, Stored(type, n, d))
<1>1. n \in Int => Wrap(n) \in Int
  BY IntegerLimitAssumption DEF Wrap
<1>2. n \in Int => n % 256 \in Int
  OBVIOUS
<1>3. CASE type = "float"
  BY <1>3, Scalars DEF Stored
<1>4. CASE type = "integer"
  BY <1>1, <1>4, Scalars DEF Stored
<1>5. CASE type = "bool"
  BY <1>2, <1>5, Scalars DEF Stored
<1> QED BY <1>3, <1>4, <1>5

\* The result of an instruction on numbers is a number.
LEMMA ResultsFit ==
  ASSUME NEW m, NEW x, IsValue(m, x), IsNumber(x), NEW y, IsValue(m, y), IsNumber(y)
  PROVE  /\ IsValue(m, Product(x, y)) /\ IsValue(m, Quotient(x, y))
         /\ IsValue(m, Sum(x, y)) /\ IsValue(m, Difference(x, y))
         /\ IsValue(m, Greater(x, y)) /\ IsValue(m, Less(x, y))
         /\ IsValue(m, Negated(x))
<1>1. IsValue(m, Greater(x, y)) /\ IsValue(m, Less(x, y))
  BY Scalars DEF Greater, Less
<1>2. IsValue(m, Negated(x))
  BY StoredFits DEF Negated, IsNumber
<1>3. CASE "float" \in {x.type, y.type}
  <2>1. Widest(x, y) = "float"
    BY <1>3 DEF Widest
  <2>2. \A n, d : IsValue(m, Stored("float", n, d)) /\ IsValue(m, Nearest(n, d))
    BY StoredFits, Scalars
  <2> QED BY <1>1, <1>2, <2>1, <2>2 DEF Product, Sum, Difference, Quotient
<1>4. CASE "float" \notin {x.type, y.type}
  <2>1. /\ Numerator(x) \in Int /\ Denominator(x) = 1 /\ x.type \in {"integer", "bool"}
        /\ Numerator(y) \in Int /\ Denominator(y) = 1 /\ y.type \in {"integer", "bool"}
    BY <1>4, NumberFacts
  <2>2. Widest(x, y) \in {"integer", "bool"}
    BY <1>4 DEF Widest
  <2>3. \A n \in Int : \A d : IsValue(m, Stored(Widest(x, y), n, d))
    BY <2>2, StoredFits
  <2>4. /\ Numerator(x) * Numerator(y) \in Int
        /\ (Numerator(x) * Denominator(y)) + (Numerator(y) * Denominator(x)) \in Int
        /\ (Numerator(x) * Denominator(y)) - (Numerator(y) * Denominator(x)) \in Int
    BY <2>1
  <2>5. IntegerQuotient(Numerator(x), Numerator(y)) \in Int
    <3>1. \A n \in Int : Magnitude(n) \in Nat /\ (n # 0 => Magnitude(n) > 0)
      BY DEF Magnitude
    <3>2. \A n, d \in Int : d # 0 => Magnitude(n) \div Magnitude(d) \in Int
      BY <3>1
    <3> QED BY <2>1, <3>2 DEF IntegerQuotient
  <2>6. IsValue(m, Product(x, y)) /\ IsValue(m, Sum(x, y)) /\ IsValue(m, Difference(x, y))
    BY <2>3, <2>4 DEF Product, Sum, Difference
  <2>7. IsValue(m, Quotient(x, y))
    BY <2>2, <2>3, <2>5 DEF Quotient
  <2> QED BY <1>1, <1>2, <2>6, <2>7
<1> QED BY <1>3, <1>4

-----------------------------------------------------------------------------
(* The instructions that make nothing.                                     *)

LEMMA PushIndexGood ==
  ASSUME NEW m, Ready(m), NEW i \in 1 .. Len(m.stack)
  PROVE  Good(m, PushIndex(m, i))
BY AtFacts, PushGood, ReadsGood DEF PushIndex, Ready

LEMMA PushGlobalGood ==
  ASSUME NEW m, Ready(m), NEW key
  PROVE  Good(m, PushGlobal(m, key))
<1>1. key \in DOMAIN m.globals => IsValue(m, m.heap[m.globals[key]])
  BY SoundFacts, HeapValue DEF Ready
<1> QED BY <1>1, PushGood, StopGood DEF PushGlobal

LEMMA PopGood ==
  ASSUME NEW m, Ready(m), NEW count \in 0 .. Len(m.stack) - Base(m), Released(m, 1 .. count)
  PROVE  Good(m, Pop(m, count)) /\ Good(m, Branch(m, count))
<1>1. Good(m, Pop(m, count))
  BY PopSound DEF Ready, Good, SameCalls
<1> QED BY <1>1, ReadsGood DEF Branch

LEMMA GoodFair ==
  ASSUME NEW m, NEW h, Good(m, h)
  PROVE  Fair(m, h)
BY DEF Good, Fair, Sound, Firm, Solid

LEMMA MoveFair ==
  ASSUME NEW m, Ready(m), NEW i \in 1 .. Len(m.stack), NEW j \in Own(m)
  PROVE  Fair(m, Move(m, i, j))
<1>1. IsValue(m, At(m, i))
  BY AtFacts DEF Ready
<1>2. Slot(m, j) \in 1 .. Len(m.stack) /\ Slot(m, j) > Base(m)
  BY BaseFacts DEF Ready, Own, Slot
<1>3. SetAt(m, j, At(m, i)) = [m EXCEPT !.stack[Slot(m, j)] = At(m, i)]
  BY DEF SetAt, Ready
<1>4. Fair(m, SetAt(m, j, At(m, i)))
  BY <1>1, <1>2, <1>3, WriteFirm DEF Ready, Fair, Aligned
<1>5. Fair(m, Invalid(m))
  BY StopGood, GoodFair
<1>6. Fair(m, m)
  BY StopGood, GoodFair
<1> QED BY <1>4, <1>5, <1>6 DEF Move, Reads

LEMMA NullPGood ==
  ASSUME NEW m, Ready(m), NEW i
  PROVE  Good(m, NullP(m, i))
BY Scalars, PushGood, ReadsGood DEF NullP

LEMMA NotGood ==
  ASSUME NEW m, Ready(m), NEW i \in 1 .. Len(m.stack)
  PROVE  Good(m, Not(m, i))
<1> DEFINE x == At(m, i)
<1>1. IsValue(m, x)
  BY AtFacts DEF Ready
<1> HIDE DEF x
<1>2. \A p : Good(m, Push(m, Truth(p)))
  BY Scalars, PushGood
<1>3. IsNumber(x) => Good(m, Push(m, Negated(x)))
  BY <1>1, ResultsFit, PushGood
<1>4. Good(m, CASE x.type = "vector" -> Push(m, Truth(x.internal_vector = Null))
                [] x.type = "list" -> Push(m, Truth(x.list = Null))
                [] IsNumber(x) -> Push(m, Negated(x))
                [] OTHER -> Invalid(m))
  <2>1. CASE x.type = "vector"
    BY <1>2, <2>1 DEF IsNumber
  <2>2. CASE x.type = "list"
    BY <1>2, <2>2 DEF IsNumber
  <2>3. CASE IsNumber(x)
    BY <1>3, <2>3 DEF IsNumber
  <2>4. CASE x.type # "vector" /\ x.type # "list" /\ ~IsNumber(x)
    BY <2>4, StopGood
  <2> QED BY <2>1, <2>2, <2>3, <2>4
<1> QED BY <1>4, ReadsGood DEF Not, x

LEMMA CalculateGood ==
  ASSUME NEW m, Ready(m), NEW i, NEW j, NEW result,
         IsNumber(At(m, i)) /\ IsNumber(At(m, j)) => IsValue(m, result)
  PROVE  Good(m, Calculate(m, result, i, j))
<1>1. Good(m, IF IsNumber(At(m, i)) /\ IsNumber(At(m, j)) THEN Push(m, result) ELSE Invalid(m))
  BY PushGood, StopGood
<1> QED BY <1>1, ReadsGood DEF Calculate

LEMMA EqualGood ==
  ASSUME NEW m, Ready(m), NEW i, NEW j
  PROVE  Good(m, Equal(m, i, j))
<1>1. \A x, y : \E p : Same(m, x, y) = Truth(p)
  <2> SUFFICES ASSUME NEW x, NEW y PROVE \E p : Same(m, x, y) = Truth(p)
    OBVIOUS
  <2>1. CASE x.type # y.type
    BY <2>1 DEF Same
  <2>2. CASE x.type = y.type /\ x.type = "symbol"
    BY <2>2 DEF Same, IsNumber
  <2>3. CASE x.type = y.type /\ x.type = "string"
    BY <2>3 DEF Same, IsNumber
  <2>4. CASE x.type = y.type /\ IsNumber(x)
    BY <2>4 DEF Same, IsNumber, NumbersEqual
  <2>5. CASE x.type = y.type /\ x.type # "symbol" /\ x.type # "string" /\ ~IsNumber(x)
    BY <2>5 DEF Same
  <2> QED BY <2>1, <2>2, <2>3, <2>4, <2>5
<1>2. Good(m, Push(m, Same(m, At(m, i), At(m, j))))
  BY <1>1, Scalars, PushGood
<1>3. Good(m, IF At(m, i).type \in {"function", "closure", "composite"} THEN Invalid(m)
              ELSE Push(m, Same(m, At(m, i), At(m, j))))
  BY <1>2, StopGood
<1> QED BY <1>3, ReadsGood DEF Equal

\* The first element and the rest of a list, vector or string.
LEMMA CarGood ==
  ASSUME NEW m, Ready(m), NEW i \in 1 .. Len(m.stack)
  PROVE  Good(m, Car(m, i))
<1> DEFINE x == At(m, i)
           next ==
             CASE x.type = "list" /\ x.list = Null -> Push(m, Nil)
               [] x.type = "list" /\ NotAPair(m, x) -> Failed(m, "shouldntHappen")
               [] x.type = "list" /\ x.list # Null /\ ~NotAPair(m, x) ->
                    Push(m, ValueOf(m, m.heap[x.list].car))
               [] x.type = "vector" ->
                    Push(m, IF IsNull(m, x) THEN EmptyVector
                            ELSE m.heap[m.heap[x.internal_vector].values[x.offset + 1]])
               [] x.type = "string" ->
                    Push(m, IF IsNull(m, x) THEN EmptyString ELSE Integer(Letter))
               [] OTHER -> Invalid(m)
<1>1. Car(m, i) = Reads(m, {i}, next)
  BY DEF Car
<1>2. Sound(Null, m) /\ IsValue(m, x)
  BY AtFacts DEF Ready
<1> HIDE DEF x
<1>3. CASE x.type = "list" /\ x.list = Null
  <2>1. next = Push(m, Nil)
    BY <1>3 DEF NotAPair
  <2> HIDE DEF next
  <2> QED BY <1>1, <2>1, Scalars, PushGood, ReadsGood
<1>4. CASE x.type = "list" /\ NotAPair(m, x)
  <2>1. next = Failed(m, "shouldntHappen")
    BY <1>4 DEF NotAPair
  <2> HIDE DEF next
  <2> QED BY <1>1, <2>1, StopGood, ReadsGood
<1>5. CASE x.type = "list" /\ x.list # Null /\ ~NotAPair(m, x)
  <2>1. next = Push(m, ValueOf(m, m.heap[x.list].car))
    BY <1>5
  <2>2. x.list \in InUse(m) /\ m.heap[x.list].type = "cons"
    BY <1>2, <1>5 DEF NotAPair, IsValue, Fits, FitsPair, MayBe, IsOf
  <2>3. MayBe(m, m.heap[x.list].car, Linked)
    BY <1>2, <2>2, SoundFacts DEF Fits, FitsPair
  <2>4. IsValue(m, ValueOf(m, m.heap[x.list].car))
    BY <1>2, <2>3, HeapValue
  <2> HIDE DEF next
  <2> QED BY <1>1, <2>1, <2>4, PushGood, ReadsGood
<1>6. CASE x.type = "vector"
  <2>1. next = Push(m, IF IsNull(m, x) THEN EmptyVector
                       ELSE m.heap[m.heap[x.internal_vector].values[x.offset + 1]])
    BY <1>6
  <2>2. ASSUME ~IsNull(m, x)
        PROVE  IsValue(m, m.heap[m.heap[x.internal_vector].values[x.offset + 1]])
    <3> DEFINE v == m.heap[x.internal_vector]
    <3>1. x.internal_vector # Null /\ ~(x.offset >= v.length) /\ x.offset \in Nat
      BY <1>2, <1>6, <2>2 DEF IsNull, IsValue, Fits, FitsVector
    <3>2. x.internal_vector \in InUse(m) /\ v.type = "internalVector"
      BY <1>2, <1>6, <3>1 DEF IsValue, Fits, FitsVector, MayBe, IsOf
    <3>3. /\ Fits(m, v) /\ v.initialized
      BY <1>2, <3>2, SoundFacts DEF Sound, SoundHeap
    <3> HIDE DEF v
    <3>4. v.length \in Nat /\ \A k \in 1 .. v.length : IsOf(m, v.values[k], ValueTypes)
      BY <3>2, <3>3, SeqDomain DEF Fits, FitsVector
    <3>5. x.offset + 1 \in 1 .. v.length
      BY <3>1, <3>4
    <3>6. IsOf(m, v.values[x.offset + 1], ValueTypes)
      BY <3>4, <3>5
    <3> QED BY <1>2, <3>6, HeapValue DEF v
  <2> HIDE DEF next
  <2> QED BY <1>1, <2>1, <2>2, Scalars, PushGood, ReadsGood
<1>7. CASE x.type = "string"
  <2>1. next = Push(m, IF IsNull(m, x) THEN EmptyString ELSE Integer(Letter))
    BY <1>7
  <2>2. IsValue(m, Integer(Letter))
    BY Scalars DEF Letter
  <2> HIDE DEF next
  <2> QED BY <1>1, <2>1, <2>2, Scalars, PushGood, ReadsGood
<1>8. CASE x.type \notin {"list", "vector", "string"}
  <2>1. next = Invalid(m)
    BY <1>8
  <2> HIDE DEF next
  <2> QED BY <1>1, <2>1, StopGood, ReadsGood
<1> QED BY <1>3, <1>4, <1>5, <1>6, <1>7, <1>8

LEMMA CdrGood ==
  ASSUME NEW m, Ready(m), NEW i \in 1 .. Len(m.stack)
  PROVE  Good(m, Cdr(m, i))
<1> DEFINE x == At(m, i)
           next ==
             CASE x.type = "list" /\ x.list = Null -> Push(m, Nil)
               [] x.type = "list" /\ NotAPair(m, x) -> Failed(m, "shouldntHappen")
               [] x.type = "list" /\ x.list # Null /\ ~NotAPair(m, x) ->
                    Push(m, ValueOf(m, m.heap[x.list].cdr))
               [] x.type = "vector" ->
                    Push(m, IF IsNull(m, x) \/ x.offset + 1 >= m.heap[x.internal_vector].length
                            THEN EmptyVector ELSE [x EXCEPT !.offset = @ + 1])
               [] x.type = "string" ->
                    Push(m, IF x.internalString = Null \/ x.offset + 1 >= x.length
                            THEN EmptyString ELSE [x EXCEPT !.offset = @ + 1])
               [] OTHER -> Invalid(m)
<1>1. Cdr(m, i) = Reads(m, {i}, next)
  BY DEF Cdr
<1>2. Sound(Null, m) /\ IsValue(m, x)
  BY AtFacts DEF Ready
<1> HIDE DEF x
<1>3. CASE x.type = "list" /\ x.list = Null
  <2>1. next = Push(m, Nil)
    BY <1>3 DEF NotAPair
  <2> HIDE DEF next
  <2> QED BY <1>1, <2>1, Scalars, PushGood, ReadsGood
<1>4. CASE x.type = "list" /\ NotAPair(m, x)
  <2>1. next = Failed(m, "shouldntHappen")
    BY <1>4 DEF NotAPair
  <2> HIDE DEF next
  <2> QED BY <1>1, <2>1, StopGood, ReadsGood
<1>5. CASE x.type = "list" /\ x.list # Null /\ ~NotAPair(m, x)
  <2>1. next = Push(m, ValueOf(m, m.heap[x.list].cdr))
    BY <1>5
  <2>2. x.list \in InUse(m) /\ m.heap[x.list].type = "cons"
    BY <1>2, <1>5 DEF NotAPair, IsValue, Fits, FitsPair, MayBe, IsOf
  <2>3. MayBe(m, m.heap[x.list].cdr, Linked)
    BY <1>2, <2>2, SoundFacts DEF Fits, FitsPair
  <2>4. IsValue(m, ValueOf(m, m.heap[x.list].cdr))
    BY <1>2, <2>3, HeapValue
  <2> HIDE DEF next
  <2> QED BY <1>1, <2>1, <2>4, PushGood, ReadsGood
<1>6. CASE x.type = "vector"
  <2> DEFINE v == m.heap[x.internal_vector]
             y == [x EXCEPT !.offset = @ + 1]
  <2>1. next = Push(m, IF IsNull(m, x) \/ x.offset + 1 >= v.length THEN EmptyVector ELSE y)
    BY <1>6
  <2>2. ASSUME ~IsNull(m, x), ~(x.offset + 1 >= v.length) PROVE IsValue(m, y)
    <3>1. /\ x.internal_vector # Null /\ x.offset \in Nat
          /\ {"type", "internal_vector", "offset"} \subseteq DOMAIN x
          /\ IsOf(m, x.internal_vector, {"internalVector"})
      BY <1>2, <1>6, <2>2 DEF IsNull, IsValue, Fits, FitsVector, MayBe
    <3>2. v.length = Len(v.values) /\ v.length \in Nat
      BY <1>2, <3>1, SoundFacts, SeqDomain DEF IsOf, Fits, FitsVector
    <3>3. y.type = "vector" /\ y.internal_vector = x.internal_vector /\ y.offset = x.offset + 1
      BY <1>6, <3>1
    <3>4. DOMAIN y = DOMAIN x
      OBVIOUS
    <3>5. y.offset \in Nat /\ y.offset <= Len(v.values)
      BY <2>2, <3>1, <3>2, <3>3
    <3> HIDE DEF y
    <3>6. FitsVector(m, y)
      BY <3>1, <3>3, <3>4, <3>5 DEF FitsVector, MayBe
    <3>7. "car" \notin DOMAIN y /\ "cdr" \notin DOMAIN y
      BY <1>2, <1>6, <3>4 DEF IsValue, Fits, FitsPair
    <3>8. y = [f \in DOMAIN y |-> y[f]]
      BY DEF y
    <3> QED BY <3>3, <3>6, <3>7, <3>8 DEF IsValue, ValueTypes, CellTypes, Fits, FitsScalar, FitsPair,
                                    FitsText, FitsClosure, FitsUpvalue
  <2> HIDE DEF v, y, next
  <2> QED BY <1>1, <2>1, <2>2, Scalars, PushGood, ReadsGood
<1>7. CASE x.type = "string"
  <2> DEFINE y == [x EXCEPT !.offset = @ + 1]
  <2>1. next = Push(m, IF x.internalString = Null \/ x.offset + 1 >= x.length
                       THEN EmptyString ELSE y)
    BY <1>7
  <2>2. ASSUME x.internalString # Null, ~(x.offset + 1 >= x.length) PROVE IsValue(m, y)
    <3>1. /\ x.offset \in Nat /\ x.length \in Nat
          /\ {"type", "internalString", "offset", "length"} \subseteq DOMAIN x
          /\ MayBe(m, x.internalString, {"internalString"})
          /\ x.length <= m.heap[x.internalString].value_length
      BY <1>2, <1>7, <2>2 DEF IsValue, Fits, FitsText
    <3>2. /\ y.type = "string" /\ y.internalString = x.internalString
          /\ y.offset = x.offset + 1 /\ y.length = x.length /\ DOMAIN y = DOMAIN x
      BY <1>7, <3>1
    <3>3. y.offset \in Nat /\ y.offset <= y.length
      BY <2>2, <3>1, <3>2
    <3> HIDE DEF y
    <3>4. FitsText(m, y)
      BY <3>1, <3>2, <3>3 DEF FitsText
    <3>5. "car" \notin DOMAIN y /\ "cdr" \notin DOMAIN y
      BY <1>2, <1>7, <3>2 DEF IsValue, Fits, FitsPair
    <3>6. y = [f \in DOMAIN y |-> y[f]]
      BY DEF y
    <3> QED BY <3>2, <3>4, <3>5, <3>6 DEF IsValue, ValueTypes, CellTypes, Fits, FitsScalar, FitsPair,
                                    FitsVector, FitsClosure, FitsUpvalue
  <2> HIDE DEF y, next
  <2> QED BY <1>1, <2>1, <2>2, Scalars, PushGood, ReadsGood
<1>8. CASE x.type \notin {"list", "vector", "string"}
  <2>1. next = Invalid(m)
    BY <1>8
  <2> HIDE DEF next
  <2> QED BY <1>1, <2>1, StopGood, ReadsGood
<1> QED BY <1>3, <1>4, <1>5, <1>6, <1>7, <1>8

LEMMA VectorFacts ==
  ASSUME NEW m, Sound(Null, m), NEW x, IsValue(m, x), x.type = "vector", x.internal_vector # Null
  PROVE  /\ x.internal_vector \in InUse(m) /\ x.offset \in Nat
         /\ m.heap[x.internal_vector].type = "internalVector"
         /\ m.heap[x.internal_vector].initialized
         /\ "makeVector" \in Programs.instructions
         /\ {"type", "length", "initialized", "values"} \subseteq DOMAIN m.heap[x.internal_vector]
         /\ IsSeq(m.heap[x.internal_vector].values)
         /\ m.heap[x.internal_vector].length = Len(m.heap[x.internal_vector].values)
         /\ m.heap[x.internal_vector].length \in Nat
         /\ x.offset <= m.heap[x.internal_vector].length
         /\ \A k \in 1 .. m.heap[x.internal_vector].length :
              IsOf(m, m.heap[x.internal_vector].values[k], ValueTypes)
<1> DEFINE v == m.heap[x.internal_vector]
<1>1. /\ x.internal_vector \in InUse(m) /\ x.offset \in Nat
      /\ v.type = "internalVector" /\ x.offset <= Len(v.values)
  BY DEF IsValue, Fits, FitsVector, MayBe, IsOf
<1>2. Fits(m, v) /\ v.initialized
  BY <1>1, SoundFacts DEF Sound, SoundHeap, Null
<1> HIDE DEF v
<1>3. /\ "makeVector" \in Programs.instructions
      /\ {"type", "length", "initialized", "values"} \subseteq DOMAIN v
      /\ IsSeq(v.values) /\ v.length = Len(v.values)
      /\ \A k \in 1 .. v.length : IsOf(m, v.values[k], ValueTypes)
  BY <1>1, <1>2 DEF Fits, FitsVector
<1>4. v.length \in Nat
  BY <1>3, SeqDomain
<1> QED BY <1>1, <1>2, <1>3, <1>4 DEF v

LEMMA StringFacts ==
  ASSUME NEW m, NEW x, IsValue(m, x), x.type = "string"
  PROVE  /\ x.offset \in Nat /\ x.length \in Nat /\ x.offset <= x.length
         /\ {"type", "internalString", "offset", "length"} \subseteq DOMAIN x
         /\ MayBe(m, x.internalString, {"internalString"})
         /\ x.internalString # Null => x.length <= m.heap[x.internalString].value_length
BY DEF IsValue, Fits, FitsText

LEMMA GetVecEltGood ==
  ASSUME NEW m, Ready(m), NEW i \in 1 .. Len(m.stack), NEW j \in 1 .. Len(m.stack)
  PROVE  Good(m, GetVecElt(m, i, j))
<1> DEFINE x == At(m, i)
           n == At(m, j).integer
           v == m.heap[x.internal_vector]
           next ==
             IF x.type \notin {"vector", "string"} \/ At(m, j).type # "integer" THEN Invalid(m)
             ELSE CASE x.type = "vector" /\ n < 0 -> Invalid(m)
                    [] x.type = "vector" /\ n >= 0 /\ x.internal_vector = Null -> Fault(m)
                    [] x.type = "vector" /\ n >= 0 /\ x.internal_vector # Null ->
                         IF n + x.offset >= v.length THEN Invalid(m)
                         ELSE Push(m, m.heap[v.values[n + x.offset + 1]])
                    [] x.type = "string" ->
                         IF n < 0 \/ n >= Rest(x) THEN Invalid(m) ELSE Push(m, Integer(Letter))
<1>1. GetVecElt(m, i, j) = Reads(m, {i, j}, next)
  BY DEF GetVecElt
<1>2. Sound(Null, m) /\ IsValue(m, x) /\ IsValue(m, At(m, j))
  BY AtFacts DEF Ready
<1>3. CASE x.type \notin {"vector", "string"} \/ At(m, j).type # "integer"
  <2>1. next = Invalid(m)
    BY <1>3
  <2> HIDE DEF next
  <2> QED BY <1>1, <2>1, StopGood, ReadsGood
<1>4. CASE x.type = "string" /\ At(m, j).type = "integer"
  <2>1. next = IF n < 0 \/ n >= Rest(x) THEN Invalid(m) ELSE Push(m, Integer(Letter))
    BY <1>4
  <2> HIDE DEF next, x, n
  <2>2. IsValue(m, Integer(Letter))
    <3>1. Letter \in Int
      BY DEF Letter
    <3> QED BY <3>1, Scalars
  <2> QED BY <1>1, <2>1, <2>2, StopGood, PushGood, ReadsGood
<1>5. CASE x.type = "vector" /\ At(m, j).type = "integer"
  <2>1. n \in Int
    BY <1>2, <1>5 DEF IsValue, Fits, FitsScalar
  <2> HIDE DEF n
  <2>2. CASE n < 0
    <3>1. next = Invalid(m)
      BY <1>5, <2>1, <2>2
    <3> HIDE DEF next
    <3> QED BY <1>1, <3>1, StopGood, ReadsGood
  <2>3. CASE n >= 0 /\ x.internal_vector = Null
    <3>1. next = Fault(m)
      BY <1>5, <2>1, <2>3
    <3> HIDE DEF next
    <3> QED BY <1>1, <3>1, StopGood, ReadsGood
  <2>4. CASE n >= 0 /\ x.internal_vector # Null
    <3>1. next = IF n + x.offset >= v.length THEN Invalid(m)
                 ELSE Push(m, m.heap[v.values[n + x.offset + 1]])
      BY <1>5, <2>1, <2>4
    <3>2. /\ x.offset \in Nat /\ v.length \in Nat
          /\ \A k \in 1 .. v.length : IsOf(m, v.values[k], ValueTypes)
      BY <1>2, <1>5, <2>4, VectorFacts
    <3> HIDE DEF next, v, x
    <3>3. ASSUME ~(n + x.offset >= v.length) PROVE IsValue(m, m.heap[v.values[n + x.offset + 1]])
      <4>1. n + x.offset + 1 \in 1 .. v.length
        BY <2>1, <2>4, <3>2, <3>3
      <4> QED BY <1>2, <3>2, <4>1, HeapValue
    <3> QED BY <1>1, <3>1, <3>3, StopGood, PushGood, ReadsGood
  <2> QED BY <2>1, <2>2, <2>3, <2>4
<1> QED BY <1>3, <1>4, <1>5

LEMMA LengthGood ==
  ASSUME NEW m, Ready(m), NEW i \in 1 .. Len(m.stack)
  PROVE  Good(m, Length(m, i))
<1> DEFINE x == At(m, i)
           next ==
             CASE x.type = "vector" ->
                    Push(m, Integer(IF x.internal_vector = Null THEN 0
                                    ELSE m.heap[x.internal_vector].length - x.offset))
               [] x.type = "string" -> Push(m, Integer(Rest(x)))
               [] OTHER -> Invalid(m)
<1>1. Length(m, i) = Reads(m, {i}, next)
  BY DEF Length
<1>2. Sound(Null, m) /\ IsValue(m, x)
  BY AtFacts DEF Ready
<1> HIDE DEF x
<1>3. CASE x.type = "vector"
  <2> DEFINE n == IF x.internal_vector = Null THEN 0
                  ELSE m.heap[x.internal_vector].length - x.offset
  <2>1. next = Push(m, Integer(n))
    BY <1>3
  <2>2. n \in Int
    BY <1>2, <1>3, VectorFacts
  <2> HIDE DEF next, n
  <2> QED BY <1>1, <2>1, <2>2, Scalars, PushGood, ReadsGood
<1>4. CASE x.type = "string"
  <2>1. next = Push(m, Integer(Rest(x)))
    BY <1>4
  <2>2. Rest(x) \in Int
    BY <1>2, <1>4, StringFacts DEF Rest
  <2> HIDE DEF next
  <2> QED BY <1>1, <2>1, <2>2, Scalars, PushGood, ReadsGood
<1>5. CASE x.type \notin {"vector", "string"}
  <2>1. next = Invalid(m)
    BY <1>5
  <2> HIDE DEF next
  <2> QED BY <1>1, <2>1, StopGood, ReadsGood
<1> QED BY <1>3, <1>4, <1>5

LEMMA SymbolStringGood ==
  ASSUME NEW m, Ready(m), NEW i \in 1 .. Len(m.stack)
  PROVE  Good(m, SymbolString(m, i)) /\ Good(m, SymbolId(m, i))
<1> DEFINE x == At(m, i)
           y == [type |-> "string", internalString |-> x.internalString, offset |-> 0,
                 length |-> m.heap[x.internalString].value_length]
<1>1. Sound(Null, m) /\ IsValue(m, x)
  BY AtFacts DEF Ready
<1>2. SymbolString(m, i) = Reads(m, {i}, IF x.type # "symbol" THEN Invalid(m) ELSE Push(m, y))
  BY DEF SymbolString
<1>3. SymbolId(m, i)
        = Reads(m, {i}, IF x.type # "symbol" THEN Invalid(m) ELSE Push(m, Integer(x.id)))
  BY DEF SymbolId
<1> HIDE DEF x
<1>4. x.type = "symbol" => x.id \in Int /\ IsOf(m, x.internalString, {"internalString"})
  BY <1>1 DEF IsValue, Fits, FitsText
<1>5. x.type = "symbol" => m.heap[x.internalString].value_length \in Nat
  BY <1>1, <1>4, SoundFacts DEF IsOf, Fits, FitsScalar
<1>6. x.type = "symbol" => IsValue(m, y)
  BY <1>4, <1>5 DEF IsValue, ValueTypes, CellTypes, Fits, FitsScalar, FitsPair, FitsText,
                    FitsVector, FitsClosure, FitsUpvalue, MayBe
<1> HIDE DEF y
<1>7. x.type = "symbol" => IsValue(m, Integer(x.id))
  BY <1>4, Scalars
<1> QED BY <1>2, <1>3, <1>6, <1>7, StopGood, PushGood, ReadsGood

LEMMA SubstringGood ==
  ASSUME NEW m, Ready(m), NEW i \in 1 .. Len(m.stack), NEW j, NEW to
  PROVE  Good(m, Substring(m, i, j, to))
<1> DEFINE x == At(m, i)
           from == At(m, j).integer
           y == [x EXCEPT !.length = x.offset + to, !.offset = x.offset + from]
           wrong == \/ x.type # "string" \/ At(m, j).type # "integer"
                    \/ from \notin 0 .. Rest(x) - 1 \/ to \notin from .. Rest(x) - 1
<1>1. Sound(Null, m) /\ IsValue(m, x)
  BY AtFacts DEF Ready
<1>2. Substring(m, i, j, to) = Reads(m, {i, j}, IF wrong THEN Invalid(m) ELSE Push(m, y))
  BY DEF Substring
<1>3. ASSUME ~wrong PROVE IsValue(m, y)
  <2>1. /\ x.offset \in Nat /\ x.length \in Nat /\ x.type = "string"
        /\ {"type", "internalString", "offset", "length"} \subseteq DOMAIN x
        /\ MayBe(m, x.internalString, {"internalString"})
        /\ x.internalString # Null => x.length <= m.heap[x.internalString].value_length
    BY <1>1, <1>3, StringFacts
  <2> HIDE DEF x
  <2>2. /\ from \in Int /\ to \in Int /\ 0 <= from /\ from <= to /\ to <= x.length - x.offset - 1
    BY <1>3, <2>1 DEF Rest
  <2> HIDE DEF from
  <2>3. /\ y.type = "string" /\ y.internalString = x.internalString /\ DOMAIN y = DOMAIN x
        /\ y.offset = x.offset + from /\ y.length = x.offset + to
    BY <2>1
  <2> HIDE DEF y
  <2>4. y.offset \in Nat /\ y.length \in Nat /\ y.offset <= y.length /\ y.length <= x.length
    BY <2>1, <2>2, <2>3
  <2>5. y.internalString # Null => y.length <= m.heap[y.internalString].value_length
    <3>1. y.internalString # Null => m.heap[y.internalString].value_length \in Nat
      BY <1>1, <2>1, <2>3, SoundFacts DEF MayBe, IsOf, Fits, FitsScalar
    <3> QED BY <2>1, <2>3, <2>4, <3>1
  <2>6. FitsText(m, y)
    BY <2>1, <2>3, <2>4, <2>5 DEF FitsText
  <2>7. "car" \notin DOMAIN y /\ "cdr" \notin DOMAIN y
    BY <1>1, <2>1, <2>3 DEF x, IsValue, Fits, FitsPair
  <2>8. y = [f \in DOMAIN y |-> y[f]]
    BY DEF y
  <2> QED BY <2>3, <2>6, <2>7, <2>8 DEF IsValue, ValueTypes, CellTypes, Fits, FitsScalar, FitsPair,
                                  FitsVector, FitsClosure, FitsUpvalue
<1> HIDE DEF y, wrong
<1> QED BY <1>2, <1>3, StopGood, PushGood, ReadsGood

\* There are no instances.
LEMMA InstancesGood ==
  ASSUME NEW m, Ready(m), NEW i \in 1 .. Len(m.stack), NEW j, NEW field
  PROVE  /\ Good(m, TypeOf(m, i)) /\ Good(m, Composite(m, i, field))
         /\ Good(m, SetComposite(m, i, j, field))
<1>1. At(m, i).type # "composite"
  BY AtFacts DEF Ready, IsValue, Fits, FitsScalar
<1>2. \A t : Good(m, Push(m, [type |-> "type", of |-> t]))
  BY Scalars, PushGood
<1>3. Good(m, TypeOf(m, i))
  BY <1>2, ReadsGood DEF TypeOf
<1>4. Good(m, Invalid(m))
  BY StopGood
<1> QED BY <1>1, <1>3, <1>4, ReadsGood DEF Composite, SetComposite

LEMMA MakeTypeGood ==
  ASSUME NEW m, Ready(m)
  PROVE  Good(m, MakeType(m))
<1> DEFINE h == [m EXCEPT !.types = @ + 1]
           x == [type |-> "type", of |-> UserTypes[m.types + 1]]
<1>1. /\ SameHeap(m, h) /\ SameRoots(m, h) /\ h.status = m.status
  BY SoundFacts DEF Ready, SameHeap, SameRoots, Fields
<1>2. MakeType(m) = Push(h, x)
  BY DEF MakeType
<1>3. IsValue(h, x)
  BY Scalars
<1> HIDE DEF h, x
<1>4. Sound(Null, h)
  BY <1>1, SoundSame DEF Ready
<1>5. Ready(h)
  BY <1>1, <1>4 DEF Ready, SameRoots, Aligned, Ok
<1>6. Good(h, Push(h, x)) /\ h.current = m.current
  BY <1>1, <1>3, <1>5, PushGood DEF SameRoots
<1> QED BY <1>2, <1>6 DEF Good

-----------------------------------------------------------------------------
(* The instructions that allocate.                                         *)

\* The last step of an instruction that has allocated one cell.
LEMMA PushMadeGood ==
  ASSUME NEW m, Ready(m), NEW h, Sound(Null, h), SameRoots(m, h), NEW x,
         Ok(h) => IsValue(h, x)
  PROVE  Good(m, Push(h, x))
<1>1. Good(m, h)
  BY DEF Good, Ready, SameRoots, Aligned
<1>2. CASE Ok(h)
  <2>1. Ready(h)
    BY <1>1, <1>2 DEF Ready, Good
  <2>2. Good(h, Push(h, x))
    BY <1>2, <2>1, PushGood
  <2> QED BY <1>1, <2>2 DEF Good
<1>3. CASE ~Ok(h)
  BY <1>1, <1>3 DEF Push
<1> QED BY <1>2, <1>3

\* The text of a symbol or a string.
LEMMA TextSound ==
  ASSUME NEW m, Ready(m), NEW n \in Nat, NEW h,
         h = PushObject(m, [type |-> "internalString", value_length |-> n])
  PROVE  /\ Sound(Null, h) /\ SameRoots(m, h)
         /\ Ok(h) => /\ IsOf(h, h.cell, {"internalString"})
                     /\ h.heap[h.cell].value_length = n
<1> DEFINE o == [type |-> "internalString", value_length |-> n]
<1>1. Fits(m, o)
  BY DEF ValueTypes, CellTypes, Fits, FitsScalar, FitsPair, FitsText, FitsVector, FitsClosure, FitsUpvalue
<1>2. Traced(o) = {} /\ o.type # "internalVector"
  BY TracedFacts
<1>3. o.type = "internalString" /\ o.value_length = n
  OBVIOUS
<1> HIDE DEF o
<1>4. h = PushObject(m, o)
  BY DEF o
<1> QED BY <1>1, <1>2, <1>3, <1>4, PushObjectSound DEF Ready, IsOf

LEMMA PushSymbolGood ==
  ASSUME NEW m, Ready(m), NEW id \in Int, NEW n \in Nat
  PROVE  Good(m, PushSymbol(m, id, n))
<1> DEFINE h == PushObject(m, [type |-> "internalString", value_length |-> n])
           x == [type |-> "symbol", id |-> id, internalString |-> h.cell]
<1>1. PushSymbol(m, id, n) = Push(h, x)
  BY DEF PushSymbol
<1> HIDE DEF h
<1>2. /\ Sound(Null, h) /\ SameRoots(m, h)
      /\ Ok(h) => IsOf(h, h.cell, {"internalString"})
  BY TextSound DEF h
<1>3. Ok(h) => IsValue(h, x)
  BY <1>2 DEF IsValue, ValueTypes, CellTypes, Fits, FitsScalar, FitsPair, FitsText, FitsVector,
              FitsClosure, FitsUpvalue
<1> HIDE DEF x
<1> QED BY <1>1, <1>2, <1>3, PushMadeGood

LEMMA PushStringGood ==
  ASSUME NEW m, Ready(m), NEW n \in Nat
  PROVE  Good(m, PushString(m, n))
<1> DEFINE h == PushObject(m, [type |-> "internalString", value_length |-> n])
           x == [type |-> "string", internalString |-> h.cell, offset |-> 0, length |-> n]
<1>1. PushString(m, n) = Push(h, x)
  BY DEF PushString
<1> HIDE DEF h
<1>2. /\ Sound(Null, h) /\ SameRoots(m, h)
      /\ Ok(h) => /\ IsOf(h, h.cell, {"internalString"})
                  /\ h.heap[h.cell].value_length = n
  BY TextSound DEF h
<1>3. Ok(h) => IsValue(h, x)
  BY <1>2 DEF IsValue, ValueTypes, CellTypes, Fits, FitsScalar, FitsPair, FitsText, FitsVector,
              FitsClosure, FitsUpvalue, MayBe
<1> HIDE DEF x
<1> QED BY <1>1, <1>2, <1>3, PushMadeGood

LEMMA ConcatenateGood ==
  ASSUME NEW m, Ready(m), NEW i \in 1 .. Len(m.stack), NEW j \in 1 .. Len(m.stack)
  PROVE  Good(m, Concatenate(m, i, j))
<1> DEFINE x == At(m, i)
           y == At(m, j)
           next ==
             CASE x.type # "string" \/ y.type # "string" -> Invalid(m)
               [] x.type = "string" /\ y.type = "string"
                    /\ Null \in {x.internalString, y.internalString} -> Fault(m)
               [] OTHER -> PushString(m, x.length + y.length)
<1>1. Concatenate(m, i, j) = Reads(m, {i, j}, next)
  BY DEF Concatenate
<1>2. Sound(Null, m) /\ IsValue(m, x) /\ IsValue(m, y)
  BY AtFacts DEF Ready
<1> HIDE DEF x, y
<1>3. x.type = "string" /\ y.type = "string" => x.length + y.length \in Nat
  BY <1>2, StringFacts
<1>4. x.type = "string" /\ y.type = "string" => Good(m, PushString(m, x.length + y.length))
  BY <1>3, PushStringGood
<1>5. Good(m, next)
  <2>1. CASE x.type # "string" \/ y.type # "string"
    BY <2>1, StopGood
  <2>2. CASE x.type = "string" /\ y.type = "string"
               /\ Null \in {x.internalString, y.internalString}
    BY <2>2, StopGood
  <2>3. CASE x.type = "string" /\ y.type = "string"
               /\ Null \notin {x.internalString, y.internalString}
    BY <1>4, <2>3
  <2> QED BY <2>1, <2>2, <2>3
<1> HIDE DEF next
<1> QED BY <1>1, <1>5, ReadsGood

LEMMA MakeStringGood ==
  ASSUME NEW m, Ready(m), NEW i \in 1 .. Len(m.stack)
  PROVE  Good(m, MakeString(m, i))
<1> DEFINE x == At(m, i)
           places == { Walk(m, x.list)[n] : n \in 0 .. MaxObjects } \ {Null}
           pairs == { c \in places : m.heap[c].type = "cons" }
           letters == { c \in pairs :
                          m.heap[c].car # Null /\ m.heap[m.heap[c].car].type = "integer" }
           proper == pairs = letters /\ \A c \in places : m.heap[c].type \in {"cons", "list"}
           cyclic == Walk(m, x.list)[MaxObjects] # Null /\ proper
           count == CHOOSE n \in 0 .. MaxObjects :
                      n = LET S == { p \in 1 .. MaxObjects : Walk(m, x.list)[p - 1] \in pairs }
                          IN  IF S = {} THEN 0 ELSE Max(S)
           next ==
             CASE x.type = "vector" ->
                    IF x.internal_vector = Null THEN Fault(m)
                    ELSE PushString(m, m.heap[x.internal_vector].length - x.offset)
               [] x.type = "list" ->
                    IF cyclic \/ \E c \in pairs : m.heap[c].car = Null THEN Fault(m)
                    ELSE PushString(m, IF proper THEN count ELSE 0)
               [] OTHER -> Invalid(m)
<1>1. MakeString(m, i) = Reads(m, {i}, next)
  BY DEF MakeString
<1>2. Sound(Null, m) /\ IsValue(m, x)
  BY AtFacts DEF Ready
<1> HIDE DEF x, pairs, proper, cyclic
<1>3. count \in Nat
  <2> DEFINE S == { p \in 1 .. MaxObjects : Walk(m, x.list)[p - 1] \in pairs }
             top == IF S = {} THEN 0 ELSE Max(S)
  <2>1. S # {} => Max(S) \in S
    BY MaxIsFree DEF Cells
  <2>2. top \in 0 .. MaxObjects
    BY <2>1, MaxObjectsAssumption
  <2> HIDE DEF top
  <2>3. (CHOOSE n \in 0 .. MaxObjects : n = top) \in 0 .. MaxObjects
    BY <2>2
  <2>4. count \in 0 .. MaxObjects
    BY <2>3, Zenon DEF top
  <2> HIDE DEF count
  <2> QED BY <2>4
<1> HIDE DEF count
<1>4. CASE x.type = "vector"
  <2> DEFINE n == m.heap[x.internal_vector].length - x.offset
  <2>1. next = IF x.internal_vector = Null THEN Fault(m) ELSE PushString(m, n)
    BY <1>4
  <2>2. x.internal_vector # Null => n \in Nat
    BY <1>2, <1>4, VectorFacts
  <2> HIDE DEF next, n
  <2> QED BY <1>1, <2>1, <2>2, PushStringGood, StopGood, ReadsGood
<1>5. CASE x.type = "list"
  <2> DEFINE n == IF proper THEN count ELSE 0
  <2>1. next = IF cyclic \/ \E c \in pairs : m.heap[c].car = Null THEN Fault(m)
               ELSE PushString(m, n)
    BY <1>5
  <2>2. n \in Nat
    BY <1>3
  <2> HIDE DEF next, n
  <2>3. Good(m, next)
    BY <2>1, <2>2, PushStringGood, StopGood
  <2> QED BY <1>1, <2>3, ReadsGood
<1>6. CASE x.type \notin {"list", "vector"}
  <2>1. next = Invalid(m)
    BY <1>6
  <2> HIDE DEF next
  <2> QED BY <1>1, <2>1, StopGood, ReadsGood
<1> QED BY <1>4, <1>5, <1>6

\* A value is stored under a symbol.
LEMMA SetStaticGood ==
  ASSUME NEW m, Ready(m), NEW i \in 1 .. Len(m.stack), NEW key, ~MayCapture
  PROVE  Good(m, SetStatic(m, i, key))
<1> DEFINE h == PushObject(m, At(m, i))
           g == GlobalSet(h, key, h.cell)
<1>1. OnStack(m, At(m, i))
  BY AtFacts DEF Ready
<1> HIDE DEF h
<1>2. /\ Sound(Null, h) /\ SameRoots(m, h)
      /\ Ok(h) => IsOf(h, h.cell, ValueTypes)
  BY <1>1, CopySound DEF h, Ready
<1>3. CASE ~Ok(h)
  <2>1. g = h
    BY <1>3 DEF GlobalSet
  <2> QED BY <1>2, <2>1 DEF SetStatic, h, Good, Ready, SameRoots, Aligned
<1>4. CASE Ok(h)
  <2>1. DOMAIN h = Fields /\ DOMAIN h.heap \subseteq Cells
    BY <1>2, SoundFacts
  <2>2. /\ SameHeap(h, g) /\ SameCalls(h, g) /\ g.stack = h.stack /\ g.uvs = h.uvs
        /\ g.globals = [k \in DOMAIN h.globals \cup {key} |->
                          IF k = key THEN h.cell ELSE h.globals[k]]
    BY <1>4, <2>1 DEF GlobalSet, SameHeap, SameCalls, Fields
  <2>3. SetStatic(m, i, key) = g
    BY DEF SetStatic, h
  <2> HIDE DEF g
  <2>4. InUse(g) = InUse(h) /\ g.heap = h.heap
    BY <2>2 DEF InUse, SameHeap
  <2>5. \A o : Fits(h, o) => Fits(g, o)
    <3> SUFFICES ASSUME NEW o, Fits(h, o) PROVE Fits(g, o)
      OBVIOUS
    <3>1. Kept(h, g, Traced(o))
      BY <2>1, <2>4, FitsTraced DEF Kept, Alike
    <3> QED BY <2>1, <3>1, FitsKept
  <2>6. SoundHeap(Null, g)
    BY <1>2, <2>2, <2>4, <2>5 DEF Sound, SoundHeap, SameHeap
  <2>7. \A k \in DOMAIN g.globals : IsOf(g, g.globals[k], ValueTypes)
    BY <1>2, <1>4, <2>2, <2>4, SoundFacts DEF IsOf
  <2>8. SoundRoots(g)
    BY <1>2, <2>2, <2>4, <2>5, <2>7 DEF Sound, SoundRoots, SameCalls, IsValue, MayBe, IsOf
  <2>9. \A n, code : RunsIn(g, n, code) <=> RunsIn(h, n, code)
    BY <2>2 DEF SameCalls, RunsIn
  <2>10. SoundCalls(g)
    BY <1>2, <2>2, <2>9 DEF Sound, SoundCalls, SameCalls
  <2>11. Sound(Null, g)
    BY <2>6, <2>8, <2>10, UpvaluesNone DEF Sound
  <2> QED BY <1>2, <2>2, <2>3, <2>11 DEF Good, Ready, SameRoots, SameCalls, Aligned
<1> QED BY <1>3, <1>4

\* What a field of a pair will refer to.
LEMMA ElementSound ==
  ASSUME NEW m, Sound(Null, m), NEW x, OnStack(m, x)
  PROVE  /\ Sound(Null, Element(m, x)) /\ SameRoots(m, Element(m, x))
         /\ \A c \in Marked(m) : c \in InUse(Element(m, x)) /\ Element(m, x).heap[c] = m.heap[c]
         /\ Ok(Element(m, x)) => Ok(m) /\ MayBe(Element(m, x), Element(m, x).cell, Linked)
<1> DEFINE h == Element(m, x)
<1>1. CASE x.type = "list"
  <2>1. h = [m EXCEPT !.cell = x.list]
    BY <1>1 DEF Element
  <2> HIDE DEF h
  <2>2. DOMAIN m = Fields
    BY SoundFacts
  <2>3. /\ SameHeap(m, h) /\ SameRoots(m, h) /\ h.status = m.status /\ h.cell = x.list
    BY <2>1, <2>2 DEF SameHeap, SameRoots, Fields
  <2>4. Sound(Null, h)
    BY <2>3, SoundSame
  <2>5. MayBe(m, x.list, Linked)
    BY <1>1, OnStackFacts DEF IsValue, Fits, FitsPair
  <2>6. InUse(h) = InUse(m) /\ h.heap = m.heap
    BY <2>3 DEF SameHeap, InUse
  <2>7. \A c \in Marked(m) : c \in InUse(m)
    BY SoundSolid, MarkedInUse
  <2> QED BY <2>3, <2>4, <2>5, <2>6, <2>7 DEF h, MayBe, IsOf, Ok
<1>2. CASE x.type # "list"
  <2>1. h = PushObject(m, x)
    BY <1>2 DEF Element
  <2> HIDE DEF h
  <2> QED BY <2>1, CopySound DEF h, MayBe, IsOf, Linked
<1> QED BY <1>1, <1>2

\* A field of a pair that the collector reaches comes to refer to a value on
\* the stack.
LEMMA PutHalfSound ==
  ASSUME NEW m, Sound(Null, m), NEW x, OnStack(m, x), NEW pair \in Marked(m),
         NEW field \in {"car", "cdr"}
  PROVE  /\ Sound(Null, PutHalf(m, pair, field, x)) /\ SameRoots(m, PutHalf(m, pair, field, x))
         /\ pair \in InUse(PutHalf(m, pair, field, x))
         /\ Ok(PutHalf(m, pair, field, x)) => Ok(m)
<1> DEFINE e == Element(m, x)
           o == [e.heap[pair] EXCEPT ![field] = e.cell]
<1>1. PutHalf(m, pair, field, x) = SetCell(e, pair, o)
  BY DEF PutHalf, Link
<1> HIDE DEF e
<1>2. /\ Sound(Null, e) /\ SameRoots(m, e) /\ pair \in InUse(e)
      /\ Ok(e) => Ok(m) /\ MayBe(e, e.cell, Linked)
  BY ElementSound DEF e
<1>3. CASE ~Ok(e)
  BY <1>1, <1>2, <1>3 DEF SetCell
<1>4. CASE Ok(e)
  <2> DEFINE p == e.heap[pair]
  <2>1. Fits(e, p)
    BY <1>2, SoundFacts
  <2>2. /\ DOMAIN o = DOMAIN p
        /\ \A f \in DOMAIN p : o[f] = IF f = field THEN e.cell ELSE p[f]
    OBVIOUS
  <2> HIDE DEF p, o
  <2>3. /\ Fits(e, o) /\ Alike(p, o) /\ (o.type = "internalVector" => o.initialized)
        /\ o = p \/ p.type \notin ValueTypes \cup {"upvalue"}
    <3>1. CASE p.type = "cons"
      <4>1. {"type", "car", "cdr"} \subseteq DOMAIN p /\ MayBe(e, p.car, Linked)
            /\ MayBe(e, p.cdr, Linked)
        BY <2>1, <3>1 DEF Fits, FitsPair
      <4>2. /\ o.type = "cons" /\ o.car \in {p.car, e.cell} /\ o.cdr \in {p.cdr, e.cell}
            /\ {"type", "car", "cdr"} \subseteq DOMAIN o
        BY <2>2, <3>1, <4>1
      <4>3. MayBe(e, o.car, Linked) /\ MayBe(e, o.cdr, Linked)
        BY <1>2, <1>4, <4>1, <4>2
      <4>4. Fits(e, o)
        BY <4>2, <4>3 DEF CellTypes, Fits, FitsScalar, FitsPair, FitsText, FitsVector,
                          FitsClosure, FitsUpvalue
      <4> QED BY <3>1, <4>2, <4>4 DEF Alike, ValueTypes
    <3>2. CASE p.type # "cons"
      <4>1. field \notin DOMAIN p
        BY <2>1, <3>2 DEF Fits, FitsPair
      <4>2. o = p
        <5>1. p = [f \in DOMAIN p |-> p[f]]
          BY <2>1, <3>2 DEF Fits, FitsPair
        <5>2. o = [f \in DOMAIN p |-> IF f = field THEN e.cell ELSE p[f]]
          BY DEF o, p
        <5> QED BY <4>1, <5>1, <5>2
      <4>3. p.type = "internalVector" => p.initialized
        BY <1>2, SoundFacts DEF p, Sound, SoundHeap
      <4> QED BY <2>1, <4>2, <4>3 DEF Alike
    <3> QED BY <3>1, <3>2
  <2>4. /\ Sound(Null, SetCell(e, pair, o)) /\ SameRoots(e, SetCell(e, pair, o))
        /\ InUse(SetCell(e, pair, o)) = InUse(e)
    BY <1>2, <2>3, SetCellSound DEF p
  <2> QED BY <1>1, <1>2, <1>4, <2>4 DEF SameRoots
<1> QED BY <1>3, <1>4

LEMMA FailedSound ==
  ASSUME NEW w, NEW m, Sound(w, m), NEW status
  PROVE  Sound(w, Failed(m, status)) /\ SameRoots(m, Failed(m, status))
<1>1. DOMAIN m = Fields
  BY SoundFacts
<1>2. SameHeap(m, Failed(m, status)) /\ SameRoots(m, Failed(m, status))
  BY <1>1 DEF Failed, SameHeap, SameRoots, Fields
<1> QED BY <1>2, SoundSame

\* A machine that differs in its heap only, and what it was made for.
LEMMA MadeGood ==
  ASSUME NEW m, Ready(m), NEW h, Sound(Null, h), SameRoots(m, h)
  PROVE  /\ Good(m, h) /\ \A x : OnStack(m, x) => Good(m, Push(h, x))
         /\ \A x : OnStack(m, x) <=> OnStack(h, x)
<1>1. \A x : OnStack(m, x) <=> OnStack(h, x)
  BY DEF OnStack, SameRoots
<1>2. \A x : OnStack(m, x) => IsValue(h, x)
  BY <1>1, OnStackFacts
<1> QED BY <1>1, <1>2, PushMadeGood DEF Good, Ready, SameRoots, Aligned

\* The cells that a list or a vector on the stack leads to are reached.
LEMMA OnStackReached ==
  ASSUME NEW w, NEW m, Sound(w, m), NEW x, OnStack(m, x)
  PROVE  /\ x.type = "list" /\ x.list # Null => x.list \in Marked(m)
         /\ x.type = "vector" /\ x.internal_vector # Null => x.internal_vector \in Marked(m)
BY OnStackFacts, TracedFacts

\* The pair just allocated is on the stack before its halves are.
LEMMA MakeConsGood ==
  ASSUME NEW m, Ready(m), NEW i \in 1 .. Len(m.stack), NEW j \in 1 .. Len(m.stack)
  PROVE  Good(m, MakeCons(m, i, j))
<1> DEFINE o == [type |-> "cons", car |-> Null, cdr |-> Null]
           a == PushObject(m, o)
           pair == a.cell
           list == [type |-> "list", list |-> pair]
           b == Push(a, list)
           c == PutHalf(b, pair, "car", At(m, i))
           d == PutHalf(c, pair, "cdr", At(m, j))
<1>1. MakeCons(m, i, j) = Reads(m, {i, j}, d)
  BY DEF MakeCons, FillPair
<1>2. OnStack(m, At(m, i)) /\ OnStack(m, At(m, j)) /\ Sound(Null, m) /\ Len(m.stack) \in Nat
  BY AtFacts, SoundFacts DEF Ready
<1>3. Fits(m, o) /\ Traced(o) = {} /\ o.type = "cons"
  <2>1. Fits(m, o)
    BY DEF ValueTypes, CellTypes, Fits, FitsScalar, FitsPair, FitsText, FitsVector,
           FitsClosure, FitsUpvalue, MayBe
  <2>2. Traced(o) = {}
    BY TracedFacts
  <2> QED BY <2>1, <2>2
<1> HIDE DEF o
<1>4. Sound(Null, a) /\ SameRoots(m, a) /\ (Ok(a) => IsOf(a, pair, {"cons"}))
  BY <1>2, <1>3, PushObjectSound DEF IsOf
<1> HIDE DEF a
<1>5. CASE ~Ok(a)
  <2> DEFINE x == At(m, i)
             y == At(m, j)
  <2>1. b = a
    BY <1>5 DEF Push
  <2>2. OnStack(a, x) /\ OnStack(a, y)
    BY <1>2, <1>4 DEF OnStack, SameRoots
  <2>3. /\ \A z : OnStack(a, z) => Sound(Null, Element(a, z)) /\ SameRoots(a, Element(a, z))
                                    /\ ~Ok(Element(a, z))
    BY <1>4, <1>5, ElementSound
  <2>4. c = Element(a, x)
    BY <1>5, <2>1, <2>2, <2>3 DEF PutHalf, Link, SetCell
  <2> HIDE DEF c
  <2>5. Sound(Null, c) /\ SameRoots(m, c) /\ ~Ok(c) /\ OnStack(c, y)
    BY <1>4, <2>2, <2>3, <2>4 DEF SameRoots, OnStack
  <2>6. Sound(Null, Element(c, y)) /\ SameRoots(c, Element(c, y)) /\ ~Ok(Element(c, y))
    BY <2>5, ElementSound
  <2>7. d = Element(c, y)
    BY <2>6 DEF PutHalf, Link, SetCell
  <2>8. Sound(Null, d) /\ SameRoots(m, d)
    BY <2>5, <2>6, <2>7 DEF SameRoots
  <2> QED BY <1>1, <2>8, MadeGood, ReadsGood
<1>6. CASE Ok(a)
  <2>1. MayBe(a, pair, Linked) /\ pair # Null
    BY <1>4, <1>6, SoundFacts DEF MayBe, IsOf, Linked
  <2>2. IsValue(a, list)
    BY <1>4, <2>1, HeapValue
  <2>3. /\ Sound(Null, b) /\ Aligned(b) /\ b.current = m.current /\ Ok(b)
        /\ Len(b.stack) = Len(m.stack) + 1 /\ b.stack[Len(m.stack) + 1] = list
        /\ \A k \in 1 .. Len(m.stack) : b.stack[k] = m.stack[k]
    <3>1. Ready(a) /\ a.stack = m.stack /\ a.current = m.current
      BY <1>4, <1>6 DEF Ready, SameRoots, Aligned
    <3>2. Good(a, Push(a, list))
      BY <2>2, <3>1, PushGood
    <3> QED BY <1>4, <1>6, <2>2, <3>1, <3>2, PushSound DEF Good, Ok
  <2> HIDE DEF b
  <2>4. OnStack(b, list) /\ OnStack(b, At(m, i)) /\ OnStack(b, At(m, j))
    <3>1. \A k \in 1 .. Len(m.stack) : k \in 1 .. Len(b.stack)
      BY <1>2, <2>3
    <3>2. Len(m.stack) + 1 \in 1 .. Len(b.stack)
      BY <1>2, <2>3
    <3> QED BY <1>2, <2>3, <3>1, <3>2 DEF OnStack
  <2>5. list.type = "list" /\ list.list = pair
    OBVIOUS
  <2> HIDE DEF list
  <2>6. pair \in Marked(b)
    BY <2>1, <2>3, <2>4, <2>5, OnStackReached
  <2>7. Sound(Null, c) /\ SameRoots(b, c)
    BY <2>3, <2>4, <2>6, PutHalfSound
  <2> HIDE DEF c
  <2>8. OnStack(c, list) /\ OnStack(c, At(m, j))
    BY <2>4, <2>7 DEF OnStack, SameRoots
  <2>9. pair \in Marked(c)
    BY <2>1, <2>5, <2>7, <2>8, OnStackReached
  <2>10. Sound(Null, d) /\ SameRoots(c, d)
    BY <2>7, <2>8, <2>9, PutHalfSound
  <2> HIDE DEF d
  <2>11. Good(m, d)
    BY <2>3, <2>7, <2>10 DEF Good, SameRoots, Aligned
  <2> QED BY <1>1, <2>11, ReadsGood
<1> QED BY <1>5, <1>6

\* An element of a vector is replaced by a value on the stack.
LEMMA LinkElementSound ==
  ASSUME NEW m, Ready(m), NEW x, OnStack(m, x), NEW y, OnStack(m, y),
         y.type = "vector", y.internal_vector # Null,
         NEW k \in 1 .. m.heap[y.internal_vector].length
  PROVE  /\ Sound(Null, LinkElement(PushObject(m, x), y.internal_vector, k))
         /\ SameRoots(m, LinkElement(PushObject(m, x), y.internal_vector, k))
<1> DEFINE v == y.internal_vector
           h == PushObject(m, x)
           p == h.heap[v]
           o == [p EXCEPT !.values[k] = h.cell]
<1>1. LinkElement(PushObject(m, x), v, k) = SetCell(h, v, o)
  BY DEF LinkElement
<1>2. Sound(Null, m) /\ IsValue(m, y) /\ v \in Marked(m)
  BY OnStackFacts, OnStackReached DEF Ready
<1>3. /\ m.heap[v].type = "internalVector" /\ m.heap[v].initialized
      /\ "makeVector" \in Programs.instructions
      /\ {"type", "length", "initialized", "values"} \subseteq DOMAIN m.heap[v]
      /\ IsSeq(m.heap[v].values)
      /\ m.heap[v].length = Len(m.heap[v].values)
  BY <1>2, VectorFacts
<1> HIDE DEF h, v
<1>4. /\ Sound(Null, h) /\ SameRoots(m, h) /\ v \in InUse(h) /\ p = m.heap[v]
      /\ Ok(h) => IsOf(h, h.cell, ValueTypes)
  BY <1>2, CopySound DEF h
<1>5. CASE ~Ok(h)
  BY <1>1, <1>4, <1>5 DEF SetCell, h, v
<1>6. CASE Ok(h)
  <2>1. /\ p.type = "internalVector" /\ p.initialized
        /\ "makeVector" \in Programs.instructions
        /\ {"type", "length", "initialized", "values"} \subseteq DOMAIN p
        /\ IsSeq(p.values) /\ p.length = Len(p.values) /\ k \in 1 .. Len(p.values)
        /\ Fits(h, p)
    BY <1>3, <1>4, SoundFacts DEF v
  <2> HIDE DEF p
  <2>2. /\ DOMAIN o = DOMAIN p /\ o.type = p.type /\ o.initialized = p.initialized
        /\ o.length = p.length /\ o.values = [p.values EXCEPT ![k] = h.cell]
        /\ o = [f \in DOMAIN o |-> o[f]]
    BY <2>1
  <2> HIDE DEF o
  <2>3. /\ IsSeq(o.values) /\ Len(o.values) = Len(p.values)
        /\ \A n \in 1 .. Len(p.values) :
             o.values[n] = IF n = k THEN h.cell ELSE p.values[n]
    BY <2>1, <2>2, SeqChange
  <2>4. \A n \in 1 .. o.length : IsOf(h, o.values[n], ValueTypes)
    BY <1>4, <1>6, <2>1, <2>2, <2>3 DEF Fits, FitsVector
  <2>5. FitsVector(h, o)
    BY <2>1, <2>2, <2>3, <2>4 DEF FitsVector
  <2>6. "car" \notin DOMAIN o /\ "cdr" \notin DOMAIN o
    BY <2>1, <2>2 DEF Fits, FitsPair
  <2>7. Fits(h, o)
    BY <2>1, <2>2, <2>5, <2>6 DEF CellTypes, Fits, FitsScalar, FitsPair, FitsText, FitsClosure, FitsUpvalue
  <2>8. Alike(p, o)
    BY <2>1, <2>2, <2>3 DEF Alike
  <2>9. Sound(Null, SetCell(h, v, o)) /\ SameRoots(h, SetCell(h, v, o))
    <3>1. p.type \notin ValueTypes \cup {"upvalue"}
      BY <2>1 DEF ValueTypes
    <3> QED BY <1>4, <2>1, <2>2, <2>7, <2>8, <3>1, SetCellSound DEF p
  <2> QED BY <1>1, <1>4, <2>9 DEF SameRoots, v
<1> QED BY <1>5, <1>6

LEMMA SetCarGood ==
  ASSUME NEW m, Ready(m), NEW i \in 1 .. Len(m.stack), NEW j \in 1 .. Len(m.stack)
  PROVE  Good(m, SetCar(m, i, j))
<1> DEFINE x == At(m, i)
           y == At(m, j)
           v == y.internal_vector
           next ==
             CASE y.type = "list" /\ y.list # Null -> Push(PutHalf(m, y.list, "car", x), y)
               [] y.type = "vector" /\ v # Null ->
                    IF y.offset < Len(m.heap[v].values)
                    THEN Push(LinkElement(PushObject(m, x), v, y.offset + 1), y)
                    ELSE Fault(PushObject(m, x))
               [] OTHER -> Invalid(m)
<1>1. SetCar(m, i, j) = Reads(m, {i, j}, next)
  BY DEF SetCar
<1>2. Sound(Null, m) /\ OnStack(m, x) /\ OnStack(m, y) /\ IsValue(m, y)
  BY AtFacts DEF Ready
<1> HIDE DEF x, y
<1>3. CASE y.type = "list" /\ y.list # Null
  <2>1. next = Push(PutHalf(m, y.list, "car", x), y)
    BY <1>3
  <2>2. y.list \in Marked(m)
    BY <1>2, <1>3, OnStackReached
  <2>3. /\ Sound(Null, PutHalf(m, y.list, "car", x))
        /\ SameRoots(m, PutHalf(m, y.list, "car", x))
    BY <1>2, <2>2, PutHalfSound
  <2> HIDE DEF next
  <2> QED BY <1>1, <1>2, <2>1, <2>3, MadeGood, ReadsGood
<1>4. CASE y.type = "vector" /\ v # Null
  <2>1. next = IF y.offset < Len(m.heap[v].values)
               THEN Push(LinkElement(PushObject(m, x), v, y.offset + 1), y)
               ELSE Fault(PushObject(m, x))
    BY <1>4
  <2>2. /\ y.offset \in Nat /\ m.heap[v].length = Len(m.heap[v].values)
        /\ m.heap[v].length \in Nat
    BY <1>2, <1>4, VectorFacts
  <2> HIDE DEF next
  <2>3. CASE y.offset < Len(m.heap[v].values)
    <3>1. y.offset + 1 \in 1 .. m.heap[v].length
      BY <2>2, <2>3
    <3>2. /\ Sound(Null, LinkElement(PushObject(m, x), v, y.offset + 1))
          /\ SameRoots(m, LinkElement(PushObject(m, x), v, y.offset + 1))
      BY <1>2, <1>4, <3>1, LinkElementSound
    <3> QED BY <1>1, <1>2, <2>1, <2>3, <3>2, MadeGood, ReadsGood
  <2>4. CASE ~(y.offset < Len(m.heap[v].values))
    <3>1. Sound(Null, PushObject(m, x)) /\ SameRoots(m, PushObject(m, x))
      BY <1>2, CopySound
    <3>2. Sound(Null, Fault(PushObject(m, x))) /\ SameRoots(m, Fault(PushObject(m, x)))
      BY <3>1, FailedSound DEF Fault, SameRoots
    <3> QED BY <1>1, <2>1, <2>4, <3>2, MadeGood, ReadsGood
  <2> QED BY <2>3, <2>4
<1>5. CASE ~(y.type = "list" /\ y.list # Null) /\ ~(y.type = "vector" /\ v # Null)
  <2>1. next = Invalid(m)
    BY <1>5
  <2> HIDE DEF next
  <2> QED BY <1>1, <2>1, StopGood, ReadsGood
<1> QED BY <1>3, <1>4, <1>5

\* Where vectors are made, none is cut off.
LEMMA SetCdrGood ==
  ASSUME NEW m, Ready(m), NEW i \in 1 .. Len(m.stack), NEW j \in 1 .. Len(m.stack),
         "makeVector" \notin Programs.instructions
  PROVE  Good(m, SetCdr(m, i, j))
<1> DEFINE x == At(m, i)
           y == At(m, j)
           v == y.internal_vector
           nothing == x = Nil \/ (x.type = "vector" /\ x.internal_vector = Null)
           next ==
             CASE y.type = "list" /\ y.list # Null -> Push(PutHalf(m, y.list, "cdr", x), y)
               [] y.type = "vector" /\ v # Null /\ nothing ->
                    Push(SetCell(m, v, [m.heap[v] EXCEPT !.length = y.offset]), y)
               [] OTHER -> Invalid(m)
<1>1. SetCdr(m, i, j) = Reads(m, {i, j}, next)
  BY DEF SetCdr
<1>2. Sound(Null, m) /\ OnStack(m, x) /\ OnStack(m, y) /\ IsValue(m, y)
  BY AtFacts DEF Ready
<1> HIDE DEF x, y
<1>3. CASE y.type = "list" /\ y.list # Null
  <2>1. next = Push(PutHalf(m, y.list, "cdr", x), y)
    BY <1>3
  <2>2. y.list \in Marked(m)
    BY <1>2, <1>3, OnStackReached
  <2>3. /\ Sound(Null, PutHalf(m, y.list, "cdr", x))
        /\ SameRoots(m, PutHalf(m, y.list, "cdr", x))
    BY <1>2, <2>2, PutHalfSound
  <2> HIDE DEF next
  <2> QED BY <1>1, <1>2, <2>1, <2>3, MadeGood, ReadsGood
<1>4. CASE ~(y.type = "list" /\ y.list # Null)
  <2>1. ~(y.type = "vector" /\ v # Null)
    BY <1>2, VectorFacts
  <2>2. next = Invalid(m)
    BY <1>4, <2>1
  <2> HIDE DEF next
  <2> QED BY <1>1, <2>2, StopGood, ReadsGood
<1> QED BY <1>3, <1>4

LEMMA SetVecEltGood ==
  ASSUME NEW m, Ready(m), NEW i \in 1 .. Len(m.stack), NEW j \in 1 .. Len(m.stack),
         NEW k \in 1 .. Len(m.stack)
  PROVE  Good(m, SetVecElt(m, i, j, k))
<1> DEFINE x == At(m, i)
           v == x.internal_vector
           at == At(m, j).integer + x.offset
           next ==
             CASE x.type # "vector" \/ At(m, j).type # "integer" -> Invalid(m)
               [] x.type = "vector" /\ At(m, j).type = "integer" /\ v = Null -> Fault(m)
               [] OTHER ->
                    IF at \notin 0 .. m.heap[v].length - 1 THEN Invalid(m)
                    ELSE Push(LinkElement(PushObject(m, At(m, k)), v, at + 1), At(m, k))
<1>1. SetVecElt(m, i, j, k) = Reads(m, {i, j, k}, next)
  BY DEF SetVecElt
<1>2. Sound(Null, m) /\ OnStack(m, x) /\ IsValue(m, x) /\ OnStack(m, At(m, k))
  BY AtFacts DEF Ready
<1> HIDE DEF x
<1>3. CASE x.type # "vector" \/ At(m, j).type # "integer"
  <2>1. next = Invalid(m)
    BY <1>3
  <2> HIDE DEF next
  <2> QED BY <1>1, <2>1, StopGood, ReadsGood
<1>4. CASE x.type = "vector" /\ At(m, j).type = "integer" /\ v = Null
  <2>1. next = Fault(m)
    BY <1>4
  <2> HIDE DEF next
  <2> QED BY <1>1, <2>1, StopGood, ReadsGood
<1>5. CASE x.type = "vector" /\ At(m, j).type = "integer" /\ v # Null
  <2>1. next = IF at \notin 0 .. m.heap[v].length - 1 THEN Invalid(m)
               ELSE Push(LinkElement(PushObject(m, At(m, k)), v, at + 1), At(m, k))
    BY <1>5
  <2>2. m.heap[v].length \in Nat
    BY <1>2, <1>5, VectorFacts
  <2> HIDE DEF next, at
  <2>3. ASSUME at \in 0 .. m.heap[v].length - 1
        PROVE  Good(m, Push(LinkElement(PushObject(m, At(m, k)), v, at + 1), At(m, k)))
    <3>1. at + 1 \in 1 .. m.heap[v].length
      BY <2>2, <2>3
    <3>2. /\ Sound(Null, LinkElement(PushObject(m, At(m, k)), v, at + 1))
          /\ SameRoots(m, LinkElement(PushObject(m, At(m, k)), v, at + 1))
      BY <1>2, <1>5, <3>1, LinkElementSound
    <3> QED BY <1>2, <3>2, MadeGood
  <2> QED BY <1>1, <2>1, <2>3, StopGood, ReadsGood
<1> QED BY <1>3, <1>4, <1>5

Repeats(s, n, c) == s = [k \in 1 .. n |-> c]

LEMMA ConstantSeq ==
  ASSUME NEW n \in Nat, NEW c, NEW s, Repeats(s, n, c)
  PROVE  IsSeq(s) /\ Len(s) = n /\ DOMAIN s = 1 .. n /\ \A k \in 1 .. n : s[k] = c
<1>1. s = [k \in 1 .. n |-> c]
  BY DEF Repeats
<1>2. s \in Seq({c})
  BY <1>1
<1>3. Len(s) = n
  BY <1>1
<1> QED BY <1>1, <1>2, <1>3 DEF IsSeq

\* A new vector has a place on the stack while the cell of its elements is
\* made.  When there is no room for that cell the vector stays unfilled.
LEMMA MakeVectorGood ==
  ASSUME NEW m, Ready(m), NEW i \in 1 .. Len(m.stack), NEW j \in 1 .. Len(m.stack),
         "makeVector" \in Programs.instructions, MakeVector(m, i, j).status # "outOfMemory"
  PROVE  Good(m, MakeVector(m, i, j))
<1> DEFINE n == At(m, i).integer
           x == At(m, j)
           o == NewVector(n)
           a == PushObject(m, o)
           vector == [type |-> "vector", internal_vector |-> a.cell, offset |-> 0]
           b == PushUntracked(a, vector)
           c == PushObject(b, x)
           values == [k \in DOMAIN c.heap[b.cell].values |-> c.cell]
           d == SetCell(c, b.cell, [c.heap[b.cell] EXCEPT !.values = values])
           e == SetCell(PushTracked(d), b.cell,
                        [PushTracked(d).heap[b.cell] EXCEPT !.initialized = TRUE])
           f == SetCell(PushTracked(d), b.cell, [d.heap[b.cell] EXCEPT !.initialized = TRUE])
           right == At(m, i).type = "integer" /\ At(m, i).integer >= 0
<1>1. MakeVector(m, i, j) = Reads(m, {i, j}, IF right THEN f ELSE Invalid(m))
  BY DEF MakeVector, PushVector, FillWith, Initialize
<1>2. i \in 1 .. Len(m.stack) /\ j \in 1 .. Len(m.stack) /\ Ok(m)
  BY DEF Ready
<1>3. MakeVector(m, i, j) = IF right THEN f ELSE Invalid(m)
  BY <1>1, <1>2, SoundFacts DEF Reads, InStack, Ready
<1> HIDE DEF f
<1>4. CASE ~right
  BY <1>3, <1>4, StopGood
<1>5. CASE right
  <2>1. f.status # "outOfMemory" /\ MakeVector(m, i, j) = f
    BY <1>3, <1>5
  <2>2. Sound(Null, m) /\ OnStack(m, x) /\ n \in Nat
    BY <1>5, AtFacts DEF Ready, IsValue, Fits, FitsScalar
  <2> HIDE DEF n, x
  <2>3. /\ o.type = "internalVector" /\ o.length = n /\ o.initialized = FALSE
        /\ o.values = [k \in 1 .. n |-> Null]
        /\ DOMAIN o = {"type", "length", "initialized", "values"}
        /\ o = [z \in DOMAIN o |-> o[z]]
    BY DEF NewVector
  <2> HIDE DEF o
  <2>4. Fits(m, o) /\ Traced(o) = {}
    <3>1. IsSeq(o.values) /\ Len(o.values) = n /\ \A k \in 1 .. n : o.values[k] = Null
      <4>1. n \in Nat /\ Repeats(o.values, n, Null)
        BY <2>2, <2>3 DEF Repeats
      <4> QED BY <4>1, ConstantSeq
    <3>2. FitsVector(m, o)
      BY <2>3, <3>1 DEF FitsVector
    <3>3. Fits(m, o)
      BY <2>3, <3>2 DEF CellTypes, Fits, FitsScalar, FitsPair, FitsText, FitsClosure, FitsUpvalue
    <3> QED BY <2>3, <3>3, TracedFacts
  <2> DEFINE v == a.cell
  <2>5. /\ Sound(v, a) /\ SameRoots(m, a)
        /\ Ok(a) => v \in InUse(a) /\ a.heap[v] = o
    <3>1. Sound(v, m) /\ o.type # "upvalue" /\ Traced(o) \subseteq Marked(m)
      BY <2>2, <2>3, <2>4, SoundWeaker
    <3>2. a = PushObject(m, o) /\ (Ok(a) => a.cell = v)
      OBVIOUS
    <3> HIDE DEF a, v
    <3> QED BY <2>4, <3>1, <3>2, PushObjectSound
  <2>6. ASSUME ~Ok(a) PROVE FALSE
    <3>1. a.status = "outOfMemory"
      BY <1>2, <2>2, <2>3, <2>4, <2>6, SoundWeaker, PushObjectSound DEF Ok
    <3>2. b = a
      BY <2>6 DEF PushUntracked
    <3>3. c = a
      BY <2>6, <3>2 DEF PushObject
    <3>4. d = a
      BY <2>6, <3>3 DEF SetCell
    <3> HIDE DEF a, b, c, d
    <3>5. f = a
      BY <2>6, <3>4 DEF f, PushTracked, SetCell
    <3> QED BY <2>1, <3>1, <3>5
  <2> HIDE DEF a
  <2>7. IsValue(a, vector) /\ vector.type = "vector" /\ vector.internal_vector = v
    <3>1. Len(a.heap[v].values) = n /\ a.heap[v].type = "internalVector"
      <4>1. n \in Nat /\ Repeats(o.values, n, Null) /\ a.heap[v] = o
        BY <2>2, <2>3, <2>5, <2>6 DEF Repeats
      <4>2. Len(o.values) = n
        BY <4>1, ConstantSeq
      <4> QED BY <2>3, <4>1, <4>2
    <3> QED BY <2>2, <2>5, <2>6, <3>1
            DEF IsValue, ValueTypes, CellTypes, Fits, FitsScalar, FitsPair, FitsText, FitsVector,
                FitsClosure, FitsUpvalue, MayBe, IsOf
  <2> HIDE DEF vector
  <2>8. /\ Sound(v, b) /\ SameHeap(a, b) /\ SameCalls(a, b) /\ Ok(b) /\ b.cell = v
        /\ b.globals = a.globals /\ b.uvs = a.uvs /\ Len(b.stack) = Len(a.stack) + 1
        /\ b.stack[Len(a.stack) + 1] = vector
        /\ \A k \in 1 .. Len(a.stack) : b.stack[k] = a.stack[k]
    BY <2>5, <2>6, <2>7, PushSound DEF Ok
  <2> HIDE DEF b
  <2>9. OnStack(b, vector) /\ OnStack(b, x)
    <3>1. a.stack = m.stack /\ Len(m.stack) \in Nat
      BY <2>2, <2>5, SoundFacts DEF SameRoots
    <3>2. \A k \in 1 .. Len(m.stack) : k \in 1 .. Len(b.stack)
      BY <2>8, <3>1
    <3>3. Len(m.stack) + 1 \in 1 .. Len(b.stack)
      BY <2>8, <3>1
    <3> QED BY <2>2, <2>8, <3>1, <3>2, <3>3 DEF OnStack
  <2>10. v # Null /\ v \in Marked(b) /\ b.heap[v] = o
    <3>1. v # Null /\ b.heap[v] = o
      BY <2>5, <2>6, <2>8, SoundFacts DEF SameHeap
    <3> QED BY <2>7, <2>8, <2>9, <3>1, OnStackReached
  <2>11. /\ Sound(v, c) /\ SameRoots(b, c) /\ v \in InUse(c) /\ c.heap[v] = o
         /\ Ok(c) => IsOf(c, c.cell, ValueTypes)
    BY <2>8, <2>9, <2>10, CopySound
  <2>12. ASSUME ~Ok(c) PROVE FALSE
    <3>1. c.status = "outOfMemory"
      <4>1. /\ Fits(b, x) /\ Traced(x) \subseteq Marked(b) /\ x.type # "internalVector"
            /\ x.type # "upvalue"
        BY <2>8, <2>9, OnStackFacts DEF IsValue, ValueTypes
      <4>2. c.status \in {b.status, "outOfMemory"}
        BY <2>8, <4>1, PushObjectSound
      <4> QED BY <2>8, <2>12, <4>2 DEF Ok
    <3>2. d = c
      BY <2>12 DEF SetCell
    <3> HIDE DEF c, d
    <3>3. f = c
      BY <2>12, <3>2 DEF f, PushTracked, SetCell
    <3> QED BY <2>1, <3>1, <3>3
  <2> HIDE DEF c
  <2> DEFINE p == [o EXCEPT !.values = values]
             q == [p EXCEPT !.initialized = TRUE]
             t == SetCell(c, v, q)
  <2>13. /\ Sound(Null, t) /\ SameRoots(c, t) /\ t.status = c.status
    <3>1. q.type = "internalVector" /\ q.length = n /\ q.initialized = TRUE
          /\ q.values = [k \in 1 .. n |-> c.cell]
          /\ DOMAIN q = {"type", "length", "initialized", "values"}
          /\ q = [z \in DOMAIN q |-> q[z]]
      <4>1. values = [k \in 1 .. n |-> c.cell]
        BY <2>3, <2>8, <2>11
      <4> HIDE DEF values
      <4>2. /\ p.type = "internalVector" /\ p.length = n /\ p.values = values
            /\ DOMAIN p = {"type", "length", "initialized", "values"}
        BY <2>3
      <4> HIDE DEF p
      <4> QED BY <4>1, <4>2
    <3> HIDE DEF q
    <3>2. IsSeq(q.values) /\ Len(q.values) = n /\ \A k \in 1 .. n : q.values[k] = c.cell
      <4>1. n \in Nat /\ Repeats(q.values, n, c.cell)
        BY <2>2, <3>1 DEF Repeats
      <4> QED BY <4>1, ConstantSeq
    <3>3. FitsVector(c, q)
      BY <2>11, <2>12, <3>1, <3>2 DEF FitsVector
    <3>4. Fits(c, q)
      BY <3>1, <3>3 DEF CellTypes, Fits, FitsScalar, FitsPair, FitsText, FitsClosure, FitsUpvalue
    <3>5. Alike(o, q)
      <4>1. Len(o.values) = n
        <5>1. n \in Nat /\ Repeats(o.values, n, Null)
          BY <2>2, <2>3 DEF Repeats
        <5> QED BY <5>1, ConstantSeq
      <4> QED BY <2>3, <3>1, <3>2, <4>1 DEF Alike
    <3>6. c.heap[v].type \notin ValueTypes \cup {"upvalue"}
      BY <2>3, <2>11 DEF ValueTypes
    <3> QED BY <2>11, <2>12, <3>1, <3>4, <3>5, <3>6, SetCellSound
  <2>14. /\ DOMAIN c = Fields /\ v \in DOMAIN c.heap
    BY <2>11, SoundFacts
  <2>15. /\ DOMAIN d = Fields /\ d.heap = [c.heap EXCEPT ![v] = [o EXCEPT !.values = values]]
         /\ SameRoots(c, d) /\ d.free = c.free /\ d.status = c.status
    <3>1. d = [c EXCEPT !.heap[v] = [o EXCEPT !.values = values]]
      BY <2>8, <2>11, <2>12 DEF SetCell
    <3> HIDE DEF d, values
    <3> QED BY <2>14, <3>1 DEF Fields, SameRoots
  <2>16. d.heap[v] = [o EXCEPT !.values = values]
    <3> HIDE DEF d, values
    <3> QED BY <2>14, <2>15
  <2>17. [d.heap[v] EXCEPT !.initialized = TRUE] = q
    BY <2>16
  <2> HIDE DEF d, values, q, p
  <2>18. f = [d EXCEPT !.uvs = Append(@, Null), !.heap[v] = q]
    <3>1. Ok(d)
      BY <2>12, <2>15 DEF Ok
    <3>2. PushTracked(d) = [d EXCEPT !.uvs = Append(@, Null)]
      BY <3>1 DEF PushTracked
    <3>3. Ok(PushTracked(d))
      BY <2>15, <3>1, <3>2 DEF Ok, Fields
    <3>4. f = [PushTracked(d) EXCEPT !.heap[v] = q]
      BY <2>8, <2>17, <3>3 DEF f, SetCell
    <3> QED BY <3>2, <3>4
  <2>19. /\ DOMAIN f = Fields /\ f.free = c.free /\ f.uvs = Append(c.uvs, Null)
         /\ f.stack = c.stack /\ f.globals = c.globals /\ SameCalls(c, f)
         /\ f.heap = [d.heap EXCEPT ![v] = q]
    BY <2>15, <2>18 DEF Fields, SameRoots, SameCalls
  <2>20. f.heap = [c.heap EXCEPT ![v] = q]
    BY <2>15, <2>19
  <2>21. t = [c EXCEPT !.heap[v] = q]
    BY <2>12 DEF SetCell
  <2> HIDE DEF t
  <2>22. /\ SameHeap(t, f) /\ f.globals = t.globals /\ SameCalls(t, f) /\ f.stack = t.stack
         /\ f.uvs = Append(t.uvs, Null)
    BY <2>14, <2>19, <2>20, <2>21 DEF Fields, SameHeap, SameCalls
  <2>23. /\ IsSeq(f.uvs) /\ Len(f.uvs) = Len(t.uvs) + 1
         /\ f.uvs[Len(t.uvs) + 1] = Null
         /\ \A k \in 1 .. Len(t.uvs) : f.uvs[k] = t.uvs[k]
    BY <2>13, <2>22, SoundFacts, SeqAppend
  <2>24. Sound(Null, f)
    <3>1. /\ IsSeq(t.stack) /\ \A k \in 1 .. Len(t.stack) : IsValue(t, t.stack[k])
          /\ \A k \in 1 .. Len(t.uvs) : MayBe(t, t.uvs[k], {"upvalue"})
          /\ Len(t.uvs) \in Nat /\ Base(t) \in 0 .. Len(t.uvs)
      BY <2>13, SoundFacts, BaseFacts
    <3>2. Len(t.uvs) = Len(m.uvs) /\ Len(t.stack) = Len(m.stack) + 1
      BY <2>5, <2>8, <2>11, <2>13 DEF SameRoots
    <3>3. Len(f.uvs) >= Base(t) /\ Len(f.uvs) <= Len(f.stack)
      BY <2>22, <2>23, <3>1, <3>2 DEF Ready, Aligned
    <3>4. \A k \in 1 .. Len(f.uvs) : MayBe(t, f.uvs[k], {"upvalue"})
      <4>1. \A k \in 1 .. Len(f.uvs) : k \in 1 .. Len(t.uvs) \/ k = Len(t.uvs) + 1
        BY <2>23, <3>1
      <4> QED BY <2>23, <3>1, <4>1 DEF MayBe
    <3>5. \A k \in 1 .. Base(t) : k \in 1 .. Len(t.uvs)
      BY <3>1
    <3>6. \A k : Opens(t, k) =>
            k \in 1 .. Len(f.uvs) /\ f.uvs[k] = t.uvs[k] /\ f.stack[k] = t.stack[k]
      BY <2>13, <2>22, <2>23, <3>1, SoundFacts
    <3> QED BY <2>13, <2>22, <2>23, <3>1, <3>3, <3>4, <3>5, <3>6, SlotsChanged
  <2>25. Aligned(f) /\ f.current = m.current
    <3>1. c.stack = b.stack /\ c.uvs = b.uvs /\ c.current = b.current
      BY <2>11 DEF SameRoots
    <3>2. Len(f.stack) = Len(m.stack) + 1 /\ Len(f.uvs) = Len(m.uvs) + 1
      BY <2>5, <2>8, <2>13, <2>22, <2>23, <3>1 DEF SameRoots
    <3>3. f.current = m.current
      BY <2>5, <2>8, <2>19, <3>1 DEF SameRoots, SameCalls
    <3> QED BY <3>2, <3>3 DEF Aligned, Ready
  <2> QED BY <2>1, <2>24, <2>25 DEF Good
<1> QED BY <1>4, <1>5

-----------------------------------------------------------------------------
(* The folds over the operands of an instruction.                          *)

\* The steps that are folded: an argument is added to a list, a variable is
\* captured or released, and main links one callback.
Step(p, m, k) ==
  CASE p.by = "grow" -> Grow(m, k)
    [] p.by = "link" -> LinkCFunction(m, p.over[k].key, p.over[k].callback)
    [] p.by = "release" -> ReleaseUpvalue(m, p.over[k])
    [] p.by = "capture" -> Capture(m, p.array, k, p.over[k])

\* What folding does for every set of the operands, the last one last.
Folds(iter, p, m, n) ==
  iter = [s \in SUBSET (1 .. n) |-> IF s = {} THEN m ELSE Step(p, iter[s \ {Max(s)}], Max(s))]

LEMMA MaxIs ==
  ASSUME NEW n \in Nat, NEW s, s \subseteq 1 .. n, NEW k \in s, \A j \in s : j <= k
  PROVE  Max(s) = k
<1>1. PICK x \in s : x = Max(s) /\ \A y \in s : x >= y
  BY MaxIsLast
<1>2. x \in 1 .. n /\ k \in 1 .. n /\ x >= k /\ x <= k
  BY <1>1
<1>3. x = k
  BY <1>2
<1> QED BY <1>1, <1>3

LEMMA FoldExists ==
  ASSUME NEW p, NEW m, NEW n \in Nat
  PROVE  \E iter : Folds(iter, p, m, n)
<1> DEFINE T == { k \in Nat : ~\E iter : Folds(iter, p, m, k) }
<1>1. 0 \notin T
  <2>1. Folds([s \in SUBSET (1 .. 0) |-> m], p, m, 0)
    BY DEF Folds
  <2> QED BY <2>1
<1>2. ASSUME NEW k \in Nat, k \notin T
      PROVE  k + 1 \notin T
  <2>1. PICK h : Folds(h, p, m, k)
    BY <1>2
  <2> DEFINE f == [s \in SUBSET (1 .. k + 1) |->
                     IF k + 1 \in s THEN Step(p, h[s \ {k + 1}], k + 1) ELSE h[s]]
  <2>2. ASSUME NEW s \in SUBSET (1 .. k + 1)
        PROVE  f[s] = IF s = {} THEN m ELSE Step(p, f[s \ {Max(s)}], Max(s))
    <3>1. CASE k + 1 \in s
      <4>1. Max(s) = k + 1
        <5>1. s \subseteq 1 .. k + 1 /\ k + 1 \in Nat /\ \A j \in s : j <= k + 1
          OBVIOUS
        <5> QED BY <3>1, <5>1, MaxIs
      <4>2. s \ {k + 1} \in SUBSET (1 .. k + 1) /\ k + 1 \notin s \ {k + 1}
        OBVIOUS
      <4>3. f[s \ {k + 1}] = h[s \ {k + 1}]
        BY <4>2
      <4> QED BY <3>1, <4>1, <4>3
    <3>2. CASE k + 1 \notin s
      <4>1. s \in SUBSET (1 .. k)
        BY <3>2
      <4>2. h[s] = IF s = {} THEN m ELSE Step(p, h[s \ {Max(s)}], Max(s))
        BY <2>1, <4>1 DEF Folds
      <4>3. s \ {Max(s)} \in SUBSET (1 .. k + 1) /\ k + 1 \notin s \ {Max(s)}
        BY <3>2
      <4>4. f[s \ {Max(s)}] = h[s \ {Max(s)}] /\ f[s] = h[s]
        BY <3>2, <4>3
      <4> QED BY <4>2, <4>4
    <3> QED BY <3>1, <3>2
  <2>3. f = [s \in SUBSET (1 .. k + 1) |-> f[s]]
    OBVIOUS
  <2> HIDE DEF f
  <2>4. Folds(f, p, m, k + 1)
    BY <2>2, <2>3 DEF Folds
  <2> QED BY <2>4
<1> HIDE DEF T
<1>3. T \subseteq Nat
  BY DEF T
<1>4. ASSUME T # {} PROVE FALSE
  <2>1. PICK k \in T : \A j \in T : k <= j
    BY <1>3, <1>4, LeastExists
  <2>2. k \in Nat /\ k # 0
    BY <1>1, <1>3, <2>1
  <2>3. k - 1 \in Nat /\ k - 1 \notin T
    BY <2>1, <2>2
  <2>4. (k - 1) + 1 \notin T
    BY <1>2, <2>3
  <2> QED BY <2>2, <2>4
<1> QED BY <1>4 DEF T

\* The machines between the steps of a fold.
Stages(a, p, m, n) == a[0] = m /\ \A k \in 1 .. n : a[k] = Step(p, a[k - 1], k)

LEMMA FoldStages ==
  ASSUME NEW p, NEW m, NEW n \in Nat, NEW iter, Folds(iter, p, m, n)
  PROVE  \E a : Stages(a, p, m, n) /\ iter[1 .. n] = a[n]
<1> DEFINE a == [k \in 0 .. n |-> iter[1 .. k]]
<1>1. \A s \in SUBSET (1 .. n) :
        iter[s] = IF s = {} THEN m ELSE Step(p, iter[s \ {Max(s)}], Max(s))
  BY DEF Folds
<1>2. a[0] = m
  BY <1>1
<1>3. ASSUME NEW k \in 1 .. n
      PROVE  a[k] = Step(p, a[k - 1], k)
  <2>1. k \in 1 .. k /\ 1 .. k \in SUBSET (1 .. n) /\ (1 .. k) \ {k} = 1 .. (k - 1)
    OBVIOUS
  <2>2. Max(1 .. k) = k
    <3>1. k \in Nat /\ 1 .. k \subseteq 1 .. k /\ \A j \in 1 .. k : j <= k
      OBVIOUS
    <3> QED BY <2>1, <3>1, MaxIs
  <2>3. iter[1 .. k] = Step(p, iter[1 .. (k - 1)], k)
    BY <1>1, <2>1, <2>2
  <2>4. a[k] = iter[1 .. k] /\ a[k - 1] = iter[1 .. (k - 1)]
    OBVIOUS
  <2> QED BY <2>3, <2>4
<1>4. iter[1 .. n] = a[n]
  OBVIOUS
<1> HIDE DEF a
<1> QED BY <1>2, <1>3, <1>4 DEF Stages

LEMMA GrowStages ==
  ASSUME NEW m, NEW n \in Nat
  PROVE  \E a : /\ Stages(a, [by |-> "grow"], m, n)
                /\ FoldLeftDomain(Grow, m, [k \in 1 .. n |-> k]) = a[n]
<1> DEFINE p == [by |-> "grow"]
           q == [j \in DOMAIN [k \in 1 .. n |-> k] |-> j]
           i == CHOOSE iter : iter = [s \in SUBSET DOMAIN q |->
                  IF s = {} THEN m ELSE Grow(iter[s \ {Max(s)}], q[Max(s)])]
<1>1. FoldLeftDomain(Grow, m, [k \in 1 .. n |-> k]) = i[DOMAIN q]
  BY DEF FoldLeftDomain, FoldLeft, MapThenFoldSet
<1>2. DOMAIN q = 1 .. n /\ \A k \in 1 .. n : q[k] = k
  OBVIOUS
<1> HIDE DEF q
<1>3. \A x, k : Step(p, x, k) = Grow(x, k)
  BY DEF Step
<1>4. \A s \in SUBSET (1 .. n) : s # {} => q[Max(s)] = Max(s)
  BY <1>2, MaxIsLast
<1>5. \A iter : Folds(iter, p, m, n) <=>
        iter = [s \in SUBSET DOMAIN q |->
                  IF s = {} THEN m ELSE Grow(iter[s \ {Max(s)}], q[Max(s)])]
  <2> SUFFICES ASSUME NEW iter
               PROVE  [s \in SUBSET (1 .. n) |->
                         IF s = {} THEN m ELSE Step(p, iter[s \ {Max(s)}], Max(s))]
                        = [s \in SUBSET DOMAIN q |->
                             IF s = {} THEN m ELSE Grow(iter[s \ {Max(s)}], q[Max(s)])]
    BY DEF Folds
  <2> HIDE DEF p
  <2>1. \A s \in SUBSET (1 .. n) :
          s # {} => Step(p, iter[s \ {Max(s)}], Max(s)) = Grow(iter[s \ {Max(s)}], q[Max(s)])
    BY <1>3, <1>4
  <2> QED BY <1>2, <2>1
<1>6. \E iter : Folds(iter, p, m, n)
  BY FoldExists
<1> HIDE DEF p
<1>7. Folds(i, p, m, n)
  BY <1>5, <1>6, Zenon
<1> HIDE DEF i
<1>8. \E a : Stages(a, p, m, n) /\ i[1 .. n] = a[n]
  BY <1>7, FoldStages
<1> QED BY <1>1, <1>2, <1>8 DEF p

LEMMA LinkStages ==
  ASSUME NEW m, NEW over, IsSeq(over)
  PROVE  \E a : /\ Stages(a, [by |-> "link", over |-> over], m, Len(over))
                /\ LET link(x, f) == LinkCFunction(x, f.key, f.callback)
                   IN  FoldLeft(link, m, over) = a[Len(over)]
<1> DEFINE p == [by |-> "link", over |-> over]
           n == Len(over)
           link(x, f) == LinkCFunction(x, f.key, f.callback)
           i == CHOOSE iter : iter = [s \in SUBSET DOMAIN over |->
                  IF s = {} THEN m ELSE link(iter[s \ {Max(s)}], over[Max(s)])]
<1>1. FoldLeft(link, m, over) = i[DOMAIN over]
  BY DEF FoldLeft, MapThenFoldSet
<1>2. DOMAIN over = 1 .. n /\ n \in Nat
  BY SeqDomain
<1> HIDE DEF n
<1>3. \A x, k : Step(p, x, k) = LinkCFunction(x, over[k].key, over[k].callback)
  BY DEF Step
<1>4. \A iter : Folds(iter, p, m, n) <=>
        iter = [s \in SUBSET DOMAIN over |->
                  IF s = {} THEN m ELSE link(iter[s \ {Max(s)}], over[Max(s)])]
  <2> SUFFICES ASSUME NEW iter
               PROVE  [s \in SUBSET (1 .. n) |->
                         IF s = {} THEN m ELSE Step(p, iter[s \ {Max(s)}], Max(s))]
                        = [s \in SUBSET DOMAIN over |->
                             IF s = {} THEN m ELSE link(iter[s \ {Max(s)}], over[Max(s)])]
    BY DEF Folds
  <2> HIDE DEF p
  <2> QED BY <1>2, <1>3
<1>5. \E iter : Folds(iter, p, m, n)
  BY <1>2, FoldExists
<1> HIDE DEF p
<1>6. Folds(i, p, m, n)
  BY <1>4, <1>5, Zenon
<1> HIDE DEF i
<1>7. \E a : Stages(a, p, m, n) /\ i[1 .. n] = a[n]
  BY <1>2, <1>6, FoldStages
<1> QED BY <1>1, <1>2, <1>7 DEF p, n

\* One upvalue is released.
LEMMA ReleaseOne ==
  ASSUME NEW m, NEW o
  PROVE  ReleaseUpvalues(m, << o >>) = ReleaseUpvalue(m, o)
<1> DEFINE over == << o >>
           p == [by |-> "release", over |-> over]
           i == CHOOSE iter : iter = [s \in SUBSET DOMAIN over |->
                  IF s = {} THEN m ELSE ReleaseUpvalue(iter[s \ {Max(s)}], over[Max(s)])]
<1>1. ReleaseUpvalues(m, over) = i[DOMAIN over]
  BY DEF ReleaseUpvalues, FoldLeft, MapThenFoldSet
<1>2. DOMAIN over = 1 .. 1 /\ over[1] = o
  OBVIOUS
<1> HIDE DEF over
<1>3. \A x, k : Step(p, x, k) = ReleaseUpvalue(x, over[k])
  BY DEF Step
<1>4. \A iter : Folds(iter, p, m, 1) <=>
        iter = [s \in SUBSET DOMAIN over |->
                  IF s = {} THEN m ELSE ReleaseUpvalue(iter[s \ {Max(s)}], over[Max(s)])]
  <2> SUFFICES ASSUME NEW iter
               PROVE  [s \in SUBSET (1 .. 1) |->
                         IF s = {} THEN m ELSE Step(p, iter[s \ {Max(s)}], Max(s))]
                        = [s \in SUBSET DOMAIN over |->
                             IF s = {} THEN m
                             ELSE ReleaseUpvalue(iter[s \ {Max(s)}], over[Max(s)])]
    BY DEF Folds
  <2> HIDE DEF p
  <2> QED BY <1>2, <1>3
<1>5. \E iter : Folds(iter, p, m, 1)
  BY FoldExists
<1> HIDE DEF p
<1>6. Folds(i, p, m, 1)
  BY <1>4, <1>5, Zenon
<1> HIDE DEF i
<1>7. PICK a : Stages(a, p, m, 1) /\ i[1 .. 1] = a[1]
  <2> DEFINE n == 1
  <2>1. n \in Nat /\ Folds(i, p, m, n)
    BY <1>6
  <2> HIDE DEF n
  <2>2. \E a : Stages(a, p, m, n) /\ i[1 .. n] = a[n]
    BY <2>1, FoldStages
  <2> QED BY <2>2 DEF n
<1>8. a[1] = ReleaseUpvalue(m, o)
  BY <1>2, <1>3, <1>7 DEF Stages
<1> QED BY <1>1, <1>2, <1>7, <1>8 DEF over

\* The operands of push-closure are captured one after another.
LEMMA CaptureStages ==
  ASSUME NEW m, NEW closure, NEW over, IsSeq(over)
  PROVE  \E a : /\ Stages(a, [by |-> "capture", array |-> closure.upvalue_array, over |-> over],
                           PushUntracked(m, closure), Len(over))
                /\ CaptureAll(m, closure, over) = a[Len(over)]
<1> DEFINE p == [by |-> "capture", array |-> closure.upvalue_array, over |-> over]
           n == Len(over)
           q == [j \in DOMAIN over |-> j]
           b == PushUntracked(m, closure)
           c(acc, k) == Capture(acc, closure.upvalue_array, k, over[k])
           i == CHOOSE iter : iter = [s \in SUBSET DOMAIN q |->
                  IF s = {} THEN b ELSE c(iter[s \ {Max(s)}], q[Max(s)])]
<1>1. CaptureAll(m, closure, over) = i[DOMAIN q]
  BY DEF CaptureAll, FoldLeftDomain, FoldLeft, MapThenFoldSet
<1>2. DOMAIN over = 1 .. n /\ n \in Nat
  BY SeqDomain
<1>3. DOMAIN q = 1 .. n /\ \A k \in 1 .. n : q[k] = k
  BY <1>2
<1> HIDE DEF q, n, b
<1>4. \A x, k : Step(p, x, k) = c(x, k)
  BY DEF Step
<1>5. \A s \in SUBSET (1 .. n) : s # {} => q[Max(s)] = Max(s)
  BY <1>2, <1>3, MaxIsLast
<1>6. \A iter : Folds(iter, p, b, n) <=>
        iter = [s \in SUBSET DOMAIN q |->
                  IF s = {} THEN b ELSE c(iter[s \ {Max(s)}], q[Max(s)])]
  <2> SUFFICES ASSUME NEW iter
               PROVE  [s \in SUBSET (1 .. n) |->
                         IF s = {} THEN b ELSE Step(p, iter[s \ {Max(s)}], Max(s))]
                        = [s \in SUBSET DOMAIN q |->
                             IF s = {} THEN b ELSE c(iter[s \ {Max(s)}], q[Max(s)])]
    BY DEF Folds
  <2> HIDE DEF p, c
  <2>1. \A s \in SUBSET (1 .. n) :
          s # {} => Step(p, iter[s \ {Max(s)}], Max(s)) = c(iter[s \ {Max(s)}], q[Max(s)])
    BY <1>4, <1>5
  <2> QED BY <1>3, <2>1
<1>7. \E iter : Folds(iter, p, b, n)
  BY <1>2, FoldExists
<1> HIDE DEF p, c
<1>8. Folds(i, p, b, n)
  BY <1>6, <1>7, Zenon
<1> HIDE DEF i
<1>9. \E a : Stages(a, p, b, n) /\ i[1 .. n] = a[n]
  BY <1>2, <1>8, FoldStages
<1> QED BY <1>1, <1>3, <1>9 DEF p, n, b

\* An upvalue is made, for a place on the stack or for another upvalue.
LEMMA NewUpvalue ==
  ASSUME NEW w, NEW m, Sound(w, m), MayCapture, NEW o, o = Upvalue(o.kind, o.target),
         \/ o.kind = "stack"
         \/ o.kind = "upvalue" /\ IsOf(m, o.target, {"upvalue"}) /\ o.target \in Marked(m),
         NEW h, h = PushObject(m, o)
  PROVE  /\ Solid(w, h) /\ SameRoots(m, h)
         /\ \A c \in Marked(m) : c \in InUse(h) /\ h.heap[c] = m.heap[c]
         /\ Ok(h) =>
              /\ h.cell \in InUse(h) /\ h.heap[h.cell] = o /\ h.cell \notin Marked(m) /\ Ok(m)
              /\ Ranked(h)
              /\ \A c \in InUse(h) : c # h.cell /\ h.heap[c].type = "upvalue" =>
                   /\ c \in InUse(m) /\ h.heap[c] = m.heap[c]
                   /\ h.heap[c].kind = "object" =>
                        h.heap[h.heap[c].target] = m.heap[h.heap[c].target]
                   /\ h.heap[c].kind = "stack" =>
                        h.heap[c].target \in 1 .. Len(m.uvs) /\ m.uvs[h.heap[c].target] = c
         /\ ~Ok(m) => h = m
         /\ Ok(m) /\ ~Ok(h) => h.status = "outOfMemory" /\ h.free = {}
<1>1. /\ o.type = "upvalue" /\ "car" \notin DOMAIN o /\ "cdr" \notin DOMAIN o
      /\ o = [f \in DOMAIN o |-> o[f]]
  <2>1. o = [type |-> "upvalue", kind |-> o.kind, target |-> o.target]
    BY DEF Upvalue
  <2> QED BY <2>1
<1>2. Fits(m, o)
  BY <1>1 DEF CellTypes, Fits, FitsScalar, FitsPair, FitsText, FitsVector, FitsClosure, FitsUpvalue
<1>3. Traced(o) \subseteq Marked(m)
  BY <1>1, TracedFacts
<1>4. /\ Solid(w, h) /\ SameRoots(m, h)
      /\ \A c \in Marked(m) : c \in InUse(h) /\ h.heap[c] = m.heap[c]
      /\ Ok(h) => /\ h.cell \in InUse(h) /\ h.heap[h.cell] = o /\ h.cell \in Cells
                  /\ h.cell \notin Marked(m) /\ h.cell \notin InUse(Room(m)) /\ Ok(m)
                  /\ \A c \in InUse(Room(m)) : c \in InUse(h) /\ h.heap[c] = m.heap[c]
                  /\ \A c \in InUse(h) :
                       \/ c = h.cell
                       \/ c \in InUse(Room(m)) /\ c \in InUse(m) /\ h.heap[c] = m.heap[c]
      /\ ~Ok(m) => h = m
      /\ h.status \in {m.status, "outOfMemory"}
      /\ Ok(m) /\ ~Ok(h) => h.free = {}
  BY <1>1, <1>2, <1>3, PushObjectSolid
<1>5. SoundUpvalues(m) /\ Sound(w, Room(m))
  BY RoomSound DEF Sound
<1>6. \A c \in InUse(Room(m)) : Fits(Room(m), m.heap[c])
  BY <1>5, RoomSound DEF Sound, SoundHeap
<1>7. ASSUME Ok(h), NEW c \in InUse(h), c # h.cell, h.heap[c].type = "upvalue"
      PROVE  /\ c \in InUse(m) /\ c \in InUse(Room(m)) /\ h.heap[c] = m.heap[c]
             /\ h.heap[c].kind # "stack" => h.heap[c].target \in InUse(Room(m))
  BY <1>4, <1>6, <1>7 DEF Fits, FitsUpvalue, IsOf
<1>8. ASSUME Ok(h)
      PROVE  Ranked(h)
  <2>1. PICK rank \in [Cells -> Nat] :
          \A c \in InUse(m) :
            m.heap[c].type = "upvalue" /\ m.heap[c].kind = "upvalue"
              => rank[m.heap[c].target] < rank[c]
    BY <1>5 DEF SoundUpvalues, Ranked
  <2> DEFINE n == IF o.kind = "upvalue" THEN rank[o.target] + 1 ELSE 0
             later == [rank EXCEPT ![h.cell] = n]
  <2>2. o.kind = "upvalue" => o.target # h.cell /\ o.target \in Cells
    BY <1>4, <1>8, SoundFacts DEF IsOf
  <2>3. n \in Nat
    BY <2>1, <2>2
  <2>4. later \in [Cells -> Nat] /\ later[h.cell] = n /\ \A c \in Cells : c # h.cell => later[c] = rank[c]
    BY <1>4, <1>8, <2>1, <2>3
  <2> HIDE DEF later
  <2>5. ASSUME NEW c \in InUse(h), h.heap[c].type = "upvalue", h.heap[c].kind = "upvalue"
        PROVE  later[h.heap[c].target] < later[c]
    <3>1. CASE c = h.cell
      <4>1. h.heap[c].target = o.target /\ o.kind = "upvalue"
        BY <1>4, <1>8, <2>5, <3>1
      <4>2. rank[o.target] \in Nat /\ n = rank[o.target] + 1
        BY <2>1, <2>2, <4>1
      <4> QED BY <2>2, <2>4, <3>1, <4>1, <4>2
    <3>2. CASE c # h.cell
      <4>1. /\ c \in InUse(m) /\ h.heap[c] = m.heap[c] /\ h.heap[c].target # h.cell
            /\ h.heap[c].target \in Cells /\ c \in Cells
        BY <1>4, <1>5, <1>7, <1>8, <2>5, <3>2, SoundFacts
      <4> QED BY <2>1, <2>4, <2>5, <3>2, <4>1
    <3> QED BY <3>1, <3>2
  <2> QED BY <2>4, <2>5 DEF Ranked
<1>9. ASSUME Ok(h), NEW c \in InUse(h), c # h.cell, h.heap[c].type = "upvalue"
      PROVE  /\ c \in InUse(m) /\ h.heap[c] = m.heap[c]
             /\ h.heap[c].kind = "object" => h.heap[h.heap[c].target] = m.heap[h.heap[c].target]
             /\ h.heap[c].kind = "stack" =>
                  h.heap[c].target \in 1 .. Len(m.uvs) /\ m.uvs[h.heap[c].target] = c
  <2>1. /\ c \in InUse(m) /\ h.heap[c] = m.heap[c]
        /\ h.heap[c].kind # "stack" => h.heap[c].target \in InUse(Room(m))
    BY <1>7, <1>9
  <2> QED BY <1>4, <1>5, <1>9, <2>1 DEF SoundUpvalues
<1> QED BY <1>4, <1>8, <1>9 DEF Ok

\* The place that an upvalue was made for gets it as its entry.
LEMMA NewUpvalueSound ==
  ASSUME NEW w, NEW m, Sound(w, m), MayCapture, NEW o, o = Upvalue(o.kind, o.target),
         \/ o.kind = "stack"
         \/ o.kind = "upvalue" /\ IsOf(m, o.target, {"upvalue"}) /\ o.target \in Marked(m),
         Marked(vm) \subseteq Marked(m),
         NEW made, made = PushObject(m, o), Ok(made),
         NEW h, SameHeap(made, h), h.globals = m.globals, SameCalls(m, h), h.stack = m.stack,
         IsSeq(h.uvs), Len(h.uvs) >= Len(m.uvs), Len(h.uvs) <= Len(h.stack),
         \A i \in 1 .. Len(h.uvs) : MayBe(made, h.uvs[i], {"upvalue"}),
         \A i \in 1 .. Len(m.uvs) : m.uvs[i] # Null => h.uvs[i] = m.uvs[i],
         \A i \in 1 .. Base(m) : h.uvs[i] = m.uvs[i],
         o.kind = "stack" => o.target \in 1 .. Len(h.uvs) /\ h.uvs[o.target] = made.cell
  PROVE  Sound(w, h)
<1>1. /\ Solid(w, made) /\ SameRoots(m, made)
      /\ \A c \in Marked(m) : c \in InUse(made) /\ made.heap[c] = m.heap[c]
      /\ made.cell \in InUse(made) /\ made.heap[made.cell] = o /\ made.cell \notin Marked(m)
      /\ Ranked(made)
      /\ \A c \in InUse(made) : c # made.cell /\ made.heap[c].type = "upvalue" =>
           /\ c \in InUse(m) /\ made.heap[c] = m.heap[c]
           /\ made.heap[c].kind = "object" =>
                made.heap[made.heap[c].target] = m.heap[made.heap[c].target]
           /\ made.heap[c].kind = "stack" =>
                made.heap[c].target \in 1 .. Len(m.uvs) /\ m.uvs[made.heap[c].target] = c
  BY NewUpvalue
<1>2. SoundUpvalues(m) /\ Keeps(m) /\ Solid(w, m) /\ o.kind # "object"
  BY DEF Sound, Solid
<1>3. /\ h.heap = made.heap /\ InUse(h) = InUse(made) /\ Null \notin InUse(made)
      /\ Len(h.uvs) \in Nat /\ Len(m.uvs) \in Nat
      /\ Base(m) \in 0 .. Len(m.uvs)
  <2>1. Null \notin InUse(made)
    BY <1>1 DEF Solid, SoundHeap, InUse, Cells, Null
  <2>2. Len(h.uvs) \in Nat
    BY SeqDomain
  <2> QED BY <2>1, <2>2, BaseFacts DEF SameHeap, InUse
<1>4. Solid(w, h)
  <2>1. /\ SameHeap(made, h) /\ h.globals = made.globals /\ SameCalls(made, h)
        /\ IsSeq(h.stack) /\ h.stack = made.stack /\ Base(made) = Base(m) /\ made.uvs = m.uvs
    BY <1>1 DEF SameRoots, SameCalls, Base, Solid, SoundRoots
  <2>2. \A i \in 1 .. Len(h.stack) : IsValue(made, h.stack[i])
    BY <1>1, <2>1 DEF Solid, SoundRoots
  <2>3. Len(h.uvs) >= Base(made)
    BY <1>3, <2>1
  <2> QED BY <1>1, <2>1, <2>2, <2>3, SlotsSolid
<1>5. \A k \in DOMAIN m.globals : m.globals[k] \in Marked(m)
  BY <1>2, RootsInUse, MarkedInUse
<1>6. SoundUpvalues(h)
  <2>1. Ranked(h)
    BY <1>1, <1>3 DEF Ranked
  <2>2. ASSUME NEW c \in InUse(h), h.heap[c].type = "upvalue", h.heap[c].kind = "stack"
        PROVE  h.heap[c].target \in 1 .. Len(h.uvs) /\ h.uvs[h.heap[c].target] = c
    <3>1. CASE c = made.cell
      BY <1>1, <1>3, <2>2, <3>1
    <3>2. CASE c # made.cell
      <4>1. h.heap[c].target \in 1 .. Len(m.uvs) /\ m.uvs[h.heap[c].target] = c /\ c # Null
        BY <1>1, <1>3, <2>2, <3>2
      <4>2. h.heap[c].target \in 1 .. Len(h.uvs)
        BY <1>3, <4>1
      <4> QED BY <4>1, <4>2
    <3> QED BY <3>1, <3>2
  <2>3. MayCapture => \A k \in DOMAIN h.globals :
          /\ h.heap[h.globals[k]].type = "function"
          /\ \A c \in InUse(h) : h.heap[c].type = "upvalue" /\ h.heap[c].kind = "object"
                                    => h.heap[c].target # h.globals[k]
    BY <1>1, <1>2, <1>3, <1>5 DEF SoundUpvalues
  <2> QED BY <2>1, <2>2, <2>3 DEF SoundUpvalues
<1>7. Keeps(h)
  <2> SUFFICES ASSUME NEW c \in InUse(h), c \in Marked(vm), h.heap[c].type = "upvalue"
               PROVE  /\ vm.heap[c].type = "upvalue"
                      /\ h.heap[c].kind = "upvalue" => h.heap[c] = vm.heap[c]
                      /\ h.heap[c].kind # "upvalue" =>
                           /\ vm.heap[c].kind # "upvalue"
                           /\ Content(h, h.heap[c]) = Content(vm, vm.heap[c])
    BY Zenon DEF Keeps
  <2>1. /\ c \in InUse(m) /\ h.heap[c] = m.heap[c] /\ m.heap[c].type = "upvalue"
        /\ h.heap[c].kind = "object" => h.heap[h.heap[c].target] = m.heap[h.heap[c].target]
    BY <1>1, <1>3
  <2>2. Content(h, h.heap[c]) = Content(m, m.heap[c])
    BY <2>1 DEF Content
  <2>3. /\ vm.heap[c].type = "upvalue"
        /\ m.heap[c].kind = "upvalue" => m.heap[c] = vm.heap[c]
        /\ m.heap[c].kind # "upvalue" =>
             vm.heap[c].kind # "upvalue" /\ Content(m, m.heap[c]) = Content(vm, vm.heap[c])
    BY <1>2, <2>1 DEF Keeps
  <2> QED BY <2>1, <2>2, <2>3
<1> QED BY <1>4, <1>6, <1>7 DEF Sound, Solid

\* An upvalue that the running function has can be reached.
LEMMA CapturedFacts ==
  ASSUME NEW w, NEW m, Sound(w, m), NEW n, Captured(m, n)
  PROVE  /\ IsOf(m, m.heap[OwnArray(m)].upvalues[n], {"upvalue"})
         /\ m.heap[OwnArray(m)].upvalues[n] \in Marked(m)
<1> DEFINE k == Len(m.frames)
           x == m.stack[m.frames[k].base]
           array == m.heap[OwnArray(m)]
<1>1. /\ OwnArray(m) # Null /\ n \in DOMAIN array.upvalues /\ array.upvalues[n] # Null
      /\ m.frames # << >> /\ OwnArray(m) = m.frames[k].upvalues
  BY DEF Captured, OwnArray, Last
<1>2. k \in 1 .. Len(m.frames) /\ Solid(w, m)
  BY <1>1, BaseFacts DEF Sound, Solid
<1>3. /\ m.frames[k].base \in 1 .. Len(m.stack)
      /\ x.type = "closure" /\ x.upvalue_array = OwnArray(m)
  BY <1>1, <1>2 DEF Solid, SoundCalls
<1>4. IsOf(m, OwnArray(m), {"upvalueArray"})
  BY <1>3, SoundFacts DEF IsValue, Fits, FitsClosure
<1>5. OwnArray(m) \in Marked(m)
  <2>1. OwnArray(m) \in Traced(x)
    BY <1>1, <1>3, TracedFacts
  <2> HIDE DEF x, k
  <2> QED BY <1>2, <1>3, <2>1, RootsInUse, MarkedInUse DEF x
<1> HIDE DEF k, x
<1>6. /\ array.type = "upvalueArray" /\ MayBe(m, array.upvalues[n], {"upvalue"})
  BY <1>1, <1>4, SoundFacts DEF IsOf, Fits, FitsUpvalue
<1>7. array.upvalues[n] \in Traced(array)
  BY <1>1, <1>6, TracedFacts DEF Range
<1> QED BY <1>1, <1>2, <1>5, <1>6, <1>7, MarkedInUse DEF MayBe

\* What the collector reached is still reached when more has come on the
\* stacks.
LEMMA MarkedGrows ==
  ASSUME NEW m, Solid(Null, m), NEW h, Solid(Null, h),
         Len(h.stack) >= Len(m.stack), \A i \in 1 .. Len(m.stack) : h.stack[i] = m.stack[i],
         Len(h.uvs) >= Len(m.uvs),
         \A i \in 1 .. Len(m.uvs) : m.uvs[i] # Null => h.uvs[i] = m.uvs[i],
         h.globals = m.globals, SameCalls(m, h),
         \A c \in Marked(m) : c \in InUse(h) /\ h.heap[c] = m.heap[c]
  PROVE  Marked(m) \subseteq Marked(h)
<1>1. /\ IsSeq(m.stack) /\ IsSeq(m.uvs) /\ IsSeq(h.stack) /\ IsSeq(h.uvs)
  BY DEF Solid, SoundRoots
<1>2. /\ DOMAIN m.stack = 1 .. Len(m.stack) /\ DOMAIN m.uvs = 1 .. Len(m.uvs)
      /\ DOMAIN h.stack = 1 .. Len(h.stack) /\ DOMAIN h.uvs = 1 .. Len(h.uvs)
      /\ Len(m.stack) \in Nat /\ Len(m.uvs) \in Nat /\ Len(h.stack) \in Nat /\ Len(h.uvs) \in Nat
  BY <1>1, SeqDomain
<1>3. DOMAIN m.stack \subseteq DOMAIN h.stack /\ DOMAIN m.uvs \subseteq DOMAIN h.uvs
  BY <1>2
<1> DEFINE T(g) == UNION { StackTraced(g.stack[i]) : i \in DOMAIN g.stack }
           F(g) == { g.frames[i].bytecode : i \in DOMAIN g.frames }
<1>4. T(m) \subseteq T(h)
  BY <1>2, <1>3
<1>5. \A c \in Range(m.uvs) : c # Null => c \in Range(h.uvs)
  BY <1>2, <1>3 DEF Range
<1>6. F(h) = F(m) /\ h.current = m.current
  BY DEF SameCalls
<1>7. \A g : Roots(g) = { c \in T(g) \cup Range(g.uvs) \cup Range(g.globals) \cup F(g) \cup {g.current} :
                         c # Null }
  BY DEF Roots
<1> HIDE DEF T, F
<1>8. Roots(m) \subseteq Roots(h)
  BY <1>4, <1>5, <1>6, <1>7
<1>9. /\ Roots(m) \subseteq Marked(m) /\ Marked(m) \subseteq InUse(m)
      /\ \A c \in Marked(m) : Traced(m.heap[c]) \subseteq Marked(m)
      /\ Roots(h) \subseteq Marked(h)
      /\ \A c \in Marked(h) : Traced(h.heap[c]) \subseteq Marked(h)
  BY MarkedInUse
<1> DEFINE S == Marked(m) \cap Marked(h)
<1>10. /\ S \in SUBSET InUse(m) /\ Roots(m) \subseteq S
       /\ \A c \in S : Traced(m.heap[c]) \subseteq S
  BY <1>8, <1>9
<1> HIDE DEF S
<1>11. Marked(m) \subseteq S
  BY <1>10, MarkedInUse
<1> QED BY <1>11 DEF S

\* While a closure is made it lies on top of the stack; all that could be
\* reached when the instruction began is as it was, and the place below the
\* closure has no upvalue until it is captured.
Making(h, closure, captures) ==
  /\ Sound(Null, h) /\ Ok(h) /\ SameCalls(vm, h) /\ h.globals = vm.globals
  /\ Len(h.stack) = Len(vm.stack) + 1 /\ h.stack[Len(vm.stack) + 1] = closure
  /\ \A i \in 1 .. Len(vm.stack) : h.stack[i] = vm.stack[i]
  /\ Len(h.uvs) \in {Len(vm.stack), Len(vm.stack) + 1}
  /\ \A i \in 1 .. Len(vm.stack) : vm.uvs[i] # Null => h.uvs[i] = vm.uvs[i]
  /\ Len(h.uvs) = Len(vm.stack) /\ 1 \in Range(captures) => h.uvs[Len(vm.stack)] = Null
  /\ \A c \in Marked(vm) : c \in InUse(h) /\ h.heap[c] = vm.heap[c]
  /\ closure.upvalue_array \notin Marked(vm)
  /\ DOMAIN h.heap[closure.upvalue_array].upvalues = 1 .. Len(captures)

\* The closure was not made: memory has run out, or an upvalue of the running
\* function was never made.
Stuck(h) ==
  /\ ~Ok(h)
  /\ RunsOut(h) \/ (h.status = "fault" /\ Firm(Null, h) /\ h.current = vm.current)

LEMMA MakingFacts ==
  ASSUME Ready(vm), NEW h, NEW closure, closure.type = "closure", NEW captures,
         Making(h, closure, captures)
  PROVE  /\ Marked(vm) \subseteq Marked(h)
         /\ IsOf(h, closure.upvalue_array, {"upvalueArray"})
         /\ closure.upvalue_array \in Marked(h)
         /\ Base(h) = Base(vm)
<1>1. Solid(Null, vm) /\ Solid(Null, h) /\ Len(vm.uvs) = Len(vm.stack) /\ Len(vm.stack) \in Nat
  BY SoundFacts DEF Ready, Making, Aligned, Sound, Solid
<1>2. Marked(vm) \subseteq Marked(h)
  <2>1. Len(h.stack) >= Len(vm.stack) /\ Len(h.uvs) >= Len(vm.uvs)
    BY <1>1 DEF Making
  <2> QED BY <1>1, <2>1, MarkedGrows DEF Making
<1>3. Len(vm.stack) + 1 \in 1 .. Len(h.stack)
  BY <1>1 DEF Making
<1>4. IsValue(h, closure) /\ Traced(closure) \subseteq Marked(h)
  BY <1>1, <1>3, RootsInUse, MarkedInUse DEF Making, Solid, SoundRoots
<1>5. IsOf(h, closure.upvalue_array, {"upvalueArray"})
  BY <1>4 DEF IsValue, Fits, FitsClosure
<1>6. closure.upvalue_array \in Traced(closure)
  <2>1. closure.upvalue_array # Null
    BY <1>5, SoundFacts DEF IsOf, Making
  <2> QED BY <2>1, TracedFacts
<1>7. Base(h) = Base(vm)
  BY DEF Making, SameCalls, Base
<1> QED BY <1>2, <1>4, <1>5, <1>6, <1>7

\* An upvalue becomes an entry of the closure's array.
LEMMA LinkMaking ==
  ASSUME Ready(vm), NEW h, NEW closure, closure.type = "closure", NEW captures,
         Making(h, closure, captures), IsOf(h, h.cell, {"upvalue"}), NEW k
  PROVE  Making(LinkUpvalue(h, closure.upvalue_array, k), closure, captures)
<1> DEFINE a == closure.upvalue_array
           o == [h.heap[a] EXCEPT !.upvalues[k] = h.cell]
           g == SetCell(h, a, o)
<1>1. Sound(Null, h) /\ Ok(h) /\ IsOf(h, a, {"upvalueArray"}) /\ Fits(h, h.heap[a])
  BY MakingFacts, SoundFacts DEF Making, IsOf
<1>2. /\ {"type", "upvalues"} \subseteq DOMAIN h.heap[a]
      /\ "car" \notin DOMAIN h.heap[a] /\ "cdr" \notin DOMAIN h.heap[a]
      /\ \A j \in DOMAIN h.heap[a].upvalues : MayBe(h, h.heap[a].upvalues[j], {"upvalue"})
  BY <1>1 DEF IsOf, Fits, FitsPair, FitsUpvalue
<1>3. /\ o.type = "upvalueArray" /\ DOMAIN o = DOMAIN h.heap[a] /\ o = [f \in DOMAIN o |-> o[f]]
      /\ o.upvalues = [h.heap[a].upvalues EXCEPT ![k] = h.cell]
  BY <1>1, <1>2 DEF IsOf
<1> HIDE DEF o
<1>4. \A j \in DOMAIN o.upvalues : MayBe(h, o.upvalues[j], {"upvalue"})
  BY <1>2, <1>3 DEF MayBe
<1>5. Fits(h, o)
  BY <1>2, <1>3, <1>4
     DEF CellTypes, Fits, FitsScalar, FitsPair, FitsText, FitsVector, FitsClosure, FitsUpvalue
<1>6. /\ Sound(Null, g) /\ SameRoots(h, g) /\ g.status = h.status /\ InUse(g) = InUse(h)
  <2>1. /\ a \in InUse(h) /\ Alike(h.heap[a], o) /\ o.type # "internalVector"
        /\ h.heap[a].type \notin ValueTypes \cup {"upvalue"}
    BY <1>1, <1>3 DEF IsOf, Alike, ValueTypes
  <2> QED BY <1>1, <1>5, <2>1, SetCellSound
<1>7. g.heap = [h.heap EXCEPT ![a] = o]
  BY <1>1, SoundFacts DEF SetCell, Fields
<1>8. a \in DOMAIN h.heap
  BY <1>1, SoundFacts DEF IsOf
<1>9. LinkUpvalue(h, a, k) = g
  BY DEF LinkUpvalue, o
<1> HIDE DEF g
<1>10. \A c \in Marked(vm) : c \in InUse(g) /\ g.heap[c] = vm.heap[c]
  BY <1>6, <1>7 DEF Making
<1>11. DOMAIN g.heap[a].upvalues = 1 .. Len(captures)
  BY <1>3, <1>7, <1>8 DEF Making
<1>12. /\ SameCalls(vm, g) /\ g.globals = vm.globals /\ g.stack = h.stack /\ g.uvs = h.uvs /\ Ok(g)
  BY <1>6 DEF Making, SameRoots, SameCalls, Ok
<1>13. Making(g, closure, captures)
  BY <1>6, <1>10, <1>11, <1>12 DEF Making
<1> QED BY <1>9, <1>13

\* A new upvalue and its entry on the stack of upvalues.
LEMMA CaptureMade ==
  ASSUME Ready(vm), MayCapture, NEW closure, closure.type = "closure", NEW captures,
         NEW h, Making(h, closure, captures),
         NEW o, o = Upvalue(o.kind, o.target),
         \/ o.kind = "stack"
         \/ o.kind = "upvalue" /\ IsOf(h, o.target, {"upvalue"}) /\ o.target \in Marked(h),
         NEW made, made = PushObject(h, o), Ok(made),
         NEW g, SameHeap(made, g), g.globals = h.globals, SameCalls(h, g), g.stack = h.stack,
         g.cell = made.cell, g.status = made.status,
         IsSeq(g.uvs), Len(g.uvs) \in {Len(h.uvs), Len(vm.stack) + 1},
         \A i \in 1 .. Len(g.uvs) :
           g.uvs[i] \in {made.cell, Null} \/ (i \in 1 .. Len(h.uvs) /\ g.uvs[i] = h.uvs[i]),
         \A i \in 1 .. Len(h.uvs) : h.uvs[i] # Null => g.uvs[i] = h.uvs[i],
         \A i \in 1 .. Base(vm) : g.uvs[i] = h.uvs[i],
         Len(g.uvs) = Len(vm.stack) /\ 1 \in Range(captures) => g.uvs[Len(vm.stack)] = Null,
         o.kind = "stack" => o.target \in 1 .. Len(g.uvs) /\ g.uvs[o.target] = made.cell
  PROVE  Making(g, closure, captures) /\ IsOf(g, g.cell, {"upvalue"})
<1>1. /\ Sound(Null, h) /\ Solid(Null, h) /\ Len(vm.stack) \in Nat /\ IsSeq(h.uvs)
      /\ Len(h.uvs) \in {Len(vm.stack), Len(vm.stack) + 1}
      /\ Len(h.stack) = Len(vm.stack) + 1 /\ Len(vm.uvs) = Len(vm.stack)
      /\ \A i \in 1 .. Len(h.uvs) : MayBe(h, h.uvs[i], {"upvalue"})
  <2>1. Sound(Null, vm)
    BY DEF Ready
  <2> QED BY <2>1, SoundFacts DEF Ready, Making, Aligned, Sound, Solid
<1>2. /\ Marked(vm) \subseteq Marked(h) /\ closure.upvalue_array \in Marked(h)
      /\ Base(h) = Base(vm)
  BY MakingFacts
<1>3. /\ \A c \in Marked(h) : c \in InUse(made) /\ made.heap[c] = h.heap[c]
      /\ made.cell \in InUse(made) /\ made.heap[made.cell] = o
  BY <1>1, NewUpvalue
<1>4. InUse(g) = InUse(made) /\ g.heap = made.heap
  BY DEF SameHeap, InUse
<1>5. \A i \in 1 .. Len(h.uvs) : h.uvs[i] # Null => h.uvs[i] \in Marked(h)
  BY <1>1, RootsInUse, MarkedInUse
<1>6. o.type = "upvalue"
  BY DEF Upvalue
<1>7. \A i \in 1 .. Len(g.uvs) : MayBe(made, g.uvs[i], {"upvalue"})
  BY <1>1, <1>3, <1>5, <1>6 DEF MayBe, IsOf
<1>8. Sound(Null, g)
  <2>1. Len(g.uvs) >= Len(h.uvs) /\ Len(g.uvs) <= Len(g.stack)
    BY <1>1
  <2>2. \A i \in 1 .. Base(h) : g.uvs[i] = h.uvs[i]
    BY <1>2
  <2> QED BY <1>1, <1>2, <1>7, <2>1, <2>2, NewUpvalueSound
<1>9. \A c \in Marked(vm) : c \in InUse(g) /\ g.heap[c] = vm.heap[c]
  BY <1>2, <1>3, <1>4 DEF Making
<1>10. g.heap[closure.upvalue_array] = h.heap[closure.upvalue_array]
  BY <1>2, <1>3, <1>4
<1>11. /\ Ok(g) /\ SameCalls(vm, g) /\ g.globals = vm.globals
       /\ Len(g.uvs) \in {Len(vm.stack), Len(vm.stack) + 1}
  BY <1>1 DEF Making, SameCalls, Ok
<1>12. \A i \in 1 .. Len(vm.stack) : vm.uvs[i] # Null => g.uvs[i] = vm.uvs[i]
  BY <1>1 DEF Making
<1>13. Making(g, closure, captures)
  BY <1>8, <1>9, <1>10, <1>11, <1>12 DEF Making
<1> QED BY <1>3, <1>4, <1>6, <1>13 DEF IsOf

\* A slot that has an entry on the stack of upvalues is captured.
LEMMA CaptureSlots ==
  ASSUME NEW m, Ok(m), IsSeq(m.uvs), NEW array, NEW k, NEW c \in Int, Len(m.stack) \in Nat
  PROVE  LET slot == Len(m.stack) - c
         IN  /\ slot \in 1 .. Len(m.uvs) - 1 =>
                  Capture(m, array, k, c) = LinkUpvalue(CaptureSlot(m, slot), array, k)
             /\ slot = Len(m.uvs) /\ m.uvs # << >> =>
                  Capture(m, array, k, c) = LinkUpvalue(CaptureTop(m, slot), array, k)
<1> DEFINE slot == Len(m.stack) - c
<1>1. slot \in Int /\ Len(m.uvs) \in Nat /\ (m.uvs # << >> <=> Len(m.uvs) # 0)
  BY SeqDomain DEF IsSeq
<1>2. Capture(m, array, k, c)
        = LinkUpvalue(CASE slot < 1 \/ (slot > Len(m.uvs) /\ m.uvs # << >>) -> Invalid(m)
                        [] slot >= 1 /\ m.uvs = << >> -> Fault(m)
                        [] slot \in 1 .. Len(m.uvs) - 1 -> CaptureSlot(m, slot)
                        [] slot = Len(m.uvs) /\ m.uvs # << >> -> CaptureTop(m, slot), array, k)
  BY DEF Capture
<1> HIDE DEF slot
<1>3. ASSUME slot \in 1 .. Len(m.uvs) - 1
      PROVE  Capture(m, array, k, c) = LinkUpvalue(CaptureSlot(m, slot), array, k)
  <2>1. /\ slot >= 1 /\ m.uvs # << >> /\ ~(slot > Len(m.uvs)) /\ ~(slot < 1) /\ slot # Len(m.uvs)
    BY <1>1, <1>3
  <2> QED BY <1>2, <1>3, <2>1
<1>4. ASSUME slot = Len(m.uvs), m.uvs # << >>
      PROVE  Capture(m, array, k, c) = LinkUpvalue(CaptureTop(m, slot), array, k)
  <2>1. /\ ~(slot > Len(m.uvs)) /\ ~(slot < 1) /\ slot \notin 1 .. Len(m.uvs) - 1
    BY <1>1, <1>4
  <2> QED BY <1>2, <1>4, <2>1
<1> QED BY <1>3, <1>4 DEF slot

\* No closure captures what the running function has captured itself, on no
\* machine: the operand stands for a slot above the closure (push-closure).
THEOREM NestedCapturesFail ==
  ASSUME NEW m, Ok(m), DOMAIN m = Fields, IsSeq(m.stack), IsSeq(m.uvs),
         Len(m.uvs) <= Len(m.stack), NEW array, NEW k, NEW c \in Int, c < 0
  PROVE  ~Ok(Capture(m, array, k, c))
<1> DEFINE slot == Len(m.stack) - c
           made == CASE slot < 1 \/ (slot > Len(m.uvs) /\ m.uvs # << >>) -> Invalid(m)
                     [] slot >= 1 /\ m.uvs = << >> -> Fault(m)
                     [] slot \in 1 .. Len(m.uvs) - 1 -> CaptureSlot(m, slot)
                     [] slot = Len(m.uvs) /\ m.uvs # << >> -> CaptureTop(m, slot)
<1>1. slot >= 1 /\ ~(slot < 1) /\ slot > Len(m.uvs) /\ slot # Len(m.uvs)
      /\ slot \notin 1 .. Len(m.uvs) - 1
  BY SeqDomain DEF IsSeq
<1>2. Capture(m, array, k, c) = LinkUpvalue(made, array, k)
  BY DEF Capture
<1> HIDE DEF slot
<1>3. made = Invalid(m) \/ made = Fault(m)
  BY <1>1
<1> HIDE DEF made
<1>4. ~Ok(made)
  BY <1>3 DEF Invalid, Fault, Failed, Ok, Fields
<1> QED BY <1>2, <1>4 DEF LinkUpvalue, SetCell

\* One operand of push-closure is captured, or the closure cannot be made.
LEMMA CaptureOne ==
  ASSUME Ready(vm), MayCapture, NEW closure, closure.type = "closure", NEW captures,
         IsSeq(captures), NEW k \in 1 .. Len(captures), captures[k] \in Int,
         captures[k] \in Own(vm),
         NEW h, Making(h, closure, captures),
         NEW next, next = Capture(h, closure.upvalue_array, k, captures[k])
  PROVE  Making(next, closure, captures) \/ Stuck(next)
<1> DEFINE a == closure.upvalue_array
           c == captures[k]
           n == Len(vm.stack)
           slot == Len(h.stack) - c
<1>1. /\ Sound(Null, h) /\ Solid(Null, h) /\ Ok(h) /\ n \in Nat /\ IsSeq(h.uvs)
      /\ Len(h.uvs) \in {n, n + 1} /\ DOMAIN h.uvs = 1 .. Len(h.uvs)
      /\ Len(h.stack) = n + 1 /\ Len(vm.uvs) = n /\ DOMAIN h = Fields
      /\ \A i \in 1 .. Len(h.uvs) : MayBe(h, h.uvs[i], {"upvalue"})
      /\ Base(vm) \in 0 .. n /\ h.current = vm.current /\ IsSeq(h.stack)
  <2>1. Sound(Null, vm)
    BY DEF Ready
  <2> QED BY <2>1, SoundFacts, BaseFacts DEF Ready, Making, Aligned, Sound, Solid, SameCalls
<1>2. ASSUME NEW g, Making(g, closure, captures), IsOf(g, g.cell, {"upvalue"})
      PROVE  Making(LinkUpvalue(g, a, k), closure, captures)
  BY <1>2, LinkMaking
<1>3. ASSUME NEW g, ~Ok(g) PROVE LinkUpvalue(g, a, k) = g
  BY <1>3 DEF LinkUpvalue, SetCell
<1>4. Making(next, closure, captures) \/ Stuck(next)
  <2>1. /\ c \in 1 .. n /\ c >= 0 /\ slot \in 1 .. n /\ slot > Base(vm)
        /\ c = 1 <=> slot = n
    <3>1. c \in 1 .. n - Base(vm)
      BY Zenon DEF Own
    <3>2. Len(h.stack) = n + 1
      BY <1>1, Zenon
    <3>3. Base(vm) \in 0 .. n /\ n \in Nat
      BY <1>1, Zenon
    <3> HIDE DEF c, n
    <3> QED BY ONLY <3>1, <3>2, <3>3
  <2>2. 1 \in Range(captures) <=> \E j \in 1 .. Len(captures) : captures[j] = 1
    BY SeqDomain DEF Range
  <2> DEFINE o == Upvalue("stack", slot)
             made == PushObject(h, o)
  <2>3. o = Upvalue(o.kind, o.target) /\ o.kind = "stack" /\ o.target = slot
    BY DEF Upvalue
  <2> HIDE DEF o
  <2>4. /\ SameRoots(h, made) /\ DOMAIN made = Fields
        /\ ~Ok(made) => made.status = "outOfMemory" /\ made.free = {}
    BY <1>1, <2>3, NewUpvalue DEF Solid, SoundHeap
  <2>5. made = PushObject(h, o)
    OBVIOUS
  <2> HIDE DEF made
  <2>6. CASE slot = Len(h.uvs)
    <3>1. next = LinkUpvalue(CaptureTop(h, slot), a, k) /\ c = 1 /\ Len(h.uvs) = n
      <4>1. c = 1 /\ Len(h.uvs) = n
        BY <1>1, <2>1, <2>6
      <4>2. h.uvs # << >> /\ c \in Int /\ Len(h.stack) \in Nat
        <5>1. Len(h.uvs) # 0
          BY <1>1, <2>1, <4>1
        <5> QED BY ONLY <1>1, <5>1, captures[k] \in Int
      <4>3. next = LinkUpvalue(CaptureTop(h, slot), a, k)
        <5>1. Ok(h) /\ IsSeq(h.uvs) /\ captures[k] \in Int
          BY <1>1, Zenon
        <5> QED BY ONLY next = Capture(h, closure.upvalue_array, k, captures[k]),
                   <2>6, <4>2, <5>1, CaptureSlots
      <4> QED BY <4>1, <4>3
    <3>2. h.uvs[n] = Null
      BY <2>2, <3>1 DEF Making
    <3>3. CASE ~Ok(made)
      <4>1. CaptureTop(h, slot) = [made EXCEPT !.status = "shouldntHappen"]
        BY <2>5, <3>3 DEF CaptureTop, o
      <4>2. ~Ok(CaptureTop(h, slot)) /\ Stuck(CaptureTop(h, slot))
        BY <2>4, <3>3, <4>1 DEF Ok, Stuck, RunsOut, Fields
      <4> QED BY <1>3, <3>1, <4>2
    <3>4. CASE Ok(made)
      <4> DEFINE ups == Append([h.uvs EXCEPT ![slot] = made.cell], Null)
                 g == [made EXCEPT !.uvs = ups]
      <4>1. CaptureTop(h, slot) = g
        <5>1. CaptureTop(h, slot)
                = [made EXCEPT !.uvs = Append([@ EXCEPT ![slot] = made.cell], Null)]
          BY <2>5, <3>4 DEF CaptureTop, o
        <5> QED BY <2>4, <5>1 DEF SameRoots
      <4>2. /\ IsSeq([h.uvs EXCEPT ![slot] = made.cell])
            /\ Len([h.uvs EXCEPT ![slot] = made.cell]) = n
            /\ \A i \in 1 .. n :
                 [h.uvs EXCEPT ![slot] = made.cell][i] = IF i = slot THEN made.cell ELSE h.uvs[i]
        <5>1. slot \in 1 .. Len(h.uvs)
          BY <2>1, <3>1
        <5> HIDE DEF slot
        <5> QED BY <1>1, <3>1, <5>1, SeqChange
      <4>3. /\ IsSeq(ups) /\ Len(ups) = n + 1 /\ ups[n + 1] = Null
            /\ \A i \in 1 .. n : ups[i] = IF i = slot THEN made.cell ELSE h.uvs[i]
        BY <4>2, SeqAppend
      <4> HIDE DEF ups
      <4>4. /\ \A i \in 1 .. Len(ups) :
                 ups[i] \in {made.cell, Null} \/ (i \in 1 .. Len(h.uvs) /\ ups[i] = h.uvs[i])
            /\ \A i \in 1 .. Len(h.uvs) : h.uvs[i] # Null => ups[i] = h.uvs[i]
            /\ \A i \in 1 .. Base(vm) : ups[i] = h.uvs[i]
            /\ slot \in 1 .. Len(ups) /\ ups[slot] = made.cell
            /\ Len(ups) # Len(vm.stack)
        <5>1. \A i \in 1 .. n + 1 : i = n + 1 \/ i \in 1 .. n
          BY <1>1
        <5>2. \A i \in 1 .. Base(vm) : i \in 1 .. n /\ i # slot
          BY <1>1, <2>1
        <5> QED BY <1>1, <2>1, <2>6, <3>1, <3>2, <4>3, <5>1, <5>2
      <4>5. Making(g, closure, captures) /\ IsOf(g, g.cell, {"upvalue"})
        <5>1. /\ SameHeap(made, g) /\ g.globals = h.globals /\ SameCalls(h, g)
              /\ g.stack = h.stack /\ g.cell = made.cell /\ g.status = made.status /\ g.uvs = ups
          BY <2>4 DEF SameHeap, SameRoots, SameCalls, Fields
        <5> HIDE DEF g, slot
        <5> QED BY <1>1, <2>3, <2>5, <3>4, <4>3, <4>4, <5>1, CaptureMade
      <4> QED BY <1>2, <3>1, <4>1, <4>5
    <3> QED BY <3>3, <3>4
  <2>7. CASE slot # Len(h.uvs)
    <3>1. next = LinkUpvalue(CaptureSlot(h, slot), a, k) /\ slot \in 1 .. Len(h.uvs)
      <4>1. slot \in 1 .. Len(h.uvs) - 1 /\ slot \in 1 .. Len(h.uvs)
        BY <1>1, <2>1, <2>7
      <4>2. Ok(h) /\ IsSeq(h.uvs) /\ captures[k] \in Int
        BY <1>1, Zenon
      <4>3. Len(h.stack) \in Nat
        <5>1. Len(h.stack) = n + 1 /\ n \in Nat
          BY <1>1, Zenon
        <5> HIDE DEF n
        <5> QED BY ONLY <5>1
      <4>4. next = LinkUpvalue(CaptureSlot(h, slot), a, k)
        BY ONLY next = Capture(h, closure.upvalue_array, k, captures[k]),
                <4>1, <4>2, <4>3, CaptureSlots
      <4> QED BY <4>1, <4>4, Zenon
    <3>2. CASE h.uvs[slot] # Null
      <4>1. IsOf(h, h.uvs[slot], {"upvalue"})
        BY <1>1, <3>1, <3>2 DEF MayBe
      <4> DEFINE g == [h EXCEPT !.cell = h.uvs[slot]]
      <4>2. CaptureSlot(h, slot) = g
        BY <3>2, <4>1 DEF CaptureSlot, IsOf
      <4>3. /\ SameHeap(h, g) /\ SameRoots(h, g) /\ g.status = h.status
            /\ g.cell = h.uvs[slot] /\ InUse(g) = InUse(h)
        BY <1>1 DEF SameHeap, SameRoots, Fields, InUse
      <4>4. Sound(Null, g)
        BY <1>1, <4>3, SoundSame
      <4>5. /\ Ok(g) /\ SameCalls(vm, g) /\ g.globals = vm.globals
            /\ g.stack = h.stack /\ g.uvs = h.uvs /\ g.heap = h.heap
        BY <4>3 DEF Making, SameRoots, SameHeap, SameCalls, Ok
      <4>6. Making(g, closure, captures)
        BY <4>3, <4>4, <4>5 DEF Making
      <4>7. IsOf(g, g.cell, {"upvalue"})
        BY <4>1, <4>3, <4>5 DEF IsOf
      <4> QED BY <1>2, <3>1, <4>2, <4>6, <4>7
    <3>3. CASE h.uvs[slot] = Null
      <4>1. CaptureSlot(h, slot)
              = IF Ok(made) THEN [made EXCEPT !.uvs[slot] = made.cell] ELSE made
        BY <2>5, <3>3 DEF CaptureSlot, o
      <4>2. CASE ~Ok(made)
        BY <1>3, <2>4, <3>1, <4>1, <4>2 DEF Stuck, RunsOut
      <4>3. CASE Ok(made)
        <5> DEFINE ups == [h.uvs EXCEPT ![slot] = made.cell]
                   g == [made EXCEPT !.uvs = ups]
        <5>1. CaptureSlot(h, slot) = g
          BY <2>4, <4>1, <4>3 DEF SameRoots, Fields
        <5>2. /\ IsSeq(ups) /\ Len(ups) = Len(h.uvs)
              /\ \A i \in 1 .. Len(h.uvs) : ups[i] = IF i = slot THEN made.cell ELSE h.uvs[i]
          <6>1. slot \in 1 .. Len(h.uvs) /\ IsSeq(h.uvs)
            BY <1>1, <3>1, Zenon
          <6> HIDE DEF slot
          <6> QED BY ONLY <6>1, SeqChange
        <5> HIDE DEF ups
        <5>3. /\ \A i \in 1 .. Len(ups) :
                   ups[i] \in {made.cell, Null} \/ (i \in 1 .. Len(h.uvs) /\ ups[i] = h.uvs[i])
              /\ \A i \in 1 .. Len(h.uvs) : h.uvs[i] # Null => ups[i] = h.uvs[i]
              /\ \A i \in 1 .. Base(vm) : ups[i] = h.uvs[i]
              /\ slot \in 1 .. Len(ups) /\ ups[slot] = made.cell
          <6>1. \A i \in 1 .. Base(vm) : i \in 1 .. Len(h.uvs) /\ i # slot
            BY <1>1, <2>1
          <6> QED BY <3>1, <3>3, <5>2, <6>1
        <5>4. Len(ups) = n /\ 1 \in Range(captures) => ups[n] = Null
          <6>1. Len(ups) = n => slot # n /\ n \in 1 .. Len(h.uvs)
            BY <1>1, <2>1, <2>7, <5>2
          <6> QED BY <5>2, <6>1 DEF Making
        <5>5. Making(g, closure, captures) /\ IsOf(g, g.cell, {"upvalue"})
          <6>1. /\ SameHeap(made, g) /\ g.globals = h.globals /\ SameCalls(h, g)
                /\ g.stack = h.stack /\ g.cell = made.cell /\ g.status = made.status /\ g.uvs = ups
            BY <2>4 DEF SameHeap, SameRoots, SameCalls, Fields
          <6> HIDE DEF g, slot
          <6>2. /\ IsSeq(g.uvs) /\ Len(g.uvs) = Len(h.uvs)
                /\ \A i \in 1 .. Len(g.uvs) :
                     g.uvs[i] \in {made.cell, Null}
                       \/ (i \in 1 .. Len(h.uvs) /\ g.uvs[i] = h.uvs[i])
                /\ \A i \in 1 .. Len(h.uvs) : h.uvs[i] # Null => g.uvs[i] = h.uvs[i]
                /\ \A i \in 1 .. Base(vm) : g.uvs[i] = h.uvs[i]
            BY <5>2, <5>3, <6>1
          <6>3. /\ Len(g.uvs) = Len(vm.stack) /\ 1 \in Range(captures)
                     => g.uvs[Len(vm.stack)] = Null
                /\ o.target \in 1 .. Len(g.uvs) /\ g.uvs[o.target] = made.cell
            BY <2>3, <5>3, <5>4, <6>1
          <6> QED BY <2>3, <2>5, <4>3, <6>1, <6>2, <6>3, CaptureMade
        <5> QED BY <1>2, <3>1, <5>1, <5>5
      <4> QED BY <4>2, <4>3
    <3> QED BY <3>2, <3>3
  <2> QED BY <2>6, <2>7
<1> QED BY <1>4

\* The closure gets its entry on the stack of upvalues.
LEMMA TrackGood ==
  ASSUME Ready(vm), NEW h, NEW closure, NEW captures,
         Making(h, closure, captures),
         NEW m, Len(m.uvs) = Len(vm.uvs)
  PROVE  Good(vm, TrackClosure(h, m))
<1> DEFINE g == TrackClosure(h, m)
<1>1. /\ Sound(Null, h) /\ Ok(h) /\ SameCalls(vm, h) /\ Len(h.stack) = Len(vm.stack) + 1
      /\ Len(h.uvs) \in {Len(vm.stack), Len(vm.stack) + 1} /\ Len(vm.uvs) = Len(vm.stack)
      /\ Len(vm.stack) \in Nat /\ DOMAIN h = Fields /\ IsSeq(h.uvs)
  <2>1. Sound(Null, vm)
    BY DEF Ready
  <2> QED BY <2>1, SoundFacts DEF Ready, Making, Aligned
<1>2. CASE Len(h.uvs) # Len(vm.stack)
  <2>1. g = h
    BY <1>1, <1>2 DEF TrackClosure
  <2> QED BY <1>1, <1>2, <2>1 DEF Good, Aligned, SameCalls
<1>3. CASE Len(h.uvs) = Len(vm.stack)
  <2>1. g = [h EXCEPT !.uvs = Append(@, Null)]
    BY <1>1, <1>3 DEF TrackClosure, PushTracked
  <2>2. /\ SameHeap(h, g) /\ g.globals = h.globals /\ SameCalls(h, g) /\ g.stack = h.stack
        /\ g.uvs = Append(h.uvs, Null)
    BY <1>1, <2>1 DEF SameHeap, SameCalls, Fields
  <2> HIDE DEF g
  <2>3. /\ IsSeq(g.uvs) /\ Len(g.uvs) = Len(h.uvs) + 1 /\ g.uvs[Len(h.uvs) + 1] = Null
        /\ \A i \in 1 .. Len(h.uvs) : g.uvs[i] = h.uvs[i]
    BY <1>1, <2>2, SeqAppend
  <2>4. /\ IsSeq(h.stack) /\ Base(h) \in 0 .. Len(h.uvs)
        /\ \A i \in 1 .. Len(h.stack) : IsValue(h, h.stack[i])
        /\ \A i \in 1 .. Len(h.uvs) : MayBe(h, h.uvs[i], {"upvalue"})
        /\ \A i : Opens(h, i) => i \in 1 .. Len(h.uvs)
    BY <1>1, SoundFacts, BaseFacts
  <2>5. \A i \in 1 .. Len(g.uvs) : MayBe(h, g.uvs[i], {"upvalue"})
    <3>1. \A i \in 1 .. Len(g.uvs) : i \in 1 .. Len(h.uvs) \/ i = Len(h.uvs) + 1
      BY <1>1, <2>3
    <3> QED BY <2>3, <2>4, <3>1 DEF MayBe
  <2>6. /\ Len(g.uvs) >= Base(h) /\ Len(g.uvs) = Len(g.stack)
        /\ \A i \in 1 .. Base(h) : i \in 1 .. Len(h.uvs)
        /\ \A i \in 1 .. Len(h.uvs) : i \in 1 .. Len(g.uvs)
    BY <1>1, <1>3, <2>2, <2>3, <2>4
  <2>7. Sound(Null, g)
    <3>1. /\ \A i \in 1 .. Len(g.stack) : IsValue(h, g.stack[i])
          /\ \A i \in 1 .. Base(h) : g.stack[i] = h.stack[i] /\ g.uvs[i] = h.uvs[i]
          /\ \A i : Opens(h, i) =>
               i \in 1 .. Len(g.uvs) /\ g.uvs[i] = h.uvs[i] /\ g.stack[i] = h.stack[i]
          /\ IsSeq(g.stack) /\ Len(g.uvs) <= Len(g.stack)
      BY <1>1, <2>2, <2>3, <2>4, <2>6
    <3> QED BY <1>1, <2>2, <2>3, <2>5, <2>6, <3>1, SlotsChanged
  <2> QED BY <1>1, <2>2, <2>6, <2>7 DEF g, Good, Aligned, SameCalls
<1> QED BY <1>2, <1>3

\* A closure is put on the stack, with the variables that it captures.
LEMMA PushClosureGood ==
  ASSUME Ready(vm), vm.ip = vm.current, NEW captures, IsSeq(captures),
         \A k \in 1 .. Len(captures) :
           captures[k] \in Int /\ captures[k] \in Own(vm),
         captures # << >> => MayCapture, 1 \in Range(captures) => Temporary(vm, {1}),
         NEW arity \in Nat, NEW variadic,
         NEW next, next = PushClosure(vm, captures, arity, variadic)
  PROVE  Good(vm, next) \/ (Stuck(next) /\ captures # << >>)
<1> DEFINE n == Len(captures)
           o == [type |-> "upvalueArray", upvalues |-> [k \in 1 .. n |-> Null]]
           h == PushObject(vm, o)
           closure == NewClosure(h, arity, variadic)
           p == [by |-> "capture", array |-> closure.upvalue_array, over |-> captures]
           b == PushUntracked(h, closure)
<1>1. next = TrackClosure(CaptureAll(h, closure, captures), h)
  BY DEF PushClosure, MakeClosure
<1>2. /\ n \in Nat /\ DOMAIN captures = 1 .. n
      /\ n # 0 => MayCapture /\ captures # << >>
  <2>1. n \in Nat /\ DOMAIN captures = 1 .. n
    BY SeqDomain
  <2>2. n # 0 => captures # << >>
    OBVIOUS
  <2> QED BY <2>1, <2>2
<1>3. /\ o.type = "upvalueArray" /\ DOMAIN o.upvalues = 1 .. n /\ DOMAIN o = {"type", "upvalues"}
      /\ o = [f \in DOMAIN o |-> o[f]] /\ \A k \in 1 .. n : o.upvalues[k] = Null
  OBVIOUS
<1> HIDE DEF o, n
<1>4. Fits(vm, o)
  BY <1>3
     DEF CellTypes, Fits, FitsScalar, FitsPair, FitsText, FitsVector, FitsClosure, FitsUpvalue, MayBe
<1>5. Traced(o) = {}
  <2>1. Range(o.upvalues) \subseteq {Null}
    BY <1>3 DEF Range
  <2>2. Traced(o) = Range(o.upvalues) \ {Null}
    BY <1>3, TracedFacts
  <2> QED BY <2>1, <2>2
<1>6. /\ Sound(Null, h) /\ SameRoots(vm, h)
      /\ \A c \in Marked(vm) : c \in InUse(h) /\ h.heap[c] = vm.heap[c]
      /\ Ok(h) => IsOf(h, h.cell, {"upvalueArray"}) /\ h.heap[h.cell] = o
                  /\ h.cell \notin Marked(vm)
  BY <1>3, <1>4, <1>5, PushObjectSound DEF Ready, IsOf
<1> HIDE DEF h
<1>7. /\ closure.type = "closure" /\ closure.name = h.ip /\ closure.bytecode = h.current
      /\ closure.upvalue_array = h.cell /\ closure.arity = arity
      /\ "car" \notin DOMAIN closure /\ "cdr" \notin DOMAIN closure
      /\ closure = [f \in DOMAIN closure |-> closure[f]]
  BY DEF NewClosure
<1> HIDE DEF closure
<1>8. Ok(h) => IsValue(h, closure)
  <2>1. MayBe(h, h.current, {"bytecode"}) /\ h.current # Null /\ h.ip = h.current
    BY <1>6 DEF Sound, SoundRoots, SameRoots, Ready
  <2>2. Ok(h) => FitsClosure(h, closure)
    BY <1>6, <1>7, <2>1 DEF FitsClosure, MayBe
  <2> QED BY <1>7, <2>2 DEF IsValue, ValueTypes, Fits, FitsScalar, FitsPair, FitsText, FitsVector,
                            FitsUpvalue
<1>9. Ok(h) => Making(b, closure, captures)
  <2> SUFFICES ASSUME Ok(h) PROVE Making(b, closure, captures)
    OBVIOUS
  <2>1. /\ Sound(Null, b) /\ SameHeap(h, b) /\ SameCalls(h, b)
        /\ b.globals = h.globals /\ b.status = h.status
        /\ Len(b.stack) = Len(h.stack) + 1 /\ b.stack[Len(h.stack) + 1] = closure
        /\ \A i \in 1 .. Len(h.stack) : b.stack[i] = h.stack[i]
        /\ b.uvs = h.uvs
    BY <1>6, <1>8, PushSound
  <2> HIDE DEF b
  <2>2. /\ h.stack = vm.stack /\ h.uvs = vm.uvs /\ h.globals = vm.globals /\ SameCalls(vm, h)
        /\ Len(vm.uvs) = Len(vm.stack) /\ DOMAIN vm.uvs = 1 .. Len(vm.uvs)
    BY <1>6, SoundFacts DEF SameRoots, SameCalls, Ready, Aligned
  <2>3. 1 \in Range(captures) => vm.uvs[Len(vm.stack)] = Null
    <3> SUFFICES ASSUME 1 \in Range(captures) PROVE vm.uvs[Len(vm.stack)] = Null
      OBVIOUS
    <3>1. 1 \in Own(vm)
      BY <1>2 DEF Range, n
    <3>2. Len(vm.stack) \in DOMAIN vm.uvs /\ Slot(vm, 1) = Len(vm.stack)
      BY <2>2, <3>1, BaseFacts DEF Own, Slot, Ready
    <3> QED BY <3>2 DEF Temporary
  <2>4. DOMAIN b.heap[closure.upvalue_array].upvalues = 1 .. Len(captures)
    BY <1>3, <1>6, <1>7, <2>1 DEF SameHeap, n
  <2>5. \A c \in Marked(vm) : c \in InUse(b) /\ b.heap[c] = vm.heap[c]
    BY <1>6, <2>1 DEF SameHeap, InUse
  <2>6. Ok(b) /\ SameCalls(vm, b)
    BY <2>1, <2>2 DEF Ok, SameCalls
  <2> QED BY <1>6, <1>7, <2>1, <2>2, <2>3, <2>4, <2>5, <2>6 DEF Making
<1>10. ~Ok(h) => b = h
  BY DEF PushUntracked
<1>11. PICK a : Stages(a, p, b, n) /\ CaptureAll(h, closure, captures) = a[n]
  <2>1. \E a : /\ Stages(a, [by |-> "capture", array |-> closure.upvalue_array, over |-> captures],
                         PushUntracked(h, closure), Len(captures))
               /\ CaptureAll(h, closure, captures) = a[Len(captures)]
    BY CaptureStages
  <2> QED BY <2>1 DEF n
<1> DEFINE P(k) == IF Ok(h) THEN Making(a[k], closure, captures) \/ (Stuck(a[k]) /\ k # 0)
                   ELSE a[k] = h
           T == { k \in 0 .. n : ~P(k) }
<1>12. P(0)
  BY <1>9, <1>10, <1>11 DEF Stages
<1>13. ASSUME NEW k \in 1 .. n, P(k - 1)
       PROVE  P(k)
  <2>1. a[k] = Capture(a[k - 1], closure.upvalue_array, k, captures[k])
    BY <1>11 DEF Stages, Step
  <2>2. CASE ~Ok(a[k - 1])
    <3>1. a[k] = a[k - 1]
      BY <2>1, <2>2 DEF Capture
    <3> QED BY <1>13, <2>2, <3>1 DEF Making
  <2>3. CASE Ok(a[k - 1])
    <3>1. Making(a[k - 1], closure, captures) /\ Ok(h)
      BY <1>13, <2>3 DEF Stuck
    <3>2. MayCapture /\ k \in 1 .. Len(captures)
      BY <1>2 DEF n
    <3>3. captures[k] \in Int /\ captures[k] \in Own(vm)
      BY <3>2
    <3> HIDE DEF P
    <3>4. Making(a[k], closure, captures) \/ Stuck(a[k])
      BY <1>7, <2>1, <3>1, <3>2, <3>3, CaptureOne
    <3> QED BY <3>1, <3>4 DEF P
  <2> QED BY <2>2, <2>3
<1> HIDE DEF P
<1>14. T = {}
  <2> SUFFICES ASSUME T # {} PROVE FALSE
    OBVIOUS
  <2>1. T \subseteq Nat
    BY <1>2
  <2>2. PICK k \in T : \A j \in T : k <= j
    BY <2>1, LeastExists
  <2>3. k \in 1 .. n /\ k - 1 \in 0 .. n
    BY <1>2, <1>12, <2>2
  <2>4. P(k - 1)
    BY <2>2, <2>3
  <2> QED BY <1>13, <2>2, <2>3, <2>4
<1>15. P(n)
  BY <1>2, <1>14
<1>16. Len(h.uvs) = Len(vm.uvs)
  BY <1>6 DEF SameRoots
<1>17. CASE Ok(h)
  <2>1. CASE Making(a[n], closure, captures)
    BY <1>1, <1>7, <1>11, <1>16, <2>1, TrackGood
  <2>2. CASE Stuck(a[n]) /\ n # 0
    <3>1. next = a[n]
      BY <1>1, <1>11, <2>2 DEF TrackClosure, PushTracked, Stuck
    <3> QED BY <1>2, <2>2, <3>1
  <2> QED BY <1>15, <1>17, <2>1, <2>2 DEF P
<1>18. CASE ~Ok(h)
  <2>1. next = h
    BY <1>1, <1>11, <1>15, <1>18 DEF P, TrackClosure, PushTracked
  <2> QED BY <1>6, <2>1 DEF Good, Ready, Aligned, SameRoots
<1> QED BY <1>17, <1>18

-----------------------------------------------------------------------------
(* Captured variables.                                                     *)

\* The upvalues on the way from one to what it stands for.
Onward(m, c) ==
  IF m.heap[c].type = "upvalue" /\ m.heap[c].kind = "upvalue" THEN m.heap[c].target ELSE c
Chain(m, u, at) == at[0] = u /\ \A n \in 1 .. MaxObjects : at[n] = Onward(m, at[n - 1])

LEMMA ChainExists ==
  ASSUME NEW m, NEW u
  PROVE  \E at : Chain(m, u, at) /\ Resolved(m, u) = m.heap[at[MaxObjects]]
<1> DEFINE D(at, n) == at = [k \in 0 .. n |-> IF k = 0 THEN u ELSE Onward(m, at[k - 1])]
           T == { n \in Nat : ~\E at : D(at, n) }
<1>1. 0 \notin T
  <2>1. D([k \in 0 .. 0 |-> u], 0)
    OBVIOUS
  <2> QED BY <2>1
<1>2. ASSUME NEW n \in Nat, n \notin T
      PROVE  n + 1 \notin T
  <2>1. PICK at : D(at, n)
    BY <1>2
  <2> DEFINE f == [k \in 0 .. n + 1 |-> IF k = n + 1 THEN Onward(m, at[n]) ELSE at[k]]
  <2>2. \A k \in 0 .. n : at[k] = IF k = 0 THEN u ELSE Onward(m, at[k - 1])
    BY <2>1
  <2>3. ASSUME NEW k \in 0 .. n + 1
        PROVE  f[k] = IF k = 0 THEN u ELSE Onward(m, f[k - 1])
    <3>1. CASE k = n + 1
      <4>1. n \in 0 .. n + 1 /\ n # n + 1 /\ k # 0 /\ k - 1 = n
        BY <3>1
      <4>2. f[n] = at[n] /\ f[k] = Onward(m, at[n])
        BY <3>1, <4>1
      <4> HIDE DEF f
      <4> QED BY <4>1, <4>2
    <3>2. CASE k # n + 1
      <4>1. k \in 0 .. n /\ (k # 0 => k - 1 \in 0 .. n + 1 /\ k - 1 # n + 1)
        BY <3>2
      <4>2. f[k] = at[k] /\ (k # 0 => f[k - 1] = at[k - 1])
        BY <3>2, <4>1
      <4> HIDE DEF f
      <4> QED BY <2>2, <4>1, <4>2
    <3> QED BY <3>1, <3>2
  <2>4. f = [k \in 0 .. n + 1 |-> f[k]]
    OBVIOUS
  <2> HIDE DEF f
  <2>5. D(f, n + 1)
    BY <2>3, <2>4
  <2> QED BY <2>5
<1> HIDE DEF D, T
<1>3. T \subseteq Nat
  BY DEF T
<1>4. ASSUME T # {} PROVE FALSE
  <2>1. PICK k \in T : \A j \in T : k <= j
    BY <1>3, <1>4, LeastExists
  <2>2. k \in Nat /\ k # 0
    BY <1>1, <1>3, <2>1
  <2>3. k - 1 \in Nat /\ k - 1 \notin T
    BY <2>1, <2>2
  <2>4. (k - 1) + 1 \notin T
    BY <1>2, <2>3
  <2> QED BY <2>2, <2>4
<1>5. \E at : D(at, MaxObjects)
  BY <1>4, MaxObjectsAssumption DEF T
<1> DEFINE way == CHOOSE at : D(at, MaxObjects)
<1>6. D(way, MaxObjects)
  BY <1>5, Zenon
<1>7. Resolved(m, u) = m.heap[way[MaxObjects]]
  BY DEF Resolved, D, Onward
<1> HIDE DEF way
<1>8. \A k \in 0 .. MaxObjects : way[k] = IF k = 0 THEN u ELSE Onward(m, way[k - 1])
  BY <1>6 DEF D
<1>9. Chain(m, u, way)
  <2>1. 0 \in 0 .. MaxObjects /\ \A n \in 1 .. MaxObjects : n \in 0 .. MaxObjects /\ n # 0
    BY MaxObjectsAssumption
  <2> QED BY <1>8, <2>1 DEF Chain
<1> QED BY <1>7, <1>9

\* The way leads to an upvalue that stands for itself: the numbers that
\* Ranked gives the upvalues on it decrease, and there are MaxObjects cells.
LEMMA ChainEnds ==
  ASSUME NEW w, NEW m, Firm(w, m), NEW u, IsOf(m, u, {"upvalue"}), NEW at, Chain(m, u, at)
  PROVE  /\ \A n \in 0 .. MaxObjects : IsOf(m, at[n], {"upvalue"})
         /\ m.heap[at[MaxObjects]].kind \in {"object", "stack"}
<1> DEFINE T == { n \in 0 .. MaxObjects : ~IsOf(m, at[n], {"upvalue"}) }
           Nested(c) == m.heap[c].kind = "upvalue"
<1>1. /\ \A c \in InUse(m) : Fits(m, m.heap[c])
      /\ InUse(m) \subseteq Cells
  BY DEF Firm, Solid, SoundHeap, InUse
<1>2. ASSUME NEW c, IsOf(m, c, {"upvalue"})
      PROVE  /\ m.heap[c].kind \in {"stack", "object", "upvalue"}
             /\ Nested(c) => IsOf(m, m.heap[c].target, {"upvalue"}) /\ Onward(m, c) = m.heap[c].target
             /\ ~Nested(c) => Onward(m, c) = c
  BY <1>1, <1>2 DEF IsOf, Fits, FitsUpvalue, Onward
<1>3. T = {}
  <2> SUFFICES ASSUME T # {} PROVE FALSE
    OBVIOUS
  <2>1. T \subseteq Nat
    BY MaxObjectsAssumption
  <2>2. PICK k \in T : \A j \in T : k <= j
    BY <2>1, LeastExists
  <2>3. k \in 1 .. MaxObjects /\ k - 1 \in 0 .. MaxObjects /\ k - 1 \notin T
    BY <2>2, MaxObjectsAssumption DEF Chain
  <2>4. IsOf(m, at[k - 1], {"upvalue"}) /\ at[k] = Onward(m, at[k - 1])
    BY <2>3 DEF Chain
  <2> QED BY <1>2, <2>2, <2>4
<1>4. \A n \in 0 .. MaxObjects : IsOf(m, at[n], {"upvalue"})
  BY <1>3
<1> HIDE DEF T
<1>5. ASSUME Nested(at[MaxObjects]) PROVE FALSE
  <2> DEFINE U == { n \in 0 .. MaxObjects : Nested(at[MaxObjects - n]) }
             V == (0 .. MaxObjects) \ U
  <2>1. V = {}
    <3> SUFFICES ASSUME V # {} PROVE FALSE
      OBVIOUS
    <3>1. V \subseteq Nat
      BY MaxObjectsAssumption
    <3>2. PICK k \in V : \A j \in V : k <= j
      BY <3>1, LeastExists
    <3>3. 0 \notin V
      BY <1>5, MaxObjectsAssumption
    <3> DEFINE n == MaxObjects - k
    <3>4. /\ k \in 1 .. MaxObjects /\ k - 1 \in 0 .. MaxObjects /\ k - 1 \notin V
          /\ n \in 0 .. MaxObjects /\ n + 1 \in 1 .. MaxObjects /\ MaxObjects - (k - 1) = n + 1
          /\ (n + 1) - 1 = n
      BY <3>2, <3>3, MaxObjectsAssumption
    <3>5. Nested(at[n + 1]) /\ ~Nested(at[n])
      BY <3>2, <3>4
    <3>6. at[n + 1] = Onward(m, at[n])
      BY <3>4 DEF Chain
    <3> HIDE DEF n, V, Nested
    <3> QED BY <1>2, <1>4, <3>4, <3>5, <3>6
  <2>2. \A n \in 0 .. MaxObjects : Nested(at[n])
    <3> SUFFICES ASSUME NEW n \in 0 .. MaxObjects PROVE Nested(at[n])
      OBVIOUS
    <3>1. MaxObjects - n \in 0 .. MaxObjects /\ MaxObjects - (MaxObjects - n) = n
      BY MaxObjectsAssumption
    <3> QED BY <2>1, <3>1
  <2> HIDE DEF U, V
  <2>3. PICK rank \in [Cells -> Nat] :
          \A c \in InUse(m) :
            m.heap[c].type = "upvalue" /\ m.heap[c].kind = "upvalue"
              => rank[m.heap[c].target] < rank[c]
    BY DEF Firm, SoundUpvalues, Ranked
  <2>4. \A n \in 0 .. MaxObjects : at[n] \in Cells /\ rank[at[n]] \in Nat
    BY <1>1, <1>4, <2>3 DEF IsOf
  <2>5. ASSUME NEW n \in 1 .. MaxObjects PROVE rank[at[n]] < rank[at[n - 1]]
    <3>1. n - 1 \in 0 .. MaxObjects
      BY MaxObjectsAssumption
    <3>2. at[n] = m.heap[at[n - 1]].target
      BY <1>2, <1>4, <2>2, <3>1 DEF Chain
    <3> QED BY <1>4, <2>2, <2>3, <3>1, <3>2 DEF IsOf
  <2>6. ASSUME NEW i \in 0 .. MaxObjects, NEW j \in 0 .. MaxObjects, i < j
        PROVE  rank[at[j]] < rank[at[i]]
    <3> DEFINE W == { k \in 1 .. MaxObjects : i < k /\ ~(rank[at[k]] < rank[at[i]]) }
    <3> SUFFICES ASSUME W # {} PROVE FALSE
      BY <2>6
    <3>1. W \subseteq Nat
      BY MaxObjectsAssumption
    <3>2. PICK k \in W : \A l \in W : k <= l
      BY <3>1, LeastExists
    <3>3. k - 1 \in 0 .. MaxObjects /\ k \in 0 .. MaxObjects /\ k \in 1 .. MaxObjects /\ i <= k - 1
      BY <3>2, MaxObjectsAssumption
    <3>4. k - 1 \notin W
      BY <3>2
    <3>5. rank[at[k]] < rank[at[k - 1]]
      BY <2>5, <3>3
    <3>6. rank[at[k - 1]] <= rank[at[i]]
      BY <2>4, <3>3, <3>4
    <3>7. rank[at[k]] < rank[at[i]]
      BY <2>4, <3>3, <3>5, <3>6
    <3> QED BY <3>2, <3>7
  <2> DEFINE f == [n \in 0 .. MaxObjects |-> at[n]]
  <2>7. f \in [0 .. MaxObjects -> Cells]
    BY <2>4
  <2>8. /\ IsFiniteSet(0 .. MaxObjects) /\ Cardinality(0 .. MaxObjects) = MaxObjects + 1
        /\ IsFiniteSet(Cells) /\ Cardinality(Cells) = MaxObjects
    <3>1. 0 \in Int /\ 1 \in Int /\ MaxObjects \in Int
      BY MaxObjectsAssumption
    <3>2. \A a, b \in Int :
            IsFiniteSet(a .. b) /\ Cardinality(a .. b) = IF a > b THEN 0 ELSE b - a + 1
      BY FS_Interval
    <3> QED BY <3>1, <3>2, MaxObjectsAssumption DEF Cells
  <2>9. \E i, j \in 0 .. MaxObjects : i # j /\ f[i] = f[j]
    <3>1. Cardinality(Cells) < Cardinality(0 .. MaxObjects)
      BY <2>8, MaxObjectsAssumption
    <3> HIDE DEF f
    <3> QED BY <2>7, <2>8, <3>1, FS_PigeonHole
  <2>10. PICK i, j \in 0 .. MaxObjects : i # j /\ at[i] = at[j]
    BY <2>9
  <2>11. i < j \/ j < i
    BY <2>10, MaxObjectsAssumption
  <2> QED BY <2>4, <2>6, <2>10, <2>11
<1> QED BY <1>2, <1>4, <1>5, MaxObjectsAssumption

LEMMA PushUpvalueGood ==
  ASSUME NEW m, Ready(m), NEW n
  PROVE  Good(m, PushUpvalue(m, n))
<1> DEFINE c == m.heap[OwnArray(m)].upvalues[n]
<1>1. CASE ~Captured(m, n)
  BY <1>1, StopGood DEF PushUpvalue
<1>2. CASE Captured(m, n)
  <2>1. Sound(Null, m) /\ Firm(Null, m)
    BY SoundSolid DEF Ready, Firm
  <2>2. IsOf(m, c, {"upvalue"})
    BY <1>2, <2>1, CapturedFacts
  <2>3. PushUpvalue(m, n)
          = LET u == Resolved(m, c)
            IN  IF u.kind = "object" THEN Push(m, m.heap[u.target])
                ELSE IF u.target \in DOMAIN m.stack THEN Push(m, m.stack[u.target]) ELSE Invalid(m)
    BY <1>2 DEF PushUpvalue
  <2> HIDE DEF c
  <2>4. PICK at : Chain(m, c, at) /\ Resolved(m, c) = m.heap[at[MaxObjects]]
    BY ChainExists
  <2> DEFINE u == Resolved(m, c)
  <2>5. IsOf(m, at[MaxObjects], {"upvalue"})
    BY <2>1, <2>2, <2>4, ChainEnds, MaxObjectsAssumption
  <2>6. Fits(m, u) /\ u.type = "upvalue"
    BY <2>1, <2>4, <2>5, SoundFacts DEF IsOf
  <2>7. u.kind = "object" => IsValue(m, m.heap[u.target])
    BY <2>1, <2>6, HeapValue DEF Fits, FitsUpvalue
  <2>8. u.target \in DOMAIN m.stack => IsValue(m, m.stack[u.target])
    BY <2>1, SoundFacts
  <2> HIDE DEF u
  <2>9. /\ u.kind = "object" => Good(m, Push(m, m.heap[u.target]))
        /\ u.target \in DOMAIN m.stack => Good(m, Push(m, m.stack[u.target]))
    BY <2>7, <2>8, PushGood
  <2> QED BY <2>3, <2>9, StopGood DEF u
<1> QED BY <1>1, <1>2

\* A captured variable gets another value, wherever it is.
LEMMA SetUpvalueFair ==
  ASSUME NEW m, Ready(m), NEW n, NEW i \in 1 .. Len(m.stack)
  PROVE  Fair(m, SetUpvalue(m, n, i))
<1> DEFINE c == m.heap[OwnArray(m)].upvalues[n]
           x == At(m, i)
<1>1. Fair(m, Invalid(m)) /\ Fair(m, Fault(m))
  BY StopGood, GoodFair
<1>2. /\ Sound(Null, m) /\ Firm(Null, m) /\ IsValue(m, x) /\ Ok(m) /\ Solid(Null, m)
      /\ SoundUpvalues(m)
  BY SoundSolid, AtFacts DEF Ready, Firm
<1>3. DOMAIN m = Fields /\ DOMAIN m.stack = 1 .. Len(m.stack) /\ Null \notin InUse(m)
  BY <1>2, SoundFacts
<1>4. CASE ~Captured(m, n)
  BY <1>1, <1>4 DEF SetUpvalue, Reads
<1>5. CASE Captured(m, n)
  <2>1. IsOf(m, c, {"upvalue"})
    BY <1>2, <1>5, CapturedFacts
  <2> DEFINE u == Resolved(m, c)
  <2>2. \/ SetUpvalue(m, n, i) = Invalid(m)
        \/ u.kind = "object" /\ SetUpvalue(m, n, i) = SetCell(m, u.target, x)
        \/ u.kind # "object" /\ SetUpvalue(m, n, i) = [m EXCEPT !.stack[u.target] = x]
    BY <1>5 DEF SetUpvalue, Reads
  <2> HIDE DEF c
  <2>3. PICK at : Chain(m, c, at) /\ Resolved(m, c) = m.heap[at[MaxObjects]]
    BY ChainExists
  <2> DEFINE d == at[MaxObjects]
  <2>4. IsOf(m, d, {"upvalue"}) /\ m.heap[d].kind \in {"object", "stack"} /\ u = m.heap[d]
    BY <1>2, <2>1, <2>3, ChainEnds, MaxObjectsAssumption
  <2>5. Fits(m, u) /\ u.type = "upvalue" /\ d \in InUse(m) /\ d # Null
    BY <1>2, <1>3, <2>4, SoundFacts DEF IsOf
  <2> HIDE DEF u, d, x
  <2>6. CASE u.kind = "object" /\ SetUpvalue(m, n, i) = SetCell(m, u.target, x)
    <3> DEFINE h == [m EXCEPT !.heap[u.target] = x]
    <3>1. SetUpvalue(m, n, i) = h
      BY <1>2, <2>6 DEF SetCell
    <3>2. IsOf(m, u.target, ValueTypes) /\ MayCapture
      BY <2>5, <2>6 DEF Fits, FitsUpvalue
    <3>3. /\ DOMAIN h = Fields /\ SameRoots(m, h) /\ h.free = m.free
          /\ h.heap = [m.heap EXCEPT ![u.target] = x]
      BY <1>3 DEF SameRoots, Fields
    <3> HIDE DEF h
    <3>4. /\ InUse(h) = InUse(m) /\ u.target \in DOMAIN m.heap /\ DOMAIN h.heap = DOMAIN m.heap
          /\ h.heap[u.target] = x /\ \A e \in DOMAIN m.heap : e # u.target => h.heap[e] = m.heap[e]
      BY <3>2, <3>3 DEF InUse, IsOf
    <3>5. /\ x.type \in ValueTypes /\ Fits(m, x) /\ m.heap[u.target].type \in ValueTypes
          /\ u.target \in InUse(m)
      BY <1>2, <3>2 DEF IsValue, IsOf
    <3>6. Kept(m, h, InUse(m))
      BY <3>4, <3>5 DEF Kept, Alike, ValueTypes, InUse
    <3>7. Solid(Null, h)
      <4>1. /\ DOMAIN m.heap \subseteq Cells /\ m.free \subseteq DOMAIN m.heap
            /\ \A e \in m.free : m.heap[e] = Blank
            /\ \A e \in InUse(m) :
                 /\ Fits(m, m.heap[e])
                 /\ m.heap[e].type = "internalVector" /\ e # Null => m.heap[e].initialized
        BY <1>2 DEF Solid, SoundHeap
      <4>2. x.type # "internalVector"
        BY <3>5 DEF ValueTypes
      <4>3. \A e \in h.free : h.heap[e] = Blank
        BY <3>3, <3>4, <3>5, <4>1 DEF InUse
      <4>4. \A e \in InUse(h) :
              /\ Fits(m, h.heap[e])
              /\ h.heap[e].type = "internalVector" /\ e # Null => h.heap[e].initialized
        BY <3>4, <3>5, <4>1, <4>2 DEF InUse
      <4> QED BY <1>2, <3>3, <3>4, <3>6, <4>1, <4>3, <4>4, HeapChanged
    <3>8. \A e \in InUse(h) :
            h.heap[e].type = "upvalue" => e # u.target /\ h.heap[e] = m.heap[e]
      BY <3>4, <3>5 DEF ValueTypes, InUse
    <3>9. \A k \in DOMAIN m.globals : m.globals[k] # u.target /\ m.globals[k] \in DOMAIN m.heap
      BY <1>2, <2>4, <2>5, <2>6, <3>2, SoundFacts DEF SoundUpvalues, IsOf
    <3>10. SoundUpvalues(h)
      <4>1. Ranked(h)
        BY <1>2, <3>4, <3>8 DEF SoundUpvalues, Ranked
      <4>2. \A e \in InUse(h) :
              h.heap[e].type = "upvalue" /\ h.heap[e].kind = "stack"
                => h.heap[e].target \in 1 .. Len(h.uvs) /\ h.uvs[h.heap[e].target] = e
        BY <1>2, <3>3, <3>4, <3>8 DEF SoundUpvalues, SameRoots
      <4>3. \A k \in DOMAIN h.globals :
              /\ h.heap[h.globals[k]].type = "function"
              /\ \A e \in InUse(h) : h.heap[e].type = "upvalue" /\ h.heap[e].kind = "object"
                                       => h.heap[e].target # h.globals[k]
        BY <1>2, <3>2, <3>3, <3>4, <3>8, <3>9 DEF SoundUpvalues, SameRoots
      <4> QED BY <4>1, <4>2, <4>3 DEF SoundUpvalues
    <3> QED BY <3>1, <3>3, <3>7, <3>10 DEF Fair, Firm, SameRoots, Aligned, Ready
  <2>7. CASE u.kind # "object" /\ SetUpvalue(m, n, i) = [m EXCEPT !.stack[u.target] = x]
    <3>1. u.target \in 1 .. Len(m.uvs) /\ m.uvs[u.target] = d
      BY <1>2, <2>4, <2>5, <2>7 DEF SoundUpvalues
    <3>2. u.target \in 1 .. Len(m.stack) /\ m.uvs[u.target] # Null
      BY <2>5, <3>1 DEF Ready, Aligned
    <3> QED BY <1>2, <2>7, <3>1, <3>2, WriteFirm DEF Fair, Ready, Aligned
  <2> QED BY <1>1, <2>2, <2>6, <2>7
<1> QED BY <1>4, <1>5

\* An open upvalue gets its own copy of the variable when the scope of the
\* variable ends, and the place on the stack is cleared.
LEMMA ReleaseUpvalueGood ==
  ASSUME NEW m, Ready(m), NEW i \in 1 .. Len(m.stack), IsOpen(m, i) \/ Temporary(m, {i})
  PROVE  Good(m, ReleaseUpvalues(m, << i >>))
<1> DEFINE slot == Slot(m, i)
           u == m.uvs[slot]
           x == At(m, i)
           made == PushObject(m, x)
           h == SetAt(SetCell(made, u, Upvalue("object", made.cell)), i, Nil)
<1>1. ReleaseUpvalues(m, << i >>) = ReleaseUpvalue(m, i)
  BY ReleaseOne
<1>2. /\ Sound(Null, m) /\ Ok(m) /\ OnStack(m, x) /\ IsValue(m, x) /\ slot \in 1 .. Len(m.stack)
      /\ slot \in DOMAIN m.uvs /\ slot \in 1 .. Len(m.uvs) /\ x = m.stack[slot]
  BY AtFacts, SoundFacts DEF Ready, Aligned
<1>3. CASE u = Null
  <2>1. ReleaseUpvalue(m, i) = m
    BY <1>3 DEF ReleaseUpvalue
  <2> QED BY <1>1, <2>1, StopGood
<1>4. CASE u # Null
  <2>1. m.heap[u] = Upvalue("stack", slot)
    BY <1>2, <1>4 DEF IsOpen, Temporary
  <2>2. m.heap[u].type = "upvalue" /\ m.heap[u].kind = "stack" /\ m.heap[u].target = slot
    BY <2>1 DEF Upvalue
  <2>3. ReleaseUpvalue(m, i) = h
    BY <1>2, <1>4, <2>2 DEF ReleaseUpvalue
  <2>4. Solid(Null, m) /\ u \in Marked(m)
    BY <1>2, <1>4, SoundSolid, RootsInUse, MarkedInUse
  <2>5. /\ Sound(Null, made) /\ SameRoots(m, made)
        /\ \A c \in Marked(m) : c \in InUse(made) /\ made.heap[c] = m.heap[c]
        /\ Ok(made) => IsOf(made, made.cell, ValueTypes) /\ made.cell \notin Marked(m)
    BY <1>2, CopySound
  <2>6. Ok(made) => made.heap[made.cell] = x
    <3>1. x.type # "upvalue" /\ x.type # "internalVector" /\ Fits(m, x) /\ Traced(x) \subseteq Marked(m)
      BY <1>2, OnStackFacts DEF IsValue, ValueTypes
    <3> HIDE DEF x
    <3> QED BY <1>2, <3>1, PushObjectSound
  <2> HIDE DEF x, made, u, slot
  <2>7. CASE ~Ok(made)
    <3>1. h = made
      BY <2>7 DEF SetAt, SetCell
    <3> QED BY <1>1, <2>3, <2>5, <3>1 DEF Good, Ready, Aligned, SameRoots
  <2>8. CASE Ok(made)
    <3> DEFINE o == Upvalue("object", made.cell)
               g == SetCell(made, u, o)
    <3>1. o.type = "upvalue" /\ o.kind = "object" /\ o.target = made.cell
          /\ o = Upvalue(o.kind, o.target)
      BY DEF Upvalue
    <3>2. /\ u \in InUse(made) /\ made.heap[u] = m.heap[u] /\ MayCapture
          /\ DOMAIN made = Fields /\ made.cell \in InUse(made) /\ u # made.cell
      <4>1. u \in InUse(made) /\ made.heap[u] = m.heap[u] /\ u # made.cell
        BY <2>4, <2>5, <2>8
      <4>2. Fits(made, made.heap[u])
        BY <2>5, <4>1, SoundFacts
      <4> QED BY <2>2, <2>5, <2>8, <4>1, <4>2, SoundFacts DEF Fits, FitsUpvalue, IsOf
    <3>3. g = [made EXCEPT !.heap[u] = o]
      BY <2>8 DEF SetCell
    <3>4. /\ DOMAIN g = Fields /\ SameRoots(made, g) /\ g.free = made.free /\ Ok(g)
          /\ g.heap = [made.heap EXCEPT ![u] = o]
      BY <2>8, <3>2, <3>3 DEF SameRoots, Fields, Ok
    <3>5. h = [g EXCEPT !.stack[slot] = Nil]
      <4>1. Slot(g, i) = slot
        BY <2>5, <3>4 DEF SameRoots, Slot, slot
      <4>2. h = SetAt(g, i, Nil)
        OBVIOUS
      <4> HIDE DEF g, h
      <4> QED BY <3>4, <4>1, <4>2 DEF SetAt
    <3> HIDE DEF o, g, h
    <3>6. /\ InUse(g) = InUse(made) /\ DOMAIN g.heap = DOMAIN made.heap /\ g.heap[u] = o
          /\ \A c \in DOMAIN made.heap : c # u => g.heap[c] = made.heap[c]
      BY <3>2, <3>4 DEF InUse
    <3>7. Solid(Null, g)
      <4>1. /\ DOMAIN made.heap \subseteq Cells /\ made.free \subseteq DOMAIN made.heap
            /\ \A e \in made.free : made.heap[e] = Blank
            /\ \A e \in InUse(made) :
                 /\ Fits(made, made.heap[e])
                 /\ made.heap[e].type = "internalVector" /\ e # Null => made.heap[e].initialized
            /\ Solid(Null, made)
        BY <2>5 DEF Sound, Solid, SoundHeap
      <4>2. Fits(made, o)
        <5>1. "car" \notin DOMAIN o /\ "cdr" \notin DOMAIN o /\ o = [f \in DOMAIN o |-> o[f]]
          BY DEF o, Upvalue
        <5>2. IsOf(made, o.target, ValueTypes)
          BY <2>5, <2>8, <3>1
        <5> QED BY <3>1, <3>2, <5>1, <5>2
              DEF CellTypes, Fits, FitsScalar, FitsPair, FitsText, FitsVector, FitsClosure, FitsUpvalue
      <4>3. Kept(made, g, InUse(made))
        BY <2>2, <3>1, <3>2, <3>6 DEF Kept, Alike, InUse
      <4>4. \A e \in g.free : g.heap[e] = Blank
        BY <3>2, <3>4, <3>6, <4>1 DEF InUse
      <4>5. \A e \in InUse(g) :
              /\ Fits(made, g.heap[e])
              /\ g.heap[e].type = "internalVector" /\ e # Null => g.heap[e].initialized
        BY <3>1, <3>6, <4>1, <4>2 DEF InUse
      <4> QED BY <3>4, <3>6, <4>1, <4>3, <4>4, <4>5, HeapChanged
    <3>8. /\ g.stack = m.stack /\ g.uvs = m.uvs /\ g.globals = m.globals /\ g.frames = m.frames
          /\ g.current = m.current
      BY <2>5, <3>4 DEF SameRoots
    <3>9. /\ SameHeap(g, h) /\ h.globals = g.globals /\ SameCalls(g, h) /\ h.uvs = g.uvs
          /\ h.stack = [g.stack EXCEPT ![slot] = Nil]
      BY <3>4, <3>5 DEF SameHeap, SameCalls, Fields
    <3>10. /\ IsSeq(h.stack) /\ Len(h.stack) = Len(g.stack)
           /\ \A k \in 1 .. Len(g.stack) : h.stack[k] = IF k = slot THEN Nil ELSE g.stack[k]
      BY <1>2, <3>7, <3>8, <3>9, SeqChange DEF Solid, SoundRoots
    <3>11. Solid(Null, h)
      <4>1. \A k \in 1 .. Len(h.stack) : IsValue(g, h.stack[k])
        BY <3>7, <3>10, Scalars DEF Solid, SoundRoots
      <4>2. \A k \in 1 .. Len(g.frames) : g.frames[k].base # slot /\ g.frames[k].base \in 1 .. Len(g.stack)
        BY <1>4, <3>7, <3>8 DEF Solid, SoundCalls, u
      <4> QED BY <3>7, <3>9, <3>10, <4>1, <4>2, ValuesSolid
    <3>12. InUse(h) = InUse(made) /\ h.heap = g.heap
      BY <3>6, <3>9 DEF SameHeap, InUse
    <3>13. SoundUpvalues(made) /\ Keeps(made)
      BY <2>5, SoundSolid
    <3>14. made.globals = m.globals /\ made.uvs = m.uvs /\ made.stack = m.stack
      BY <2>5 DEF SameRoots
    <3>15. \A k \in DOMAIN m.globals : m.globals[k] \in Marked(m) /\ m.globals[k] \in InUse(made)
      BY <2>4, <2>5, RootsInUse, MarkedInUse
    <3>16. MayCapture => \A k \in DOMAIN made.globals : h.heap[made.globals[k]].type = "function"
      BY <2>2, <3>2, <3>6, <3>12, <3>13, <3>14, <3>15 DEF SoundUpvalues, InUse
    <3>17. ASSUME NEW c \in InUse(h), h.heap[c].type = "upvalue"
           PROVE  /\ c \in InUse(made) /\ made.heap[c].type = "upvalue"
                  /\ h.heap[c].kind = "upvalue" => h.heap[c] = made.heap[c]
                  /\ h.heap[c].kind # "upvalue" =>
                       /\ made.heap[c].kind # "upvalue"
                       /\ Content(h, h.heap[c]) = Content(made, made.heap[c])
                  /\ h.heap[c].kind = "stack" =>
                       h.heap[c].target \in 1 .. Len(h.uvs) /\ h.uvs[h.heap[c].target] = c
                  /\ MayCapture /\ h.heap[c].kind = "object" =>
                       \A k \in DOMAIN made.globals : h.heap[c].target # made.globals[k]
      <4>1. CASE c = u
        <5>1. /\ h.heap[c] = o /\ made.heap[c] = Upvalue("stack", slot)
          BY <2>1, <3>2, <3>6, <3>12, <4>1
        <5>2. Content(h, h.heap[c]) = h.heap[made.cell] /\ h.heap[made.cell] = x
          BY <2>6, <2>8, <3>1, <3>2, <3>6, <3>12, <5>1 DEF Content, InUse
        <5>3. Content(made, made.heap[c]) = made.stack[slot]
          BY <2>2, <3>2, <4>1 DEF Content
        <5>4. \A k \in DOMAIN made.globals : made.cell # made.globals[k]
          BY <2>5, <2>8, <3>14, <3>15
        <5> QED BY <1>2, <2>2, <3>1, <3>2, <3>12, <3>14, <4>1, <5>1, <5>2, <5>3, <5>4
      <4>2. CASE c # u
        <5>1. h.heap[c] = made.heap[c] /\ c \in InUse(made)
          BY <3>6, <3>12, <4>2 DEF InUse
        <5>2. Fits(made, made.heap[c])
          BY <2>5, <5>1, SoundFacts
        <5>3. /\ made.heap[c] = Upvalue(made.heap[c].kind, made.heap[c].target)
              /\ made.heap[c].kind \in {"stack", "object", "upvalue"}
              /\ made.heap[c].kind = "object" =>
                   made.heap[c].target # u /\ made.heap[c].target \in DOMAIN made.heap
          BY <2>2, <3>2, <3>17, <5>1, <5>2 DEF Fits, FitsUpvalue, IsOf, ValueTypes, InUse
        <5>4. made.heap[c].kind = "stack" =>
                /\ made.heap[c].target \in 1 .. Len(made.uvs) /\ made.uvs[made.heap[c].target] = c
                /\ made.heap[c].target # slot
          BY <3>13, <3>14, <3>17, <4>2, <5>1 DEF SoundUpvalues, u
        <5>5. made.heap[c].kind = "stack" => h.stack[made.heap[c].target] = made.stack[made.heap[c].target]
          <6>1. Len(made.uvs) = Len(made.stack)
            BY <3>14 DEF Ready, Aligned
          <6> QED BY <3>8, <3>10, <3>14, <5>4, <6>1
        <5>6. made.heap[c].kind # "upvalue" => Content(h, h.heap[c]) = Content(made, made.heap[c])
          BY <3>6, <3>12, <5>1, <5>3, <5>5 DEF Content
        <5>7. MayCapture /\ made.heap[c].kind = "object" =>
                \A k \in DOMAIN made.globals : made.heap[c].target # made.globals[k]
          BY <3>13, <3>17, <5>1 DEF SoundUpvalues
        <5> QED BY <3>8, <3>9, <3>14, <3>17, <5>1, <5>4, <5>6, <5>7
      <4> QED BY <4>1, <4>2
    <3>18. SoundUpvalues(h) /\ Keeps(h)
      <4>1. h.globals = made.globals
        BY <3>8, <3>9, <3>14
      <4> QED BY <3>13, <3>16, <3>17, <4>1, UpvaluesClosed
    <3>19. Sound(Null, h) /\ Aligned(h) /\ h.current = m.current
      BY <3>8, <3>9, <3>10, <3>11, <3>18 DEF Sound, Solid, Aligned, Ready, SameCalls
    <3> QED BY <1>1, <2>3, <3>19 DEF Good, h, g, o
  <2> QED BY <2>7, <2>8
<1> QED BY <1>3, <1>4

-----------------------------------------------------------------------------
(* Calls.                                                                  *)

\* What is temporary has no variable to release.
LEMMA TemporaryReleased ==
  ASSUME NEW m, NEW offsets, Temporary(m, offsets)
  PROVE  Released(m, offsets)
BY DEF Temporary, Released, IsOpen

\* While the arguments of a call become a list, the list and its last
\* element lie above the slots that there were.
Growing(m, h) ==
  /\ Sound(Null, h) /\ SameCalls(m, h)
  /\ Len(h.stack) = Len(m.stack) + 2 /\ Len(h.uvs) = Len(m.stack) + 2
  /\ \A k \in 1 .. Len(m.stack) : h.stack[k] = m.stack[k] /\ h.uvs[k] = m.uvs[k]
  /\ h.uvs[Len(m.stack) + 1] = Null /\ h.uvs[Len(m.stack) + 2] = Null
  /\ h.stack[Len(m.stack) + 1].type = "list"

LEMMA GrowSound ==
  ASSUME NEW m, Ready(m), NEW h, Growing(m, h), NEW n \in 1 .. Len(m.stack)
  PROVE  Growing(m, Grow(h, n))
<1> DEFINE L == Len(m.stack)
           a == PushObject(h, At(h, n + 2))
           last == [type |-> "list", list |-> a.cell]
           kept == KeepElement(a)
           o == [type |-> "cons", car |-> kept.cell, cdr |-> At(kept, 2).list]
           b == PushObject(kept, o)
           list == [type |-> "list", list |-> b.cell]
<1>1. L \in Nat /\ Sound(Null, h) /\ Base(h) \in 0 .. L
  <2>1. Sound(Null, m) /\ Base(h) = Base(m)
    BY DEF Ready, Growing, SameCalls, Base
  <2> QED BY <2>1, BaseFacts DEF Growing
<1>2. OnStack(h, At(h, n + 2))
  <2>1. L + 2 + 1 - (n + 2) \in 1 .. L + 2
    BY <1>1
  <2>2. At(h, n + 2) = h.stack[L + 2 + 1 - (n + 2)]
    BY DEF Growing, At, Slot
  <2> QED BY <2>1, <2>2 DEF Growing, OnStack
<1>3. /\ Sound(Null, a) /\ SameRoots(h, a)
      /\ Ok(a) => IsOf(a, a.cell, ValueTypes)
  BY <1>1, <1>2, CopySound
<1> HIDE DEF a
<1>4. Growing(m, a)
  BY <1>3 DEF Growing, SameRoots, SameCalls
<1>5. Grow(h, n) = KeepPair(b)
  BY DEF Grow, a
<1>6. CASE ~Ok(a)
  <2>1. kept = a
    BY <1>6 DEF KeepElement, SetAt
  <2>2. b = a
    BY <1>6, <2>1 DEF PushObject
  <2> HIDE DEF b
  <2>3. KeepPair(b) = a
    BY <1>6, <2>2 DEF KeepPair, SetAt
  <2> QED BY <1>4, <1>5, <2>3
<1>7. CASE Ok(a)
  <2>1. 1 \in Own(a) /\ 2 \in Own(a) /\ Slot(a, 1) = L + 2 /\ Slot(a, 2) = L + 1
    <3>1. Len(a.stack) = L + 2 /\ Base(a) = Base(h)
      BY <1>3, <1>4 DEF Growing, SameRoots, Base
    <3> QED BY <1>1, <3>1 DEF Own, Slot
  <2>2. IsValue(a, last)
    <3>1. MayBe(a, a.cell, Linked)
      BY <1>3, <1>7 DEF MayBe, IsOf, Linked
    <3> QED BY <1>3, <3>1, HeapValue
  <2>3. kept = SetAt(a, 1, last)
    BY DEF KeepElement
  <2>4. last.type = "list" /\ last.list = a.cell
    OBVIOUS
  <2> HIDE DEF last, kept
  <2>5. /\ Sound(Null, kept) /\ SameHeap(a, kept) /\ SameCalls(a, kept)
        /\ kept.globals = a.globals /\ Ok(kept) /\ kept.cell = a.cell /\ kept.uvs = a.uvs
        /\ Len(kept.stack) = Len(a.stack)
        /\ \A k \in 1 .. Len(a.stack) : kept.stack[k] = IF k = L + 2 THEN last ELSE a.stack[k]
    <3>1. ~IsOpen(a, 1)
      BY <1>4, <2>1 DEF IsOpen, Growing
    <3> QED BY <1>3, <1>7, <2>1, <2>2, <2>3, <3>1, SetAtSound DEF Ok
  <2>6. Growing(m, kept) /\ kept.stack[L + 2] = last
    <3>1. /\ Len(a.stack) = L + 2 /\ L + 2 \in 1 .. L + 2 /\ L + 1 # L + 2
          /\ L + 1 \in 1 .. L + 2 /\ \A k \in 1 .. L : k \in 1 .. L + 2 /\ k # L + 2
      BY <1>1, <1>4 DEF Growing
    <3> QED BY <1>4, <2>5, <3>1 DEF Growing, SameCalls
  <2>7. /\ OnStack(kept, last) /\ OnStack(kept, kept.stack[L + 1])
        /\ At(kept, 2) = kept.stack[L + 1]
    BY <1>1, <2>6 DEF Growing, OnStack, At, Slot
  <2> DEFINE rest == kept.stack[L + 1]
  <2>8. rest.type = "list" /\ IsValue(kept, rest) /\ Traced(rest) \subseteq Marked(kept)
    BY <2>5, <2>6, <2>7, OnStackFacts DEF Growing
  <2>9. MayBe(kept, rest.list, Linked) /\ (rest.list # Null => rest.list \in Marked(kept))
    BY <2>5, <2>7, <2>8, OnStackReached DEF IsValue, Fits, FitsPair
  <2>10. IsOf(kept, kept.cell, ValueTypes) /\ kept.cell # Null
    BY <1>3, <1>7, <2>5, SoundFacts DEF IsOf, SameHeap, InUse
  <2>11. kept.cell \in Marked(kept) /\ MayBe(kept, kept.cell, Linked)
    BY <2>4, <2>5, <2>7, <2>10, OnStackReached DEF IsOf, MayBe, Linked
  <2>12. Fits(kept, o) /\ Traced(o) \subseteq Marked(kept) /\ o.type = "cons"
    <3>1. o.type = "cons" /\ o.car = kept.cell /\ o.cdr = rest.list
          /\ DOMAIN o = {"type", "car", "cdr"}
      BY <2>7
    <3> HIDE DEF o, rest
    <3>2. FitsPair(kept, o)
      BY <2>9, <2>11, <3>1 DEF FitsPair
    <3>3. Fits(kept, o)
      BY <3>1, <3>2 DEF CellTypes, Fits, FitsScalar, FitsText, FitsVector, FitsClosure, FitsUpvalue
    <3>4. Traced(o) \subseteq Marked(kept)
      BY <2>9, <2>11, <3>1, TracedFacts
    <3> QED BY <3>1, <3>3, <3>4
  <2> HIDE DEF o
  <2>13. /\ Sound(Null, b) /\ SameRoots(kept, b)
         /\ Ok(b) => IsOf(b, b.cell, {"cons"})
    BY <2>5, <2>12, PushObjectSound DEF IsOf
  <2> HIDE DEF b
  <2>14. Growing(m, b)
    BY <2>6, <2>13 DEF Growing, SameRoots, SameCalls
  <2>15. CASE ~Ok(b)
    <3>1. KeepPair(b) = b
      BY <2>15 DEF KeepPair, SetAt
    <3> QED BY <1>5, <2>14, <3>1
  <2>16. CASE Ok(b)
    <3>1. 2 \in Own(b) /\ Slot(b, 2) = L + 1
      <4>1. Len(b.stack) = L + 2 /\ Base(b) = Base(h)
        BY <2>14 DEF Growing, SameCalls, Base
      <4> QED BY <1>1, <4>1 DEF Own, Slot
    <3>2. IsValue(b, list)
      <4>1. MayBe(b, b.cell, Linked)
        BY <2>13, <2>16 DEF MayBe, IsOf, Linked
      <4> QED BY <2>13, <4>1, HeapValue
    <3>3. list.type = "list" /\ KeepPair(b) = SetAt(b, 2, list)
      BY DEF KeepPair
    <3> HIDE DEF list
    <3> DEFINE g == SetAt(b, 2, list)
    <3>4. /\ Sound(Null, g) /\ SameCalls(b, g) /\ g.uvs = b.uvs
          /\ Len(g.stack) = Len(b.stack)
          /\ \A k \in 1 .. Len(b.stack) : g.stack[k] = IF k = L + 1 THEN list ELSE b.stack[k]
      <4>1. ~IsOpen(b, 2)
        BY <2>14, <3>1 DEF IsOpen, Growing
      <4> QED BY <2>13, <2>16, <3>1, <3>2, <4>1, SetAtSound
    <3> HIDE DEF g
    <3>5. Growing(m, g)
      <4>1. /\ Len(b.stack) = L + 2 /\ L + 1 \in 1 .. L + 2
            /\ \A k \in 1 .. L : k \in 1 .. L + 2 /\ k # L + 1
        BY <1>1, <2>14 DEF Growing
      <4> QED BY <2>14, <3>3, <3>4, <4>1 DEF Growing, SameCalls
    <3> QED BY <1>5, <3>3, <3>5 DEF g
  <2> QED BY <2>15, <2>16
<1> QED BY <1>6, <1>7

\* The arguments have become a list in the place of the first of them.
Spared(m, h, n) ==
  /\ Good(m, h) /\ SameCalls(m, h)
  /\ Ok(h) => /\ Len(h.stack) >= n
              /\ \A k \in 1 .. n : h.stack[k] = m.stack[k] /\ h.uvs[k] = m.uvs[k]

LEMMA CollectSound ==
  ASSUME NEW m, Ready(m), NEW args \in 0 .. Len(m.stack) - Base(m), Temporary(m, 1 .. args)
  PROVE  Spared(m, Collect(m, args, Null), Len(m.stack) - args)
<1> DEFINE L == Len(m.stack)
           start == Push(Push(m, [type |-> "list", list |-> Null]), Nil)
           folded == FoldLeftDomain(Grow, start, [k \in 1 .. args |-> k])
           grown == Pop(folded, 1)
           x == At(grown, 1)
           put == SetAt(grown, args + 1, x)
           h == Pop(put, args)
<1>1. /\ Collect(m, args, Null) = IF Ok(grown) THEN h ELSE grown
      /\ L \in Nat /\ Base(m) \in 0 .. L /\ args \in Nat /\ args <= L - Base(m)
  BY BaseFacts DEF Collect, Ready
<1>2. Growing(m, start)
  <2> DEFINE nil == [type |-> "list", list |-> Null]
             a == Push(m, nil)
  <2>1. IsValue(m, nil) /\ nil = Nil
    BY Scalars DEF Nil
  <2>2. nil.type = "list"
    OBVIOUS
  <2> HIDE DEF nil
  <2>3. /\ Sound(Null, a) /\ SameCalls(m, a) /\ Ok(a) /\ Len(a.stack) = L + 1
        /\ Len(a.uvs) = L + 1 /\ a.stack[L + 1] = nil /\ a.uvs[L + 1] = Null
        /\ \A k \in 1 .. L : a.stack[k] = m.stack[k] /\ a.uvs[k] = m.uvs[k]
    <3>1. Sound(Null, m) /\ Ok(m) /\ Len(m.uvs) = L
      BY DEF Ready, Aligned
    <3>2. a = Push(m, nil)
      OBVIOUS
    <3> HIDE DEF a
    <3>3. /\ Sound(Null, a) /\ SameCalls(m, a) /\ a.status = m.status /\ Len(a.stack) = L + 1
          /\ Len(a.uvs) = L + 1 /\ a.stack[L + 1] = nil /\ a.uvs[L + 1] = Null
          /\ \A k \in 1 .. L : a.stack[k] = m.stack[k] /\ a.uvs[k] = m.uvs[k]
      <4>1. /\ Sound(Null, a) /\ SameCalls(m, a) /\ a.status = m.status
            /\ Len(a.stack) = Len(m.stack) + 1 /\ a.stack[Len(m.stack) + 1] = nil
            /\ \A k \in 1 .. Len(m.stack) : a.stack[k] = m.stack[k]
        BY <2>1, <3>1, <3>2, PushSound
      <4>2. /\ Len(a.uvs) = Len(m.uvs) + 1 /\ a.uvs[Len(m.uvs) + 1] = Null
            /\ \A k \in 1 .. Len(m.uvs) : a.uvs[k] = m.uvs[k]
        BY <2>1, <3>1, <3>2, PushSound
      <4> QED BY <3>1, <4>1, <4>2
    <3> QED BY <3>1, <3>3 DEF Ok
  <2> HIDE DEF a
  <2>4. IsValue(a, Nil)
    BY Scalars
  <2>5. /\ Sound(Null, start) /\ SameCalls(a, start) /\ Len(start.stack) = L + 2
        /\ Len(start.uvs) = L + 2 /\ start.uvs[L + 2] = Null
        /\ \A k \in 1 .. L + 1 : start.stack[k] = a.stack[k] /\ start.uvs[k] = a.uvs[k]
    <3> DEFINE b == Push(a, Nil)
    <3>1. /\ Sound(Null, b) /\ SameCalls(a, b) /\ Len(b.stack) = Len(a.stack) + 1
          /\ Len(b.uvs) = Len(a.uvs) + 1 /\ b.uvs[Len(a.uvs) + 1] = Null
          /\ \A k \in 1 .. Len(a.stack) : b.stack[k] = a.stack[k]
          /\ \A k \in 1 .. Len(a.uvs) : b.uvs[k] = a.uvs[k]
      <4>1. b = Push(a, Nil)
        OBVIOUS
      <4> HIDE DEF b
      <4>2. /\ Sound(Null, b) /\ SameCalls(a, b) /\ Len(b.stack) = Len(a.stack) + 1
            /\ \A k \in 1 .. Len(a.stack) : b.stack[k] = a.stack[k]
        BY <2>3, <2>4, <4>1, PushSound
      <4>3. /\ Len(b.uvs) = Len(a.uvs) + 1 /\ b.uvs[Len(a.uvs) + 1] = Null
            /\ \A k \in 1 .. Len(a.uvs) : b.uvs[k] = a.uvs[k]
        BY <2>3, <2>4, <4>1, PushSound
      <4> QED BY <4>2, <4>3
    <3>2. start = b
      BY DEF a, nil
    <3> HIDE DEF b, start
    <3> QED BY <1>1, <2>3, <3>1, <3>2
  <2> HIDE DEF start
  <2>6. L + 1 \in 1 .. L + 1 /\ \A k \in 1 .. L : k \in 1 .. L + 1
    BY <1>1
  <2> QED BY <2>2, <2>3, <2>5, <2>6 DEF Growing, SameCalls
<1> HIDE DEF start
<1>3. Growing(m, folded)
  <2> DEFINE p == [by |-> "grow"]
  <2>1. PICK s : Stages(s, p, start, args) /\ folded = s[args]
    BY <1>1, GrowStages
  <2>2. \A y, k : Step(p, y, k) = Grow(y, k)
    BY DEF Step
  <2> HIDE DEF p, folded
  <2> DEFINE T == { k \in 0 .. args : ~Growing(m, s[k]) }
  <2>3. 0 \notin T
    BY <1>2, <2>1 DEF Stages
  <2>4. ASSUME NEW k \in 1 .. args, Growing(m, s[k - 1])
        PROVE  Growing(m, s[k])
    <3>1. k \in 1 .. Len(m.stack)
      BY <1>1
    <3>2. s[k] = Grow(s[k - 1], k)
      BY <2>1, <2>2 DEF Stages
    <3> QED BY <2>4, <3>1, <3>2, GrowSound
  <2>5. ASSUME T # {} PROVE FALSE
    <3>0. T \subseteq Nat
      BY <1>1
    <3>1. PICK k \in T : \A j \in T : k <= j
      <4> HIDE DEF T
      <4> QED BY <2>5, <3>0, LeastExists
    <3>2. k \in 1 .. args /\ k - 1 \in 0 .. args /\ k - 1 \notin T
      BY <1>1, <2>3, <3>1
    <3>3. Growing(m, s[k - 1]) /\ ~Growing(m, s[k])
      BY <3>1, <3>2
    <3> QED BY <2>4, <3>2, <3>3
  <2>6. args \in 0 .. args /\ args \notin T
    BY <1>1, <2>5
  <2> QED BY <2>1, <2>6
<1> HIDE DEF folded
<1>4. /\ Sound(Null, grown) /\ Aligned(grown) /\ SameCalls(m, grown)
      /\ Ok(grown) => /\ Len(grown.stack) = L + 1
                      /\ \A k \in 1 .. L + 1 : /\ grown.stack[k] = folded.stack[k]
                                               /\ grown.uvs[k] = folded.uvs[k]
  <2>1. Sound(Null, folded) /\ Aligned(folded) /\ Base(folded) = Base(m)
    BY <1>3 DEF Growing, Aligned, SameCalls, Base
  <2>2. Len(folded.stack) = L + 2 /\ SameCalls(m, folded)
    BY <1>3 DEF Growing
  <2>3. 1 \in 0 .. Len(folded.stack) - Base(folded)
    BY <1>1, <2>1, <2>2
  <2>4. /\ Sound(Null, grown) /\ Aligned(grown) /\ SameCalls(folded, grown)
        /\ grown.status = folded.status
        /\ Ok(folded) => /\ Len(grown.stack) = Len(folded.stack) - 1
                         /\ \A k \in 1 .. Len(folded.stack) - 1 :
                              /\ grown.stack[k] = folded.stack[k]
                              /\ grown.uvs[k] = folded.uvs[k]
    <3>1. Released(folded, 1 .. 1)
      <4>1. folded.uvs[Slot(folded, 1)] = Null
        <5>1. Len(folded.stack) + 1 - 1 = L + 2
          BY <1>1, <2>2
        <5> QED BY <1>3, <5>1 DEF Growing, Slot
      <4>2. \A i \in 1 .. 1 : i = 1
        OBVIOUS
      <4> QED BY <4>1, <4>2 DEF Released, IsOpen
    <3>2. grown = Pop(folded, 1)
      OBVIOUS
    <3> HIDE DEF grown
    <3>3. /\ Sound(Null, grown) /\ Aligned(grown) /\ SameCalls(folded, grown)
          /\ grown.status = folded.status
      BY <2>1, <2>3, <3>1, <3>2, PopSound
    <3>4. Ok(folded) => /\ Len(grown.stack) = Len(folded.stack) - 1
                        /\ \A k \in 1 .. Len(folded.stack) - 1 :
                             /\ grown.stack[k] = folded.stack[k]
                             /\ grown.uvs[k] = folded.uvs[k]
      <4> SUFFICES ASSUME Ok(folded)
                   PROVE  /\ Len(grown.stack) = Len(folded.stack) - 1
                          /\ \A k \in 1 .. Len(folded.stack) - 1 :
                               /\ grown.stack[k] = folded.stack[k]
                               /\ grown.uvs[k] = folded.uvs[k]
        OBVIOUS
      <4>1. Sound(Null, folded) /\ Aligned(folded)
        BY <2>1
      <4>2. Len(grown.stack) = Len(folded.stack) - 1
        BY <2>3, <3>1, <3>2, <4>1, PopSound DEF Ok
      <4>3. ASSUME NEW k \in 1 .. Len(folded.stack) - 1
            PROVE  grown.stack[k] = folded.stack[k]
        BY <2>3, <3>1, <3>2, <4>1, PopSound DEF Ok
      <4>4. ASSUME NEW k \in 1 .. Len(folded.stack) - 1
            PROVE  grown.uvs[k] = folded.uvs[k]
        BY <2>3, <3>1, <3>2, <4>1, PopSound DEF Ok
      <4> QED BY <4>2, <4>3, <4>4
    <3> QED BY <3>3, <3>4
  <2> HIDE DEF grown
  <2> QED BY <1>1, <2>2, <2>4 DEF SameCalls, Ok
<1> HIDE DEF grown
<1>5. Good(m, grown)
  BY <1>4 DEF Good, SameCalls
<1>6. CASE ~Ok(grown)
  BY <1>1, <1>4, <1>5, <1>6 DEF Spared
<1>7. CASE Ok(grown)
  <2>1. Len(grown.stack) = L + 1 /\ Base(grown) = Base(m)
    BY <1>4, <1>7 DEF SameCalls, Base
  <2>2. args + 1 \in Own(grown) /\ 1 \in 1 .. Len(grown.stack)
        /\ Slot(grown, args + 1) = L + 1 - args
    <3> DEFINE len == Len(grown.stack)
               base == Base(grown)
               old == Len(m.stack)
    <3>1. /\ Own(grown) = 1 .. len - base /\ Slot(grown, args + 1) = len + 1 - (args + 1)
          /\ len = old + 1 /\ old \in Nat /\ base \in 0 .. old /\ args \in Nat /\ args <= old - base
      BY <1>1, <2>1 DEF Own, Slot
    <3> HIDE DEF len, base, old
    <3>2. args + 1 \in 1 .. len - base /\ 1 \in 1 .. len /\ len + 1 - (args + 1) = old + 1 - args
      BY <3>1
    <3> QED BY <3>1, <3>2 DEF len, base, old
  <2>3. IsValue(grown, x)
    BY <1>4, <2>2, AtFacts
  <2> HIDE DEF x
  <2>4. /\ Sound(Null, put) /\ SameCalls(grown, put) /\ put.uvs = grown.uvs
        /\ Len(put.stack) = L + 1 /\ Ok(put)
        /\ \A k \in 1 .. L + 1 : put.stack[k] = IF k = L + 1 - args THEN x ELSE grown.stack[k]
    <3>1. put = SetAt(grown, args + 1, x)
      OBVIOUS
    <3> HIDE DEF put
    <3>3. ~IsOpen(grown, args + 1)
      <4>1. grown.uvs[L + 1 - args] = Null
        <5>1. CASE args = 0
          <6>1. L + 1 - args = L + 1 /\ L + 1 \in 1 .. L + 1
            BY <1>1, <5>1
          <6> QED BY <1>3, <1>4, <1>7, <6>1 DEF Growing
        <5>2. CASE args # 0
          <6>1. /\ args \in 1 .. args /\ L + 1 - args \in 1 .. L /\ L + 1 - args \in 1 .. L + 1
                /\ Slot(m, args) = L + 1 - args
            BY <1>1, <5>2 DEF Slot
          <6>2. m.uvs[L + 1 - args] = Null
            BY <6>1, SoundFacts DEF Temporary, Ready, Aligned
          <6> QED BY <1>3, <1>4, <1>7, <6>1, <6>2 DEF Growing
        <5> QED BY <5>1, <5>2
      <4> QED BY <2>2, <4>1 DEF IsOpen
    <3>2. /\ Sound(Null, put) /\ SameCalls(grown, put) /\ put.uvs = grown.uvs
          /\ Len(put.stack) = Len(grown.stack) /\ put.status = grown.status
          /\ \A k \in 1 .. Len(grown.stack) :
               put.stack[k] = IF k = Slot(grown, args + 1) THEN x ELSE grown.stack[k]
      BY <1>4, <1>7, <2>2, <2>3, <3>1, <3>3, SetAtSound
    <3> QED BY <1>7, <2>1, <2>2, <3>2 DEF Ok
  <2> HIDE DEF put
  <2>5. Aligned(put) /\ Base(put) = Base(m) /\ args \in 0 .. Len(put.stack) - Base(put)
    <3>1. Aligned(put) /\ Base(put) = Base(m)
      BY <1>4, <2>1, <2>4 DEF Aligned, SameCalls, Base
    <3> QED BY <1>1, <2>4, <3>1
  <2>6. /\ Sound(Null, h) /\ Aligned(h) /\ SameCalls(put, h)
        /\ Len(h.stack) = L + 1 - args
        /\ \A k \in 1 .. L + 1 - args : h.stack[k] = put.stack[k] /\ h.uvs[k] = put.uvs[k]
    <3>1. \A i \in 1 .. args : put.uvs[Slot(put, i)] = Null
      <4> SUFFICES ASSUME NEW i \in 1 .. args PROVE put.uvs[Slot(put, i)] = Null
        OBVIOUS
      <4>1. /\ L + 1 - i \in 1 .. L /\ L + 1 - i + 1 = L + 1 + 1 - i /\ L + 1 \in 1 .. L + 1
            /\ L + 1 + 1 - i \in 1 .. L + 1
        BY <1>1
      <4>2. \A k \in 1 .. L + 1 : grown.uvs[k] = folded.uvs[k]
        BY <1>4, <1>7
      <4>3. CASE i = 1
        <5>1. L + 1 + 1 - i = L + 1
          BY <1>1, <4>3
        <5> QED BY <1>3, <2>4, <4>1, <4>2, <5>1 DEF Growing, Slot
      <4>4. CASE i # 1
        <5>1. /\ i - 1 \in 1 .. args /\ Slot(m, i - 1) = L + 1 + 1 - i
              /\ L + 1 + 1 - i \in 1 .. L
          BY <1>1, <4>4 DEF Slot
        <5>2. m.uvs[L + 1 + 1 - i] = Null
          BY <5>1, SoundFacts DEF Temporary, Ready, Aligned
        <5> QED BY <1>3, <2>4, <4>1, <4>2, <5>1, <5>2 DEF Growing, Slot
      <4> QED BY <4>3, <4>4
    <3>2. Released(put, 1 .. args)
      BY <3>1 DEF Released, IsOpen
    <3>3. Len(put.stack) - args = L + 1 - args
      BY <2>4
    <3> QED BY <2>4, <2>5, <3>2, <3>3, PopSound
  <2> HIDE DEF h
  <2>7. \A k \in 1 .. L - args : h.stack[k] = m.stack[k] /\ h.uvs[k] = m.uvs[k]
    <3>1. \A k \in 1 .. L - args : /\ k \in 1 .. L /\ k \in 1 .. L + 1 /\ k # L + 1 - args
                                   /\ k \in 1 .. L + 1 - args
      BY <1>1
    <3> QED BY <1>3, <1>4, <1>7, <2>4, <2>6, <3>1 DEF Growing
  <2>8. Good(m, h) /\ SameCalls(m, h)
    BY <1>4, <2>4, <2>6 DEF Good, SameCalls
  <2>9. Len(h.stack) >= L - args
    BY <1>1, <2>6
  <2> QED BY <1>1, <1>7, <2>7, <2>8, <2>9 DEF Spared
<1> QED BY <1>6, <1>7

\* The number of arguments is checked, and the optional ones are collected.
LEMMA ArgumentsSound ==
  ASSUME NEW m, Ready(m), NEW n \in 0 .. Len(m.stack) - Base(m), Temporary(m, 1 .. n),
         NEW f, f.arity \in Nat
  PROVE  Spared(m, Arguments(m, f, n, Null), Len(m.stack) - n)
<1>1. Len(m.stack) \in Nat /\ Base(m) \in 0 .. Len(m.stack) /\ n \in Nat
  BY BaseFacts DEF Ready
<1>2. Good(m, Invalid(m)) /\ SameCalls(m, Invalid(m)) /\ ~Ok(Invalid(m))
  <2>1. DOMAIN m = Fields
    BY SoundFacts DEF Ready
  <2> QED BY <2>1, StopGood DEF Invalid, Failed, Ok, Ready, SameCalls, Fields
<1>3. CASE f.variadic /\ ~(n < f.arity)
  <2> DEFINE args == n - f.arity
  <2>1. args \in 0 .. Len(m.stack) - Base(m) /\ args <= n /\ args \in Nat
    BY <1>1, <1>3
  <2>2. Arguments(m, f, n, Null) = Collect(m, args, Null)
    BY <1>3 DEF Arguments
  <2> HIDE DEF args
  <2>3. Spared(m, Collect(m, args, Null), Len(m.stack) - args)
    <3>1. \A k \in 1 .. args : k \in 1 .. n
      BY <1>1, <2>1
    <3>2. Temporary(m, 1 .. args)
      BY <3>1 DEF Temporary
    <3> QED BY <2>1, <3>2, CollectSound
  <2>4. \A k \in 1 .. Len(m.stack) - n : k \in 1 .. Len(m.stack) - args
    BY <1>1, <2>1
  <2>5. \A len \in Nat : len >= Len(m.stack) - args => len >= Len(m.stack) - n
    BY <1>1, <2>1
  <2>6. Len(Collect(m, args, Null).stack) \in Nat
    BY <2>3, SoundFacts DEF Spared, Good
  <2> QED BY <2>2, <2>3, <2>4, <2>5, <2>6 DEF Spared
<1>4. CASE ~f.variadic /\ n = f.arity
  <2>1. Arguments(m, f, n, Null) = m
    BY <1>4 DEF Arguments
  <2>2. Len(m.stack) >= Len(m.stack) - n
    BY <1>1
  <2> QED BY <2>1, <2>2, StopGood DEF Spared, SameCalls
<1>5. CASE (f.variadic /\ n < f.arity) \/ (~f.variadic /\ n # f.arity)
  <2>1. Arguments(m, f, n, Null) = Invalid(m)
    BY <1>5 DEF Arguments
  <2> QED BY <1>2, <2>1 DEF Spared
<1> QED BY <1>3, <1>4, <1>5

\* A call is pushed: of a closure that lies at the callee's slot, or of a
\* subroutine of the same code.
LEMMA CallSound ==
  ASSUME NEW m, Ready(m), NEW base \in Base(m) + 1 .. Len(m.stack), m.uvs[base] = Null,
         NEW upvalues, NEW ip,
         NEW h, h = [m EXCEPT !.frames = Append(@, CallFrame(m, upvalues, base)), !.ip = ip],
         \/ upvalues = Null /\ ip = m.ip
         \/ /\ m.stack[base].type = "closure" /\ m.stack[base].upvalue_array = upvalues
            /\ m.stack[base].name = ip
  PROVE  Good(m, h)
<1> DEFINE n == Len(m.frames)
           frame == CallFrame(m, upvalues, base)
<1>1. /\ DOMAIN m = Fields /\ IsSeq(m.frames) /\ Sound(Null, m) /\ n \in Nat
  BY SoundFacts, SeqDomain DEF Ready, Sound, SoundCalls
<1>2. /\ DOMAIN h = Fields /\ h.heap = m.heap /\ h.free = m.free /\ h.stack = m.stack
      /\ h.uvs = m.uvs /\ h.globals = m.globals /\ h.current = m.current
      /\ h.ip = ip /\ h.frames = Append(m.frames, frame)
  BY <1>1 DEF Fields
<1>3. /\ frame.ip = m.ip /\ frame.bytecode = m.current /\ frame.upvalues = upvalues
      /\ frame.base = base
  BY DEF CallFrame
<1> HIDE DEF frame
<1>4. /\ IsSeq(h.frames) /\ Len(h.frames) = n + 1 /\ h.frames[n + 1] = frame
      /\ \A k \in 1 .. n : h.frames[k] = m.frames[k]
  BY <1>1, <1>2, SeqAppend
<1>5. /\ RunsIn(m, n, m.ip) /\ base \in 1 .. Len(m.stack)
      /\ \A j \in 1 .. n : m.frames[j].base < base
  <2>1. RunsIn(m, n, m.ip)
    BY <1>1 DEF Sound, SoundCalls
  <2>2. /\ Base(m) = BaseAt(m, n) /\ Base(m) \in 0 .. Len(m.stack) /\ Len(m.stack) \in Nat
        /\ \A k \in 1 .. n : \A j \in 1 .. k : m.frames[j].base <= BaseAt(m, k)
    BY <1>1, BaseFacts
  <2>3. ASSUME NEW j \in 1 .. n PROVE m.frames[j].base < base
    <3>1. m.frames[j].base <= Base(m) /\ m.frames[j].base \in 1 .. Len(m.stack)
      <4>1. n \in 1 .. n /\ j \in 1 .. n
        BY <1>1
      <4> QED BY <1>1, <2>2, <4>1 DEF Sound, SoundCalls
    <3> QED BY <2>2, <3>1
  <2> QED BY <2>1, <2>2, <2>3
<1>6. \A k \in 0 .. n : \A code : RunsIn(m, k, code) => RunsIn(h, k, code)
  <2> SUFFICES ASSUME NEW k \in 0 .. n, NEW code, RunsIn(m, k, code) PROVE RunsIn(h, k, code)
    OBVIOUS
  <2>1. \A j \in 1 .. k : j \in 1 .. n
    BY <1>1
  <2> QED BY <1>2, <1>4, <2>1 DEF RunsIn
<1>7. RunsIn(h, n + 1, h.ip)
  <2>1. CASE ip = m.ip
    <3>1. RunsIn(h, n, ip) /\ \A j \in 1 .. n : j \in 1 .. n + 1
      BY <1>1, <1>5, <1>6, <2>1
    <3> QED BY <1>2, <3>1 DEF RunsIn
  <2>2. CASE m.stack[base].type = "closure" /\ m.stack[base].name = ip
    <3>1. n + 1 \in 1 .. n + 1
      BY <1>1
    <3> QED BY <1>2, <1>3, <1>4, <2>2, <3>1 DEF RunsIn
  <2> QED BY <2>1, <2>2
<1>8. SoundCalls(h)
  <2> SUFFICES ASSUME NEW k \in 1 .. n + 1
               PROVE  /\ h.frames[k].bytecode = h.current /\ RunsIn(h, k - 1, h.frames[k].ip)
                      /\ h.frames[k].base \in 1 .. Len(h.stack)
                      /\ h.frames[k].base \in 1 .. Len(h.uvs) /\ h.uvs[h.frames[k].base] = Null
                      /\ \A j \in 1 .. k - 1 : h.frames[j].base < h.frames[k].base
                      /\ h.frames[k].upvalues # Null =>
                           /\ h.stack[h.frames[k].base].type = "closure"
                           /\ h.stack[h.frames[k].base].upvalue_array = h.frames[k].upvalues
    BY <1>4, <1>7 DEF SoundCalls
  <2>1. CASE k = n + 1
    <3>1. k - 1 = n /\ n \in 0 .. n
      BY <1>1, <2>1
    <3>2. base \in 1 .. Len(m.uvs)
      BY <1>5 DEF Ready, Aligned
    <3> QED BY <1>2, <1>3, <1>4, <1>5, <1>6, <2>1, <3>1, <3>2
  <2>2. CASE k # n + 1
    <3>1. k \in 1 .. n /\ k - 1 \in 0 .. n /\ \A j \in 1 .. k - 1 : j \in 1 .. n
      BY <1>1, <2>2
    <3>2. /\ m.frames[k].bytecode = m.current /\ RunsIn(m, k - 1, m.frames[k].ip)
          /\ m.frames[k].base \in 1 .. Len(m.stack)
          /\ m.frames[k].base \in 1 .. Len(m.uvs) /\ m.uvs[m.frames[k].base] = Null
          /\ \A j \in 1 .. k - 1 : m.frames[j].base < m.frames[k].base
          /\ m.frames[k].upvalues # Null =>
               /\ m.stack[m.frames[k].base].type = "closure"
               /\ m.stack[m.frames[k].base].upvalue_array = m.frames[k].upvalues
      BY <1>1, <3>1 DEF Sound, SoundCalls
    <3>3. RunsIn(h, k - 1, m.frames[k].ip)
      BY <1>6, <3>1, <3>2
    <3> QED BY <1>2, <1>4, <3>1, <3>2, <3>3
  <2> QED BY <2>1, <2>2
<1>9. SoundHeap(Null, h) /\ SoundRoots(h)
  <2>1. InUse(h) = InUse(m)
    BY <1>2 DEF InUse
  <2>2. \A o : Fits(m, o) => Fits(h, o)
    <3> SUFFICES ASSUME NEW o, Fits(m, o) PROVE Fits(h, o)
      OBVIOUS
    <3>1. Kept(m, h, Traced(o))
      BY <1>1, <1>2, <2>1, SoundFacts, FitsTraced DEF Kept, Alike
    <3> QED BY <1>1, <3>1, SoundFacts, FitsKept
  <2> QED BY <1>1, <1>2, <2>1, <2>2 DEF Sound, SoundHeap, SoundRoots, IsValue, IsOf, MayBe
<1>10. SoundUpvalues(h) /\ Keeps(h)
  <2>1. InUse(h) = InUse(m) /\ SoundUpvalues(m) /\ Keeps(m)
    BY <1>1, <1>2 DEF InUse, Sound
  <2> QED BY <1>2, <2>1 DEF SoundUpvalues, Ranked, Keeps, Content
<1> QED BY <1>2, <1>8, <1>9, <1>10 DEF Good, Sound, Aligned, Ready

\* No callee is an instance.
LEMMA NotUnwrapped ==
  ASSUME NEW m, NEW i, NEW args, At(m, i).type # "composite"
  PROVE  Unwrapped(m, i, args) = [m |-> m, i |-> i, args |-> args, f |-> At(m, i)]
<1> DEFINE start == [m |-> m, i |-> i, args |-> args, f |-> At(m, i)]
           at == CHOOSE at : at = [n \in 0 .. MaxObjects |->
                   IF n = 0 THEN start ELSE UnwrapOnce(at[n - 1])]
           g == [n \in 0 .. MaxObjects |-> start]
<1>1. Unwrapped(m, i, args) = at[MaxObjects]
  BY DEF Unwrapped
<1>2. UnwrapOnce(start) = start
  BY DEF UnwrapOnce
<1> HIDE DEF start
<1>3. g = [n \in 0 .. MaxObjects |-> IF n = 0 THEN start ELSE UnwrapOnce(g[n - 1])]
  <2>1. \A n \in 0 .. MaxObjects : n # 0 => n - 1 \in 0 .. MaxObjects
    BY MaxObjectsAssumption
  <2> QED BY <1>2, <2>1
<1> HIDE DEF g
<1>4. at = [n \in 0 .. MaxObjects |-> IF n = 0 THEN start ELSE UnwrapOnce(at[n - 1])]
  BY <1>3, Zenon
<1> HIDE DEF at
<1> DEFINE T == { n \in 0 .. MaxObjects : at[n] # start }
<1>5. T \subseteq Nat /\ 0 \notin T
  BY <1>4, MaxObjectsAssumption
<1>6. ASSUME T # {} PROVE FALSE
  <2>1. PICK n \in T : \A j \in T : n <= j
    <3> HIDE DEF T
    <3> QED BY <1>5, <1>6, LeastExists
  <2>2. n \in 1 .. MaxObjects /\ n - 1 \in 0 .. MaxObjects /\ n - 1 \notin T
    BY <1>5, <2>1, MaxObjectsAssumption
  <2>3. at[n - 1] = start
    BY <2>2
  <2>4. at[n] = UnwrapOnce(at[n - 1])
    BY <1>4, <2>2, MaxObjectsAssumption
  <2> QED BY <1>2, <2>1, <2>3, <2>4
<1>7. at[MaxObjects] = start
  BY <1>6, MaxObjectsAssumption
<1> QED BY <1>1, <1>7 DEF start

\* A closure is entered once its arguments are in place.
LEMMA EnterGood ==
  ASSUME NEW m, Ready(m), NEW i \in Own(m), Temporary(m, 1 .. i), At(m, i).type = "closure",
         NEW h, h = Arguments(m, At(m, i), i - 1, Null)
  PROVE  Good(m, Enter(h, At(m, i), Slot(m, i)))
<1> DEFINE f == At(m, i)
           base == Slot(m, i)
<1>1. /\ Len(m.stack) \in Nat /\ Base(m) \in 0 .. Len(m.stack) /\ i \in 1 .. Len(m.stack)
      /\ base \in Base(m) + 1 .. Len(m.stack) /\ base = Len(m.stack) - (i - 1)
      /\ i - 1 \in 0 .. Len(m.stack) - Base(m) /\ base \in 1 .. Len(m.stack)
  BY BaseFacts DEF Own, Slot, Ready
<1>2. f = m.stack[base] /\ f.arity \in Nat
  BY <1>1, AtFacts DEF At, Ready, IsValue, Fits, FitsClosure, FitsUpvalue
<1> HIDE DEF f, base
<1>3. Spared(m, h, base) /\ m.uvs[base] = Null
  <2>1. i \in 1 .. i /\ \A k \in 1 .. i - 1 : k \in 1 .. i
    BY <1>1
  <2>2. Temporary(m, 1 .. i - 1)
    BY <2>1 DEF Temporary
  <2>3. m.uvs[base] = Null
    BY <1>1, <2>1, SoundFacts DEF Temporary, base, Ready, Aligned
  <2> QED BY <1>1, <1>2, <2>2, <2>3, ArgumentsSound DEF f
<1>4. CASE ~Ok(h)
  BY <1>3, <1>4 DEF Spared, Enter
<1>5. CASE Ok(h)
  <2>1. /\ Ready(h) /\ Len(h.stack) >= base /\ h.stack[base] = f /\ Base(h) = Base(m)
        /\ h.uvs[base] = Null
    <3>1. base \in 1 .. base
      BY <1>1
    <3> QED BY <1>2, <1>3, <1>5, <3>1 DEF Spared, Good, Ready, SameCalls, Base
  <2>2. base \in Base(h) + 1 .. Len(h.stack)
    <3>1. Len(h.stack) \in Nat
      BY <2>1, SoundFacts DEF Ready
    <3> QED BY <1>1, <2>1, <3>1
  <2> DEFINE g == [h EXCEPT !.frames = Append(@, CallFrame(h, f.upvalue_array, base)),
                            !.ip = f.name]
  <2>3. Enter(h, f, base) = g
    BY <1>5 DEF Enter
  <2>4. h.stack[base].type = "closure"
    BY <2>1 DEF f
  <2>5. Good(h, g)
    BY <2>1, <2>2, <2>4, CallSound
  <2> HIDE DEF g
  <2> QED BY <1>3, <2>3, <2>5 DEF Spared, Good, f, base
<1> QED BY <1>4, <1>5

\* One of the debugger's functions is called with enough arguments.
LEMMA CallbackGood ==
  ASSUME NEW m, Ready(m), NEW name, Len(m.stack) - Base(m) >= Takes(name),
         Temporary(m, {1, 2} \cap Own(m))
  PROVE  Good(m, Callback(m, name))
<1> DEFINE popped == Pop(m, 1)
           x == At(m, 1)
<1>1. Len(m.stack) \in Nat /\ Base(m) \in 0 .. Len(m.stack) /\ Sound(Null, m) /\ Ok(m)
  BY BaseFacts DEF Ready
<1>2. Good(m, Push(m, Integer(0)))
  <2>1. 0 \in Int
    OBVIOUS
  <2>2. IsValue(m, Integer(0))
    BY <2>1, Scalars
  <2> QED BY <2>2, PushGood
<1>3. CASE name \in ReadsBus
  <2>1. name \notin ChecksType /\ name # "readRegister" /\ name # "writeRegister"
    BY <1>3 DEF ReadsBus, ChecksType
  <2>2. Callback(m, name) = Push(m, Integer(0))
    BY <1>3, <2>1 DEF Callback
  <2> QED BY <1>2, <2>2
<1>4. CASE name \notin ReadsBus
  <2>1. /\ Len(m.stack) - Base(m) >= 1 /\ 1 \in 0 .. Len(m.stack) - Base(m)
        /\ 1 \in 1 .. Len(m.stack)
    BY <1>1, <1>4 DEF Takes
  <2>2. m.stack # << >>
    <3>1. Len(<< >>) = 0
      OBVIOUS
    <3> QED BY <1>1, <2>1, <3>1
  <2>3. /\ Good(m, popped) /\ Ready(popped) /\ SameHeap(m, popped) /\ Base(popped) = Base(m)
        /\ Len(popped.stack) = Len(m.stack) - 1
        /\ \A k \in 1 .. Len(m.stack) - 1 : popped.uvs[k] = m.uvs[k]
    <3>1. Released(m, 1 .. 1)
      <4>1. \A k \in 1 .. 1 : k \in {1, 2} \cap Own(m)
        BY <1>1, <2>1 DEF Own
      <4> QED BY <4>1, TemporaryReleased DEF Released
    <3> QED BY <1>1, <2>1, <3>1, PopSound DEF Ready, Good, SameCalls, Ok, Base
  <2>4. IsValue(m, x)
    BY <1>1, <2>1, AtFacts
  <2>5. \A y : Fits(m, y) => \A h : SameHeap(m, h) => Fits(h, y)
    <3> SUFFICES ASSUME NEW y, Fits(m, y), NEW h, SameHeap(m, h) PROVE Fits(h, y)
      OBVIOUS
    <3>1. Kept(m, h, Traced(y))
      BY <1>1, SoundFacts, FitsTraced DEF Kept, Alike, SameHeap, InUse
    <3> QED BY <1>1, <3>1, SoundFacts, FitsKept
  <2> HIDE DEF popped, x
  <2>6. Good(m, Push(popped, x)) /\ Good(m, Push(popped, Integer(0))) /\ Good(m, Invalid(popped))
    <3>1. IsValue(popped, x) /\ IsValue(popped, Integer(0))
      BY <2>3, <2>4, <2>5, Scalars DEF IsValue
    <3>2. /\ Good(popped, Push(popped, x)) /\ Good(popped, Push(popped, Integer(0)))
          /\ Good(popped, Invalid(popped))
      BY <2>3, <3>1, PushGood, StopGood
    <3> QED BY <2>3, <3>2 DEF Good
  <2>7. CASE name = "writeRegister"
    <3>1. Len(m.stack) - Base(m) >= 2
      BY <1>4, <2>7 DEF Takes
    <3> DEFINE twice == Pop(popped, 1)
    <3>2. /\ Good(m, twice) /\ Ready(twice) /\ SameHeap(m, twice)
      <4>1. 1 \in 0 .. Len(popped.stack) - Base(popped)
        BY <1>1, <2>3, <3>1
      <4>2. Released(popped, 1 .. 1)
        <5>1. /\ 2 \in {1, 2} \cap Own(m) /\ Len(m.stack) + 1 - 2 = Len(m.stack) - 1
              /\ Len(m.stack) - 1 + 1 - 1 = Len(m.stack) - 1
              /\ Len(m.stack) - 1 \in 1 .. Len(m.stack) - 1
              /\ Len(m.stack) - 1 \in 1 .. Len(m.stack)
          BY <1>1, <3>1 DEF Own
        <5>2. m.uvs[Len(m.stack) - 1] = Null
          BY <1>1, <5>1, SoundFacts DEF Temporary, Slot, Ready, Aligned
        <5>3. \A k \in 1 .. 1 : Slot(popped, k) = Len(m.stack) - 1
          BY <2>3, <5>1 DEF Slot
        <5> QED BY <2>3, <5>1, <5>2, <5>3 DEF Released, IsOpen
      <4>3. twice = Pop(popped, 1) /\ Sound(Null, popped) /\ Aligned(popped)
        BY <2>3 DEF Ready
      <4> HIDE DEF twice
      <4>4. /\ Sound(Null, twice) /\ Aligned(twice) /\ SameHeap(popped, twice)
            /\ SameCalls(popped, twice) /\ twice.status = popped.status
        BY <4>1, <4>2, <4>3, PopSound
      <4> QED BY <2>3, <4>4 DEF Ready, Good, SameCalls, Ok, SameHeap
    <3> HIDE DEF twice
    <3>3. Good(m, Push(twice, x))
      <4>1. IsValue(twice, x)
        BY <2>4, <2>5, <3>2 DEF IsValue
      <4> QED BY <3>2, <4>1, PushGood DEF Good
    <3>4. ~(Len(m.stack) < 2)
      BY <1>1, <3>1
    <3> QED BY <2>2, <2>7, <3>3, <3>4 DEF Callback, ReadsBus, ChecksType, popped, twice, x
  <2>8. CASE name # "writeRegister"
    BY <1>4, <2>2, <2>3, <2>6, <2>8 DEF Callback, popped, x
  <2> QED BY <2>7, <2>8
<1> QED BY <1>3, <1>4

LEMMA FuncallGood ==
  ASSUME NEW m, Ready(m), NEW i \in Own(m), Temporary(m, 1 .. i), Suits(At(m, i), i - 1)
  PROVE  Good(m, Funcall(m, i, i - 1))
<1> DEFINE f == At(m, i)
           h == Arguments(m, f, i - 1, Null)
<1>1. /\ Len(m.stack) \in Nat /\ Base(m) \in 0 .. Len(m.stack) /\ i \in 1 .. Len(m.stack)
      /\ Len(m.stack) - Base(m) >= i /\ i \in Nat /\ Ok(m)
  BY BaseFacts DEF Own, Ready
<1>2. IsValue(m, f)
  BY <1>1, AtFacts DEF Ready
<1>3. f.type # "composite"
  BY <1>2 DEF IsValue, Fits, FitsScalar
<1> HIDE DEF f, h
<1>4. Unwrapped(m, i, i - 1) = [m |-> m, i |-> i, args |-> i - 1, f |-> f]
  BY <1>3, NotUnwrapped DEF f
<1>5. Funcall(m, i, i - 1)
        = Reads(m, {i}, IF f.type = "function" THEN Callback(m, f.callback)
                        ELSE IF f.type # "closure" THEN Invalid(m)
                        ELSE Enter(h, f, Slot(m, i)))
  BY <1>1, <1>4 DEF Funcall, h
<1>6. CASE f.type = "function"
  <2>1. Takes(f.callback) \in {0, 1, 2} /\ i - 1 >= Takes(f.callback)
    BY <1>6 DEF Suits, f, Takes
  <2>2. Len(m.stack) - Base(m) >= Takes(f.callback)
    BY <1>1, <2>1
  <2>3. Temporary(m, {1, 2} \cap Own(m)) \/ Takes(f.callback) = 0
    <3>1. Takes(f.callback) = 0 \/ (Takes(f.callback) >= 1 /\ i >= 2)
      BY <1>1, <2>1
    <3>2. i >= 2 => \A k \in {1, 2} \cap Own(m) : k \in 1 .. i
      BY <1>1
    <3> QED BY <3>1, <3>2 DEF Temporary
  <2>4. CASE Takes(f.callback) = 0
    <3>1. f.callback \in ReadsBus
      BY <2>4 DEF Takes
    <3>2. f.callback \notin ChecksType /\ f.callback # "readRegister" /\ f.callback # "writeRegister"
      BY <3>1 DEF ReadsBus, ChecksType
    <3>3. Callback(m, f.callback) = Push(m, Integer(0))
      BY <3>1, <3>2 DEF Callback
    <3> QED BY <1>5, <1>6, <3>3, Scalars, PushGood, ReadsGood
  <2> QED BY <1>5, <1>6, <2>2, <2>3, <2>4, CallbackGood, ReadsGood
<1>7. CASE f.type = "closure"
  BY <1>5, <1>7, EnterGood, ReadsGood DEF f, h
<1>8. CASE f.type \notin {"function", "closure"}
  BY <1>5, <1>8, StopGood, ReadsGood
<1> QED BY <1>6, <1>7, <1>8

LEMMA CallGood ==
  ASSUME NEW m, Ready(m), NEW i \in Own(m), Temporary(m, 1 .. i)
  PROVE  Good(m, Call(m, Slot(m, i)))
<1>1. Slot(m, i) \in Base(m) + 1 .. Len(m.stack) /\ m.uvs[Slot(m, i)] = Null
  <2>1. /\ Slot(m, i) \in Base(m) + 1 .. Len(m.stack) /\ i \in 1 .. i
        /\ Slot(m, i) \in 1 .. Len(m.stack)
    BY BaseFacts DEF Own, Slot, Ready
  <2> QED BY <2>1, SoundFacts DEF Temporary, Ready, Aligned
<1>2. DOMAIN m = Fields
  BY SoundFacts DEF Ready
<1> DEFINE frames == Append(m.frames, CallFrame(m, Null, Slot(m, i)))
           h == [m EXCEPT !.frames = frames, !.ip = m.ip]
<1>3. Good(m, h)
  BY <1>1, CallSound
<1>4. [m EXCEPT !.frames = frames] = h
  <2> HIDE DEF frames
  <2> QED BY <1>2 DEF Fields
<1> HIDE DEF h
<1> QED BY <1>3, <1>4 DEF Call

LEMMA CCallGood ==
  ASSUME NEW m, Ready(m), NEW key \in DOMAIN m.globals,
         Suits(m.heap[m.globals[key]], Cardinality(Own(m))), Temporary(m, {1, 2} \cap Own(m))
  PROVE  Good(m, CCall(m, key))
<1> DEFINE f == m.heap[m.globals[key]]
<1>1. Len(m.stack) \in Nat /\ Base(m) \in 0 .. Len(m.stack)
  BY BaseFacts DEF Ready
<1>2. Cardinality(Own(m)) = Len(m.stack) - Base(m)
  <2>1. Len(m.stack) - Base(m) \in Nat
    BY <1>1
  <2> QED BY <2>1, FS_Interval DEF Own
<1>3. CASE f.type = "function"
  <2>1. Len(m.stack) - Base(m) >= Takes(f.callback)
    BY <1>2, <1>3 DEF Suits
  <2>2. CCall(m, key) = Callback(m, f.callback)
    BY <1>3 DEF CCall
  <2> QED BY <2>1, <2>2, CallbackGood
<1>4. CASE f.type # "function"
  <2>1. CCall(m, key) = Fault(m)
    BY <1>4 DEF CCall
  <2> QED BY <2>1, StopGood
<1> QED BY <1>3, <1>4

\* A subroutine without a result, or a program, comes to its end.
LEMMA LeaveGood ==
  ASSUME NEW m, Ready(m)
  PROVE  m.frames = << >> => Good(m, Leave(m))
<1> SUFFICES ASSUME m.frames = << >> PROVE Good(m, Leave(m))
  OBVIOUS
<1>1. DOMAIN m = Fields
  BY SoundFacts DEF Ready
<1> DEFINE h == [m EXCEPT !.status = "halt"]
<1>2. Leave(m) = h
  BY DEF Leave, Ready
<1>3. SameHeap(m, h) /\ SameRoots(m, h)
  BY <1>1 DEF SameHeap, SameRoots, Fields
<1>4. Sound(Null, h)
  BY <1>3, SoundSame DEF Ready
<1> HIDE DEF h
<1> QED BY <1>2, <1>3, <1>4 DEF Good, Ready, Aligned, SameRoots

\* The result takes the place of the callee, and the caller goes on.
LEMMA ReturnGood ==
  ASSUME NEW m, Ready(m), Own(m) # {}, Released(m, Own(m))
  PROVE  Good(m, Return(m, Cardinality(Own(m))))
<1> DEFINE L == Len(m.stack)
           base == Base(m)
           count == L - base
           popped == Pop(m, count)
           x == At(m, 1)
<1>1. /\ L \in Nat /\ base \in 0 .. L /\ count \in 0 .. L - base /\ count \in Nat
      /\ Sound(Null, m) /\ DOMAIN m = Fields /\ L >= 1 /\ L - count = base
  BY BaseFacts, SoundFacts DEF Ready, Own
<1>2. Cardinality(Own(m)) = count
  <2>1. Own(m) = 1 .. count /\ count \in Nat
    BY <1>1 DEF Own
  <2> HIDE DEF count
  <2> QED BY <2>1, FS_Interval
<1>3. /\ Sound(Null, popped) /\ Aligned(popped) /\ SameHeap(m, popped) /\ SameCalls(m, popped)
      /\ popped.globals = m.globals /\ Ok(popped) /\ Len(popped.stack) = base
      /\ \A k \in 1 .. base : popped.stack[k] = m.stack[k] /\ popped.uvs[k] = m.uvs[k]
  <2>1. Released(m, 1 .. count)
    BY DEF Own
  <2> QED BY <1>1, <2>1, PopSound DEF Ready, Ok
<1>4. IsValue(m, x)
  <2>1. 1 \in 1 .. L
    BY <1>1
  <2> QED BY <1>1, <2>1, AtFacts
<1> HIDE DEF popped, x
<1>5. IsSeq(popped.stack) /\ IsSeq(popped.uvs) /\ Len(popped.uvs) = base
  BY <1>3, SoundFacts DEF Aligned
<1>6. CASE base = 0
  <2>1. popped.stack = << >>
    <3>1. PICK S : popped.stack \in Seq(S)
      BY <1>5 DEF IsSeq
    <3> QED BY <1>3, <1>6, <3>1, EmptySeq
  <2>2. popped.frames = << >> /\ popped.current = m.current
    BY <1>3, <1>6, BaseFacts DEF Ready, SameCalls
  <2>3. Ready(popped)
    BY <1>3 DEF Ready, SameCalls
  <2>4. Return(m, Cardinality(Own(m))) = Leave(popped)
    BY <1>2, <2>1 DEF Return, popped
  <2> QED BY <2>2, <2>3, <2>4, LeaveGood DEF Good
<1>7. CASE base # 0
  <2> DEFINE once == Pop(popped, 1)
             put == Push(once, x)
             h == Leave(put)
             n == Len(m.frames) - 1
  <2>1. popped.stack # << >>
    <3>1. Len(<< >>) = 0
      OBVIOUS
    <3> QED BY <1>3, <1>7, <3>1
  <2>2. Return(m, Cardinality(Own(m))) = h
    BY <1>2, <2>1 DEF Return, popped, x
  <2>3. /\ DOMAIN once = Fields /\ SameHeap(m, once) /\ SameCalls(m, once) /\ Ok(once)
        /\ once.globals = m.globals
        /\ once.stack = SubSeq(popped.stack, 1, base - 1)
        /\ once.uvs = SubSeq(popped.uvs, 1, base - 1)
    <3>1. DOMAIN popped = Fields
      BY <1>3, SoundFacts
    <3>2. ~(Len(popped.uvs) < 1) /\ ~(Len(popped.stack) < 1)
      BY <1>1, <1>3, <1>5, <1>7
    <3>3. once = [popped EXCEPT !.uvs = SubSeq(@, 1, Len(@) - 1),
                                !.stack = SubSeq(@, 1, Len(@) - 1)]
      BY <1>3, <3>2 DEF Pop
    <3> HIDE DEF once
    <3> QED BY <1>3, <1>5, <3>1, <3>3 DEF Fields, SameHeap, SameCalls, Ok
  <2> HIDE DEF once
  <2>4. /\ DOMAIN put = Fields /\ SameHeap(m, put) /\ SameCalls(m, put) /\ Ok(put)
        /\ put.globals = m.globals
        /\ put.stack = Append(once.stack, x) /\ put.uvs = Append(once.uvs, Null)
    <3>1. put = [once EXCEPT !.stack = Append(@, x), !.uvs = Append(@, Null)]
      BY <2>3 DEF Push
    <3> HIDE DEF put
    <3> QED BY <2>3, <3>1 DEF Fields, SameHeap, SameCalls, Ok
  <2> HIDE DEF put
  <2>5. /\ IsSeq(put.stack) /\ Len(put.stack) = base /\ put.stack[base] = x
        /\ \A k \in 1 .. base - 1 : put.stack[k] = m.stack[k]
    <3>1. base - 1 \in 0 .. base /\ \A k \in 1 .. base - 1 : k \in 1 .. base
      BY <1>1, <1>7
    <3>2. /\ IsSeq(once.stack) /\ Len(once.stack) = base - 1
          /\ \A k \in 1 .. base - 1 : once.stack[k] = popped.stack[k]
      BY <1>3, <1>5, <2>3, <3>1, SeqCut
    <3>3. /\ IsSeq(put.stack) /\ Len(put.stack) = (base - 1) + 1
          /\ put.stack[(base - 1) + 1] = x
          /\ \A k \in 1 .. base - 1 : put.stack[k] = once.stack[k]
      BY <2>4, <3>2, SeqAppend
    <3>4. (base - 1) + 1 = base
      BY <1>1
    <3> HIDE DEF base
    <3> QED BY <1>3, <3>1, <3>2, <3>3, <3>4
  <2>6. /\ IsSeq(put.uvs) /\ Len(put.uvs) = base /\ put.uvs[base] = Null
        /\ \A k \in 1 .. base - 1 : put.uvs[k] = m.uvs[k]
    <3>1. base - 1 \in 0 .. base /\ \A k \in 1 .. base - 1 : k \in 1 .. base
      BY <1>1, <1>7
    <3>2. /\ IsSeq(once.uvs) /\ Len(once.uvs) = base - 1
          /\ \A k \in 1 .. base - 1 : once.uvs[k] = popped.uvs[k]
      BY <1>3, <1>5, <2>3, <3>1, SeqCut
    <3>3. /\ IsSeq(put.uvs) /\ Len(put.uvs) = (base - 1) + 1
          /\ put.uvs[(base - 1) + 1] = Null
          /\ \A k \in 1 .. base - 1 : put.uvs[k] = once.uvs[k]
      BY <2>4, <3>2, SeqAppend
    <3>4. (base - 1) + 1 = base
      BY <1>1
    <3> HIDE DEF base
    <3> QED BY <1>3, <3>1, <3>2, <3>3, <3>4
  <2>7. /\ IsSeq(m.frames) /\ Len(m.frames) \in Nat /\ Len(m.frames) > 0 /\ m.frames # << >>
        /\ base = m.frames[n + 1].base /\ n \in 0 .. Len(m.frames) /\ n + 1 \in 1 .. Len(m.frames)
    <3>1. IsSeq(m.frames)
      BY <1>1 DEF Sound, SoundCalls
    <3>2. m.frames # << >> /\ Len(m.frames) \in Nat /\ Len(m.frames) > 0
      <4>1. m.frames # << >>
        BY <1>7 DEF Base
      <4> QED BY <1>1, <4>1, BaseFacts
    <3>3. base = m.frames[Len(m.frames)].base
      BY <3>2 DEF Base, Last
    <3> QED BY <3>1, <3>2, <3>3
  <2>8. /\ DOMAIN h = Fields /\ SameHeap(m, h) /\ h.globals = m.globals /\ h.current = m.current
        /\ h.stack = put.stack /\ h.uvs = put.uvs
        /\ h.frames = SubSeq(m.frames, 1, n) /\ h.ip = m.frames[n + 1].ip
    <3>1. h = [put EXCEPT !.frames = Front(@), !.ip = Last(put.frames).ip]
      BY <2>4, <2>7 DEF Leave, SameCalls
    <3>2. put.frames = m.frames
      BY <2>4 DEF SameCalls
    <3>3. Last(m.frames) = m.frames[n + 1]
      BY <2>7 DEF Last
    <3> HIDE DEF h
    <3> QED BY <2>4, <3>1, <3>2, <3>3 DEF Front, Fields, SameHeap, SameCalls
  <2> HIDE DEF h, base
  <2>9. /\ IsSeq(h.frames) /\ Len(h.frames) = n /\ \A k \in 1 .. n : h.frames[k] = m.frames[k]
    BY <2>7, <2>8, SeqCut
  <2>10. /\ RunsIn(m, n, h.ip) /\ BaseAt(m, n) < base
    <3>1. /\ RunsIn(m, (n + 1) - 1, m.frames[n + 1].ip)
          /\ \A j \in 1 .. (n + 1) - 1 : m.frames[j].base < m.frames[n + 1].base
      BY <1>1, <2>7 DEF Sound, SoundCalls
    <3>2. (n + 1) - 1 = n /\ n \in Nat /\ base \in Nat /\ (n # 0 => n \in 1 .. n)
      <4>1. n \in Nat
        BY <2>7
      <4>2. base \in Nat
        BY <1>1
      <4> HIDE DEF n
      <4> QED BY <4>1, <4>2
    <3> HIDE DEF n
    <3>3. RunsIn(m, n, h.ip)
      BY <2>8, <3>1, <3>2
    <3>4. \A j \in 1 .. n : m.frames[j].base < base
      BY <2>7, <3>1, <3>2
    <3>5. BaseAt(m, n) < base
      BY <1>7, <3>2, <3>4 DEF BaseAt
    <3> QED BY <3>3, <3>5
  <2>11. /\ \A k \in 1 .. Len(h.stack) : IsValue(m, h.stack[k])
    <3>1. \A k \in 1 .. base : k = base \/ (k \in 1 .. base - 1 /\ k \in 1 .. L)
      BY <1>1
    <3> QED BY <1>1, <1>4, <2>5, <2>8, <3>1, SoundFacts
  <2>12. /\ Len(h.stack) >= BaseAt(m, n)
         /\ \A k \in 1 .. BaseAt(m, n) : h.stack[k] = m.stack[k]
    <3>1. BaseAt(m, n) \in Nat
      BY <1>1, <2>7, BaseFacts
    <3>2. BaseAt(m, n) <= base /\ \A k \in 1 .. BaseAt(m, n) : k \in 1 .. base - 1
      BY <1>1, <2>10, <3>1
    <3> QED BY <2>5, <2>8, <3>2
  <2>13. /\ base \in 1 .. L /\ L = Len(m.uvs) /\ m.uvs[base] = Null /\ base \in Nat
         /\ \A k \in 1 .. n : m.frames[k].base \in 1 .. base - 1 /\ m.uvs[m.frames[k].base] = Null
    <3>1. /\ m.frames[n + 1].base \in 1 .. Len(m.stack) /\ m.uvs[m.frames[n + 1].base] = Null
          /\ \A j \in 1 .. (n + 1) - 1 : m.frames[j].base < m.frames[n + 1].base
          /\ \A k \in 1 .. Len(m.frames) : /\ m.frames[k].base \in 1 .. Len(m.stack)
                                            /\ m.uvs[m.frames[k].base] = Null
      BY <1>1, <2>7 DEF Sound, SoundCalls
    <3>2. L = Len(m.uvs)
      BY DEF Ready, Aligned
    <3>3. \A k \in 1 .. n : k \in 1 .. Len(m.frames) /\ k \in 1 .. (n + 1) - 1
      BY <2>7
    <3>4. \A x1 \in 1 .. L : x1 < base => x1 \in 1 .. base - 1
      BY <1>1
    <3> HIDE DEF n
    <3>5. base \in 1 .. L /\ m.uvs[base] = Null
      BY <2>7, <3>1
    <3>6. \A k \in 1 .. n : /\ m.frames[k].base \in 1 .. L /\ m.frames[k].base < base
                             /\ m.uvs[m.frames[k].base] = Null
      BY <2>7, <3>1, <3>3
    <3> QED BY <1>1, <3>2, <3>4, <3>5, <3>6
  <2>14. Solid(Null, h)
    <3>1. \A i \in 1 .. Len(h.uvs) : MayBe(m, h.uvs[i], {"upvalue"})
      <4>1. \A i \in 1 .. base : i = base \/ (i \in 1 .. base - 1 /\ i \in 1 .. L)
        BY <1>1
      <4> QED BY <1>1, <2>6, <2>8, <2>13, <4>1, SoundFacts DEF MayBe
    <3>2. \A k \in 1 .. n : /\ h.uvs[m.frames[k].base] = Null
                             /\ h.stack[m.frames[k].base] = m.stack[m.frames[k].base]
      <4> SUFFICES ASSUME NEW k \in 1 .. n
                   PROVE  /\ h.uvs[m.frames[k].base] = Null
                          /\ h.stack[m.frames[k].base] = m.stack[m.frames[k].base]
        OBVIOUS
      <4>1. m.frames[k].base \in 1 .. base - 1 /\ m.uvs[m.frames[k].base] = Null
        BY <2>13
      <4> QED BY <2>5, <2>6, <2>8, <4>1
    <3>3. /\ Len(h.uvs) = base /\ Len(h.stack) = base /\ base <= base
          /\ base >= BaseAt(m, n)
      BY <2>5, <2>6, <2>8, <2>12, <2>13
    <3> HIDE DEF n
    <3>4. Solid(Null, m)
      BY <1>1 DEF Sound, Solid
    <3> QED BY <2>5, <2>6, <2>7, <2>8, <2>9, <2>10, <2>11, <3>1, <3>2, <3>3, <3>4, StackSolid
  <2>15. ASSUME NEW i, Opens(m, i)
         PROVE  i \in 1 .. Len(h.uvs) /\ h.uvs[i] = m.uvs[i] /\ h.stack[i] = m.stack[i]
    <3>1. i \in 1 .. L
      BY <1>1, <2>15, SoundFacts
    <3>2. i # base
      BY <2>13, <2>15 DEF Opens
    <3>3. ASSUME i > base PROVE FALSE
      <4>1. L + 1 - i \in 1 .. L - base /\ L + 1 - (L + 1 - i) = i
        BY <1>1, <2>13, <3>1, <3>3
      <4>2. L + 1 - i \in Own(m)
        BY <4>1 DEF Own, base
      <4>3. Slot(m, L + 1 - i) = i
        BY <4>1 DEF Slot
      <4> QED BY <2>15, <4>2, <4>3 DEF Released, IsOpen, Opens
    <3>4. i \in 1 .. base - 1 /\ i \in 1 .. base
      BY <1>1, <2>13, <3>1, <3>2, <3>3
    <3> QED BY <2>5, <2>6, <2>8, <3>4
  <2>16. SoundUpvalues(h) /\ Keeps(h)
    BY <1>1, <2>8, <2>15, OpenKept
  <2>17. Sound(Null, h)
    BY <2>14, <2>16 DEF Sound, Solid
  <2> QED BY <2>2, <2>5, <2>6, <2>8, <2>17 DEF Good, Aligned
<1> QED BY <1>6, <1>7

-----------------------------------------------------------------------------
(* Every program of a kind.                                                *)

\* The programs that the theorems below are about: they make no instances, no
\* function of an earlier program makes closures, vectors are made when memory
\* is enough, filled at once and never cut, and so are variables captured, by
\* programs that capture none twice on top of the stack and store nothing.  All
\* captures are of the running function's own variables: no closure captures a
\* variable that the running function has captured itself (NestedCapturesFail).
Careful ==
  /\ ~Programs.foreign /\ ~Programs.recaptures
  /\ \A captures \in Programs.captures : \A k \in DOMAIN captures : captures[k] >= 0
  /\ Programs.instructions \cap {"vector", "makeInstance", "apply"} = {}
  /\ "makeVector" \in Programs.instructions =>
       Programs.memory # "scarce" /\ "setCdr" \notin Programs.instructions
  /\ MayCapture => Programs.memory # "scarce" /\ Programs.keys = {}

\* Between programs nothing is in use but what can be reached.
Resting(m) ==
  /\ m.stack = << >> /\ m.uvs = << >> /\ m.frames = << >>
  /\ m.current = Null /\ m.ip = Null /\ InUse(m) = Marked(m)

\* An entry on the upvalue stack that is missing while a closure is made leaves
\* a machine whose stacks differ in height, and which stops.
Holds(m, at) ==
  /\ Firm(Null, m) /\ (at # "faulted" => Aligned(m))
  /\ at = "run" => Ok(m) /\ m.current # Null
  /\ at = "idle" => Resting(m)
Inv ==
  /\ kind \in DOMAIN Kinds /\ phase \in {"idle", "run", "ended", "faulted"}
  /\ Careful => Holds(vm, phase)

LEMMA HoldsLater ==
  ASSUME NEW CONSTANT m, NEW CONSTANT at, Holds(m, at), kind' = kind, vm' = m, phase' = at
  PROVE  Holds(vm, phase)'
<1>1. /\ \A c, o : FitsVector(c, o)' <=> FitsVector(c, o)
      /\ \A c, o : FitsUpvalue(c, o)' <=> FitsUpvalue(c, o)
      /\ MayCapture' <=> MayCapture
  BY DEF FitsVector, FitsUpvalue, MayCapture, Programs
<1> QED BY <1>1 DEF Holds, Firm, Solid, SoundHeap, Fits, IsValue, SoundRoots, SoundUpvalues

\* When an instruction begins, captured variables are as they are.
LEMMA FirmSound ==
  ASSUME NEW w, Firm(w, vm)
  PROVE  Sound(w, vm)
BY DEF Firm, Solid, Sound, Keeps

LEMMA FirmSame ==
  ASSUME NEW w, NEW m, Firm(w, m), NEW h, SameHeap(m, h), SameRoots(m, h)
  PROVE  Firm(w, h)
<1>1. Solid(w, m) /\ SoundHeap(w, m) /\ SoundUpvalues(m)
  BY DEF Firm, Solid
<1>2. InUse(h) = InUse(m) /\ h.heap = m.heap /\ h.free = m.free /\ DOMAIN h = Fields
  BY DEF InUse, SameHeap
<1>3. Kept(m, h, InUse(m))
  BY <1>2 DEF Kept, Alike
<1>4. Solid(w, h)
  BY <1>1, <1>2, <1>3, HeapChanged DEF SoundHeap
<1>5. SoundUpvalues(h)
  BY <1>1, <1>2 DEF SameRoots, SoundUpvalues, Ranked
<1> QED BY <1>4, <1>5 DEF Firm

\* What an instruction leads to.
Lands(next) ==
  Firm(Null, next) /\ (next.status # "fault" => Aligned(next)) /\ next.current = vm.current

\* A machine that an instruction leads to holds what the next one needs.
LEMMA BecomesHolds ==
  ASSUME NEW next, Firm(Null, next), next.status # "fault" => Aligned(next),
         Ok(next) => next.current # Null, Becomes(next)
  PROVE  Holds(vm, phase)' /\ kind' = kind /\ phase' \in {"run", "ended", "faulted"}
<1> DEFINE h == [next EXCEPT !.cell = Null]
           at == CASE Ok(next) -> "run" [] next.status = "fault" -> "faulted" [] OTHER -> "ended"
<1>1. vm' = h /\ phase' = at /\ kind' = kind
  BY DEF Becomes
<1>2. DOMAIN next = Fields
  BY DEF Firm, Solid, SoundHeap
<1>3. /\ SameHeap(next, h) /\ SameRoots(next, h) /\ h.status = next.status
      /\ h.stack = next.stack /\ h.uvs = next.uvs /\ h.current = next.current
  BY <1>2 DEF SameHeap, SameRoots, Fields
<1>4. /\ at \in {"run", "ended", "faulted"} /\ (at = "run" => Ok(next))
      /\ at # "faulted" => next.status # "fault"
  BY DEF Ok
<1> HIDE DEF h, at
<1>5. Firm(Null, h) /\ (at # "faulted" => Aligned(h))
  BY <1>3, <1>4, FirmSame DEF Aligned
<1>6. at = "run" => Ok(h) /\ h.current # Null
  BY <1>3, <1>4 DEF Ok
<1>7. Holds(h, at)
  BY <1>4, <1>5, <1>6 DEF Holds
<1>8. PICK m : m = h
  OBVIOUS
<1>9. PICK a : a = at
  OBVIOUS
<1>10. Holds(m, a) /\ vm' = m /\ phase' = a
  BY <1>1, <1>7, <1>8, <1>9
<1> QED BY <1>1, <1>4, <1>10, HoldsLater

\* The operands of an instruction are values of the running function, and its
\* literals are values.
LEMMA Operands ==
  ASSUME kind \in DOMAIN Kinds, Ready(vm)
  PROVE  /\ Own(vm) \subseteq 1 .. Len(vm.stack)
         /\ \A i \in Own(vm) : IsValue(vm, At(vm, i)) /\ i \in 0 .. Len(vm.stack) - Base(vm)
         /\ \A x \in Programs.literals : IsValue(vm, x)
<1>1. Len(vm.stack) \in Nat /\ Base(vm) \in 0 .. Len(vm.stack)
  BY BaseFacts DEF Ready
<1>2. Own(vm) \subseteq 1 .. Len(vm.stack)
  BY <1>1 DEF Own
<1>3. \A i \in Own(vm) : IsValue(vm, At(vm, i)) /\ i \in 0 .. Len(vm.stack) - Base(vm)
  <2>1. \A i \in Own(vm) : IsValue(vm, At(vm, i))
    BY <1>2, AtFacts DEF Ready
  <2>2. \A i \in Own(vm) : i \in 0 .. Len(vm.stack) - Base(vm)
    BY <1>1 DEF Own
  <2> QED BY <2>1, <2>2
<1>4. ASSUME NEW x \in Programs.literals
      PROVE  IsValue(vm, x)
  <2>1. \/ x.type = "integer" /\ x = Integer(x.integer) /\ x.integer \in Int
        \/ x.type = "bool" /\ x = Bool(x.boolean) /\ x.boolean \in 0 .. 255
        \/ x.type = "float" /\ x = Float(x.floatingPoint[1], x.floatingPoint[2])
    BY KindsAssumption DEF Programs
  <2>2. \A n \in 0 .. 255 : n \in Int
    BY SMT
  <2> QED BY <2>1, <2>2, Scalars, Zenon
<1> QED BY <1>2, <1>3, <1>4

\* An instruction leads to a machine that is as sound, and only an assignment
\* changes what was captured.
Advances ==
  \E next : Lands(next) /\ Becomes(next) /\ (Ok(next) => Keeps(next) \/ Moves \/ SetsUpvalue)

LEMMA AdvancesByOne ==
  ASSUME NEW next, Good(vm, next), Becomes(next)
  PROVE  Advances
<1>1. Lands(next) /\ Keeps(next)
  BY DEF Good, Sound, Lands, Firm, Solid
<1> QED BY <1>1, Zenon DEF Advances

LEMMA AssignmentAdvances ==
  ASSUME NEW next, Fair(vm, next), Becomes(next), Moves \/ SetsUpvalue
  PROVE  Advances
<1>1. Lands(next)
  BY DEF Fair, Lands
<1> QED BY <1>1, Zenon DEF Advances

LEMMA FaultAdvances ==
  ASSUME NEW next, Stuck(next), Becomes(next), Programs.memory # "scarce"
  PROVE  Advances
<1>1. ~RunsOut(next)
  BY DEF Becomes
<1>2. ~Ok(next) /\ Lands(next)
  BY <1>1 DEF Stuck, Lands
<1> QED BY <1>2, Zenon DEF Advances

LEMMA StackAdvances ==
  ASSUME kind \in DOMAIN Kinds, Careful, Ready(vm),
         \/ PushesNil \/ PushesLiteral \/ PushesSymbol \/ PushesString \/ PushesIndex
         \/ PushesGlobal \/ Sets \/ Moves \/ Pops \/ Branches
  PROVE  Advances
<1>1. /\ Own(vm) \subseteq 1 .. Len(vm.stack)
      /\ \A i \in Own(vm) : i \in 0 .. Len(vm.stack) - Base(vm)
      /\ \A x \in Programs.literals : IsValue(vm, x)
  BY Operands
<1>2. CASE PushesNil
  <2>1. Becomes(Push(vm, Nil))
    BY <1>2 DEF PushesNil
  <2> QED BY <2>1, Scalars, PushGood, AdvancesByOne
<1>3. CASE PushesLiteral
  <2>1. PICK x \in Programs.literals : Becomes(Push(vm, x))
    BY <1>3 DEF PushesLiteral
  <2> QED BY <1>1, <2>1, PushGood, AdvancesByOne
<1>4. CASE PushesSymbol
  <2>1. PICK id \in {1, 2} : Becomes(PushSymbol(vm, id, 1))
    BY <1>4 DEF PushesSymbol
  <2>2. id \in Int /\ 1 \in Nat
    OBVIOUS
  <2> QED BY <2>1, <2>2, PushSymbolGood, AdvancesByOne
<1>5. CASE PushesString
  <2>1. PICK n \in 0 .. MaxSize : Becomes(PushString(vm, n))
    BY <1>5 DEF PushesString
  <2>2. n \in Nat
    BY MaxSizeAssumption
  <2> QED BY <2>1, <2>2, PushStringGood, AdvancesByOne
<1>6. CASE PushesIndex
  <2>1. PICK i \in Own(vm) : Becomes(PushIndex(vm, i))
    BY <1>6 DEF PushesIndex
  <2> QED BY <1>1, <2>1, PushIndexGood, AdvancesByOne
<1>7. CASE PushesGlobal
  <2>1. PICK key : Becomes(PushGlobal(vm, key))
    BY <1>7 DEF PushesGlobal
  <2> QED BY <2>1, PushGlobalGood, AdvancesByOne
<1>8. CASE Sets
  <2>1. PICK i \in Own(vm), key \in Programs.keys : Becomes(SetStatic(vm, i, key))
    BY <1>8 DEF Sets
  <2>2. ~MayCapture
    BY <2>1 DEF Careful
  <2> QED BY <1>1, <2>1, <2>2, SetStaticGood, AdvancesByOne
<1>9. CASE Moves
  <2>1. PICK i \in Own(vm), j \in Own(vm) : Becomes(Move(vm, i, j))
    BY <1>9 DEF Moves
  <2>2. Fair(vm, Move(vm, i, j))
    BY <1>1, <2>1, MoveFair
  <2> QED BY <1>9, <2>1, <2>2, AssignmentAdvances
<1>10. CASE Pops
  <2>1. PICK count \in Own(vm) : Released(vm, 1 .. count) /\ Becomes(Pop(vm, count))
    BY <1>10 DEF Pops
  <2> QED BY <1>1, <2>1, PopGood, AdvancesByOne
<1>11. CASE Branches
  <2>1. PICK count \in Own(vm) \cup {0} :
          Released(vm, 1 .. count) /\ Becomes(Branch(vm, count))
    BY <1>11 DEF Branches
  <2>2. count \in 0 .. Len(vm.stack) - Base(vm)
    <3>1. 0 \in 0 .. Len(vm.stack) - Base(vm)
      BY BaseFacts DEF Ready
    <3> QED BY <1>1, <2>1, <3>1
  <2> QED BY <2>1, <2>2, PopGood, AdvancesByOne
<1> QED BY <1>2, <1>3, <1>4, <1>5, <1>6, <1>7, <1>8, <1>9, <1>10, <1>11

LEMMA NumbersAdvance ==
  ASSUME kind \in DOMAIN Kinds, Ready(vm), Negates \/ TestsNull \/ Calculates \/ Compares
  PROVE  Advances
<1>1. /\ Own(vm) \subseteq 1 .. Len(vm.stack)
      /\ \A i \in Own(vm) : IsValue(vm, At(vm, i))
  BY Operands
<1>2. CASE Negates
  <2>1. PICK i \in Own(vm) : Becomes(Not(vm, i))
    BY <1>2 DEF Negates
  <2> QED BY <1>1, <2>1, NotGood, AdvancesByOne
<1>3. CASE TestsNull
  <2>1. PICK i \in Own(vm) : Becomes(NullP(vm, i))
    BY <1>3 DEF TestsNull
  <2> QED BY <2>1, NullPGood, AdvancesByOne
<1>4. CASE Calculates
  <2> DEFINE results(x, y) == {Product(x, y), Quotient(x, y), Sum(x, y), Difference(x, y),
                               Greater(x, y), Less(x, y)}
  <2>1. PICK i \in Own(vm), j \in Own(vm) :
          \E result \in results(At(vm, i), At(vm, j)) : Becomes(Calculate(vm, result, i, j))
    BY <1>4 DEF Calculates, Computes
  <2>2. PICK result \in results(At(vm, i), At(vm, j)) : Becomes(Calculate(vm, result, i, j))
    BY <2>1
  <2>3. IsNumber(At(vm, i)) /\ IsNumber(At(vm, j)) => IsValue(vm, result)
    BY <1>1, <2>2, ResultsFit
  <2> QED BY <2>2, <2>3, CalculateGood, AdvancesByOne
<1>5. CASE Compares
  <2>1. PICK i \in Own(vm), j \in Own(vm) : Becomes(Equal(vm, i, j))
    BY <1>5 DEF Compares
  <2> QED BY <2>1, EqualGood, AdvancesByOne
<1> QED BY <1>2, <1>3, <1>4, <1>5

LEMMA PairsAdvance ==
  ASSUME kind \in DOMAIN Kinds, Careful, Ready(vm),
         \/ Conses \/ TakesCar \/ TakesCdr \/ SetsCar \/ SetsCdr
         \/ MakesVector \/ GetsElement \/ SetsElement \/ Measures
  PROVE  Advances
<1>1. Own(vm) \subseteq 1 .. Len(vm.stack)
  BY Operands
<1>2. CASE Conses
  <2>1. PICK i \in Own(vm), j \in Own(vm) : Becomes(MakeCons(vm, i, j))
    BY <1>2 DEF Conses
  <2> QED BY <1>1, <2>1, MakeConsGood, AdvancesByOne
<1>3. CASE TakesCar
  <2>1. PICK i \in Own(vm) : Becomes(Car(vm, i))
    BY <1>3 DEF TakesCar
  <2> QED BY <1>1, <2>1, CarGood, AdvancesByOne
<1>4. CASE TakesCdr
  <2>1. PICK i \in Own(vm) : Becomes(Cdr(vm, i))
    BY <1>4 DEF TakesCdr
  <2> QED BY <1>1, <2>1, CdrGood, AdvancesByOne
<1>5. CASE SetsCar
  <2>1. PICK i \in Own(vm), j \in Own(vm) : Becomes(SetCar(vm, i, j))
    BY <1>5 DEF SetsCar
  <2> QED BY <1>1, <2>1, SetCarGood, AdvancesByOne
<1>6. CASE SetsCdr
  <2>1. PICK i \in Own(vm), j \in Own(vm) : Becomes(SetCdr(vm, i, j))
    BY <1>6 DEF SetsCdr
  <2>2. "makeVector" \notin Programs.instructions
    BY <1>6 DEF SetsCdr, Runs, Careful
  <2> QED BY <1>1, <2>1, <2>2, SetCdrGood, AdvancesByOne
<1>7. CASE MakesVector
  <2>1. Runs("makeVector") /\ \E i, j \in Own(vm) : Becomes(MakeVector(vm, i, j))
    BY <1>7 DEF MakesVector, Runs, Careful
  <2>2. PICK i \in Own(vm), j \in Own(vm) : Becomes(MakeVector(vm, i, j))
    BY <2>1
  <2>3. "makeVector" \in Programs.instructions /\ MakeVector(vm, i, j).status # "outOfMemory"
    BY <2>1, <2>2 DEF Becomes, RunsOut, Runs, Careful
  <2> QED BY <1>1, <2>2, <2>3, MakeVectorGood, AdvancesByOne
<1>8. CASE GetsElement
  <2>1. PICK i \in Own(vm), j \in Own(vm) : Becomes(GetVecElt(vm, i, j))
    BY <1>8 DEF GetsElement
  <2> QED BY <1>1, <2>1, GetVecEltGood, AdvancesByOne
<1>9. CASE SetsElement
  <2>1. PICK i \in Own(vm), j \in Own(vm), k \in Own(vm) : Becomes(SetVecElt(vm, i, j, k))
    BY <1>9 DEF SetsElement
  <2> QED BY <1>1, <2>1, SetVecEltGood, AdvancesByOne
<1>10. CASE Measures
  <2>1. PICK i \in Own(vm) : Becomes(Length(vm, i))
    BY <1>10 DEF Measures
  <2> QED BY <1>1, <2>1, LengthGood, AdvancesByOne
<1> QED BY <1>2, <1>3, <1>4, <1>5, <1>6, <1>7, <1>8, <1>9, <1>10

LEMMA TextsAdvance ==
  ASSUME kind \in DOMAIN Kinds, Careful, Ready(vm),
         \/ TakesSymbol \/ MakesString \/ MakesType \/ TakesType \/ MakesInstance
         \/ OpensInstance
  PROVE  Advances
<1>1. Own(vm) \subseteq 1 .. Len(vm.stack)
  BY Operands
<1>2. CASE TakesSymbol
  <2>1. PICK i \in Own(vm) : Becomes(SymbolString(vm, i)) \/ Becomes(SymbolId(vm, i))
    BY <1>2 DEF TakesSymbol
  <2> QED BY <1>1, <2>1, SymbolStringGood, AdvancesByOne
<1>3. CASE MakesString
  <2>1. CASE \E i \in Own(vm) : Becomes(MakeString(vm, i))
    BY <1>1, <2>1, MakeStringGood, AdvancesByOne
  <2>2. CASE \E i, j \in Own(vm) : Becomes(Concatenate(vm, i, j))
    BY <1>1, <2>2, ConcatenateGood, AdvancesByOne
  <2>3. CASE \E i, j \in Own(vm) : \E to : Becomes(Substring(vm, i, j, to))
    BY <1>1, <2>3, SubstringGood, AdvancesByOne
  <2> QED BY <1>3, <2>1, <2>2, <2>3 DEF MakesString
<1>4. CASE MakesType
  <2>1. Becomes(MakeType(vm))
    BY <1>4 DEF MakesType
  <2> QED BY <2>1, MakeTypeGood, AdvancesByOne
<1>5. CASE TakesType
  <2>1. PICK i \in Own(vm) : Becomes(TypeOf(vm, i))
    BY <1>5 DEF TakesType
  <2>2. Good(vm, TypeOf(vm, i))
    BY <1>1, InstancesGood
  <2> QED BY <2>1, <2>2, AdvancesByOne
<1>6. CASE MakesInstance
  BY <1>6 DEF MakesInstance, Runs, Careful
<1>7. CASE OpensInstance
  <2>1. PICK i \in Own(vm) : \E field, j :
          Becomes(Composite(vm, i, field)) \/ Becomes(SetComposite(vm, i, j, field))
    BY <1>7 DEF OpensInstance
  <2>2. \A field, j : Good(vm, Composite(vm, i, field)) /\ Good(vm, SetComposite(vm, i, j, field))
    BY <1>1, InstancesGood
  <2> QED BY <2>1, <2>2, AdvancesByOne
<1> QED BY <1>2, <1>3, <1>4, <1>5, <1>6, <1>7

\* The running function's own array of upvalues.
LEMMA CapturesFit ==
  ASSUME kind \in DOMAIN Kinds, Careful, Ready(vm), NEW captures \in Programs.captures,
         Capturable(vm, captures),
         1 \in Range(captures) => Programs.recaptures \/ Temporary(vm, {1})
  PROVE  /\ IsSeq(captures) /\ (captures # << >> => MayCapture)
         /\ \A k \in 1 .. Len(captures) :
              captures[k] \in Int /\ captures[k] \in Own(vm)
         /\ 1 \in Range(captures) => Temporary(vm, {1})
<1>1. captures \in Seq(Int)
  BY KindsAssumption DEF Programs
<1>2. IsSeq(captures)
  BY <1>1 DEF IsSeq
<1>3. DOMAIN captures = 1 .. Len(captures)
  BY <1>2, SeqDomain
<1>4. captures # << >> => MayCapture
  BY DEF MayCapture
<1>5. \A k \in 1 .. Len(captures) :
        captures[k] \in Int /\ captures[k] \in Own(vm)
  BY <1>1, <1>3 DEF Capturable, Careful
<1>6. 1 \in Range(captures) => Temporary(vm, {1})
  BY DEF Careful
<1> QED BY <1>2, <1>4, <1>5, <1>6

LEMMA ClosuresAdvance ==
  ASSUME kind \in DOMAIN Kinds, Careful, Ready(vm),
         PushesUpvalue \/ SetsUpvalue \/ ReleasesUpvalues \/ PushesClosure
  PROVE  Advances
<1>1. Own(vm) \subseteq 1 .. Len(vm.stack)
  BY Operands
<1>2. CASE PushesUpvalue
  <2>1. PICK n : Becomes(PushUpvalue(vm, n))
    BY <1>2 DEF PushesUpvalue
  <2> QED BY <2>1, PushUpvalueGood, AdvancesByOne
<1>3. CASE SetsUpvalue
  <2>1. PICK n \in Upvalues(vm), i \in Own(vm) : Becomes(SetUpvalue(vm, n, i))
    BY <1>3 DEF SetsUpvalue
  <2>2. Fair(vm, SetUpvalue(vm, n, i))
    BY <1>1, <2>1, SetUpvalueFair
  <2> QED BY <1>3, <2>1, <2>2, AssignmentAdvances
<1>4. CASE ReleasesUpvalues
  <2>1. PICK i \in Own(vm) :
          (IsOpen(vm, i) \/ Temporary(vm, {i})) /\ Becomes(ReleaseUpvalues(vm, << i >>))
    BY <1>4 DEF ReleasesUpvalues
  <2> QED BY <1>1, <2>1, ReleaseUpvalueGood, AdvancesByOne
<1>5. CASE PushesClosure
  <2>1. PICK captures \in Programs.captures, f \in Programs.signatures :
          /\ Capturable(vm, captures)
          /\ 1 \in Range(captures) => Programs.recaptures \/ Temporary(vm, {1})
          /\ Becomes(PushClosure(vm, captures, f.arity, f.variadic))
    BY <1>5 DEF PushesClosure
  <2>2. vm.ip = vm.current
    BY <1>5 DEF PushesClosure, Careful
  <2>3. f.arity \in Nat
    BY KindsAssumption DEF Programs
  <2> DEFINE next == PushClosure(vm, captures, f.arity, f.variadic)
  <2>4. Good(vm, next) \/ (Stuck(next) /\ captures # << >>)
    <3>1. /\ IsSeq(captures) /\ (captures # << >> => MayCapture)
          /\ \A k \in 1 .. Len(captures) :
               captures[k] \in Int /\ captures[k] \in Own(vm)
          /\ 1 \in Range(captures) => Temporary(vm, {1})
      BY <2>1, CapturesFit
    <3>2. next = PushClosure(vm, captures, f.arity, f.variadic)
      OBVIOUS
    <3> HIDE DEF next
    <3> QED BY <2>2, <2>3, <3>1, <3>2, PushClosureGood
  <2>5. captures # << >> => Programs.memory # "scarce"
    BY <2>1 DEF MayCapture, Careful
  <2> HIDE DEF next
  <2>6. Becomes(next)
    BY <2>1 DEF next
  <2> QED BY <2>4, <2>5, <2>6, AdvancesByOne, FaultAdvances
<1> QED BY <1>2, <1>3, <1>4, <1>5

LEMMA ControlAdvances ==
  ASSUME kind \in DOMAIN Kinds, Careful, Ready(vm), Control
  PROVE  Advances
<1>1. Own(vm) \subseteq 1 .. Len(vm.stack)
  BY Operands
<1>2. ~Applies
  BY DEF Applies, Runs, Careful
<1>3. CASE PushesUpvalue \/ SetsUpvalue \/ ReleasesUpvalues \/ PushesClosure
  BY <1>3, ClosuresAdvance
<1>4. CASE Funcalls
  <2>1. PICK i \in Own(vm) : /\ Temporary(vm, 1 .. i) /\ Suits(At(vm, i), i - 1)
                             /\ Becomes(Funcall(vm, i, i - 1))
    BY <1>4 DEF Funcalls
  <2> QED BY <2>1, FuncallGood, AdvancesByOne
<1>5. CASE Calls
  <2>1. PICK i \in Own(vm) : Temporary(vm, 1 .. i) /\ Becomes(Call(vm, Slot(vm, i)))
    BY <1>5 DEF Calls
  <2> QED BY <2>1, CallGood, AdvancesByOne
<1>6. CASE CallsC
  <2>1. PICK key \in DOMAIN vm.globals :
          /\ Suits(vm.heap[vm.globals[key]], Cardinality(Own(vm)))
          /\ Temporary(vm, {1, 2} \cap Own(vm)) /\ Becomes(CCall(vm, key))
    BY <1>6 DEF CallsC
  <2> QED BY <2>1, CCallGood, AdvancesByOne
<1>7. CASE Returns
  <2>1. /\ Own(vm) # {} /\ Released(vm, Own(vm))
        /\ Becomes(Return(vm, Cardinality(Own(vm))))
    BY <1>7 DEF Returns
  <2> QED BY <2>1, ReturnGood, AdvancesByOne
<1>8. CASE Halts
  <2>1. CASE vm.frames = << >> /\ Becomes(Leave(vm))
    BY <2>1, LeaveGood, AdvancesByOne
  <2>2. CASE Becomes(Failed(vm, "yield"))
    BY <2>2, StopGood, AdvancesByOne
  <2> QED BY <1>8, <2>1, <2>2 DEF Halts
<1> QED BY <1>2, <1>3, <1>4, <1>5, <1>6, <1>7, <1>8 DEF Control

\* What the roots are does not matter to the heap.
LEMMA SoundHeapSame ==
  ASSUME NEW w, NEW m, Solid(w, m), NEW h, SameHeap(m, h)
  PROVE  /\ SoundHeap(w, h) /\ InUse(h) = InUse(m) /\ h.heap = m.heap
         /\ \A o : Fits(m, o) => Fits(h, o)
<1>1. DOMAIN m.heap \subseteq Cells
  BY DEF Solid, SoundHeap
<1>2. InUse(h) = InUse(m) /\ h.heap = m.heap
  BY DEF InUse, SameHeap
<1>3. ASSUME NEW o, Fits(m, o)
      PROVE  Fits(h, o)
  <2>1. Kept(m, h, Traced(o))
    BY <1>1, <1>2, <1>3, FitsTraced DEF Kept, Alike
  <2> QED BY <1>1, <1>3, <2>1, FitsKept
<1>4. SoundHeap(w, h)
  BY <1>2, <1>3 DEF Solid, SoundHeap, SameHeap
<1> QED BY <1>2, <1>3, <1>4

\* A heap in which only functions are kept has no captured variables.
LEMMA UpvaluesAbsent ==
  ASSUME NEW h, \A c \in InUse(h) : h.heap[c].type # "upvalue",
         MayCapture => \A k \in DOMAIN h.globals : h.heap[h.globals[k]].type = "function"
  PROVE  SoundUpvalues(h) /\ Keeps(h)
<1>1. [c \in Cells |-> 0] \in [Cells -> Nat]
  OBVIOUS
<1> QED BY <1>1 DEF SoundUpvalues, Keeps, Ranked

\* Outside of programs only the values kept under symbols are roots.
LEMMA EmptyStacksSolid ==
  ASSUME NEW w, NEW m, Solid(w, m), NEW h, SameHeap(m, h), h.globals = m.globals,
         h.stack = << >>, h.uvs = << >>, h.frames = << >>,
         MayBe(m, h.current, {"bytecode"}), h.ip = h.current
  PROVE  Solid(w, h) /\ Aligned(h)
<1>1. /\ SoundHeap(w, h) /\ InUse(h) = InUse(m) /\ h.heap = m.heap
      /\ \A o : Fits(m, o) => Fits(h, o)
  BY SoundHeapSame
<1>2. IsSeq(<< >>) /\ Len(<< >>) = 0
  <2>1. << >> \in Seq({})
    BY SMT
  <2> QED BY <2>1 DEF IsSeq
<1>3. \A k \in DOMAIN h.globals : IsOf(h, h.globals[k], ValueTypes)
  BY <1>1 DEF Solid, SoundRoots, IsOf
<1>4. SoundRoots(h)
  BY <1>1, <1>2, <1>3 DEF SoundRoots, MayBe, IsOf
<1>5. SoundCalls(h)
  BY <1>2 DEF SoundCalls, RunsIn
<1> QED BY <1>1, <1>4, <1>5 DEF Solid, Aligned

\* A program is loaded.
LEMMA ExecuteHolds ==
  ASSUME Holds(vm, "idle"), Execute
  PROVE  Holds(vm, phase)' /\ kind' = kind /\ phase' \in {"run", "ended", "faulted"}
<1> DEFINE o == [type |-> "bytecode"]
           code == PushObject(vm, o)
           loaded == [code EXCEPT !.current = code.cell, !.ip = code.cell]
           next == IF Ok(code) THEN loaded ELSE code
<1>1. Sound(Null, vm) /\ Aligned(vm) /\ Resting(vm)
  BY FirmSound DEF Holds
<1>2. Becomes(next)
  BY DEF Execute
<1>3. /\ o.type = "bytecode" /\ Fits(vm, o) /\ Traced(o) = {}
      /\ "car" \notin DOMAIN o /\ "cdr" \notin DOMAIN o
  BY TracedFacts
     DEF ValueTypes, CellTypes, Fits, FitsScalar, FitsPair, FitsText, FitsVector, FitsClosure, FitsUpvalue
<1> HIDE DEF o
<1>4. /\ Sound(Null, code) /\ SameRoots(vm, code)
      /\ Ok(code) => code.cell \in InUse(code) /\ code.heap[code.cell] = o
  BY <1>1, <1>3, PushObjectSound
<1> HIDE DEF code
<1>5. code.stack = << >> /\ code.uvs = << >> /\ code.frames = << >> /\ DOMAIN code = Fields
  BY <1>1, <1>4, SoundFacts DEF Resting, SameRoots
<1>6. CASE ~Ok(code)
  <2>1. Firm(Null, code)
    BY <1>4 DEF Sound, Firm, Solid
  <2> QED BY <1>2, <1>5, <1>6, <2>1, BecomesHolds DEF Aligned
<1>7. CASE Ok(code)
  <2>1. /\ SameHeap(code, loaded) /\ loaded.globals = code.globals /\ loaded.stack = << >>
        /\ loaded.uvs = << >> /\ loaded.frames = << >>
        /\ loaded.current = code.cell /\ loaded.ip = code.cell
    BY <1>5 DEF SameHeap, Fields
  <2>2. next = loaded
    BY <1>7
  <2> HIDE DEF loaded, next
  <2>3. MayBe(code, code.cell, {"bytecode"}) /\ code.cell # Null
    BY <1>3, <1>4, <1>7, SoundFacts DEF MayBe, IsOf
  <2>4. Solid(Null, code) /\ SoundUpvalues(code)
    BY <1>4 DEF Sound, Solid
  <2>5. Solid(Null, loaded) /\ Aligned(loaded)
    BY <2>1, <2>3, <2>4, EmptyStacksSolid
  <2>6. SoundUpvalues(loaded)
    BY <1>5, <2>1, <2>4 DEF SoundUpvalues, Ranked, InUse, SameHeap
  <2> QED BY <1>2, <2>1, <2>2, <2>3, <2>5, <2>6, BecomesHolds DEF Firm
<1> QED BY <1>6, <1>7

\* Collecting twice is collecting once.
LEMMA CollectedMarks ==
  ASSUME NEW w, NEW m, Solid(w, m)
  PROVE  Marked(Collected(m)) = InUse(Collected(m))
<1> DEFINE h == Collected(m)
<1>1. /\ Solid(w, h) /\ InUse(h) = Marked(m) /\ SameRoots(m, h)
      /\ \A c \in Marked(m) : h.heap[c] = m.heap[c]
  BY SolidCollected
<1> HIDE DEF h
<1>2. Roots(h) = Roots(m)
  BY <1>1 DEF Roots, SameRoots
<1>3. /\ Roots(h) \subseteq Marked(h) /\ Marked(h) \subseteq InUse(h)
      /\ \A c \in Marked(h) : Traced(h.heap[c]) \subseteq Marked(h)
  BY <1>1, MarkedInUse
<1>4. Marked(m) \subseteq InUse(m)
  BY MarkedInUse
<1>5. \A c \in Marked(h) : Traced(m.heap[c]) \subseteq Marked(h)
  BY <1>1, <1>3
<1>6. Marked(m) \subseteq Marked(h)
  BY <1>1, <1>2, <1>3, <1>4, <1>5, MarkedInUse
<1> QED BY <1>1, <1>3, <1>6 DEF h

\* A program is over: the soft reset and the collection after it.
LEMMA FinishHolds ==
  ASSUME Holds(vm, "ended"), Finish
  PROVE  Holds(vm, phase)' /\ kind' = kind /\ phase' = "idle"
<1> DEFINE m == [vm EXCEPT !.current = Null, !.ip = Null, !.status = "ok"]
           popped == Pop(m, Len(m.stack))
           reset == [SoftReset(m) EXCEPT !.status = "ok"]
           h == Collected(reset)
<1>1. Sound(Null, vm) /\ Aligned(vm) /\ DOMAIN vm = Fields
  <2>1. Sound(Null, vm) /\ Aligned(vm)
    BY FirmSound DEF Holds
  <2> QED BY <2>1, SoundFacts
<1>2. vm' = h /\ phase' = "idle" /\ kind' = kind
  BY DEF Finish
<1>3. /\ DOMAIN m = Fields /\ SameHeap(vm, m) /\ m.globals = vm.globals /\ m.stack = vm.stack
      /\ m.uvs = vm.uvs /\ m.current = Null /\ m.ip = Null /\ Ok(m)
  BY <1>1 DEF SameHeap, Fields, Ok
<1> HIDE DEF m
<1>4. /\ IsSeq(m.stack) /\ IsSeq(m.uvs) /\ Len(m.stack) \in Nat /\ Len(m.uvs) = Len(m.stack)
  BY <1>1, <1>3, SoundFacts DEF Aligned
<1>5. ASSUME NEW s, IsSeq(s)
      PROVE  SubSeq(s, 1, Len(s) - Len(s)) = << >>
  <2>1. Len(s) \in Nat /\ Len(s) - Len(s) = 0 /\ 0 \in 0 .. Len(s)
    BY <1>5, SeqDomain
  <2>2. IsSeq(SubSeq(s, 1, 0)) /\ Len(SubSeq(s, 1, 0)) = 0
    BY <1>5, <2>1, SeqCut
  <2>3. PICK S : SubSeq(s, 1, 0) \in Seq(S)
    BY <2>2 DEF IsSeq
  <2>4. SubSeq(s, 1, 0) = << >>
    BY <2>2, <2>3, EmptySeq
  <2> QED BY <2>1, <2>4
<1>6. /\ DOMAIN popped = Fields /\ SameHeap(m, popped) /\ popped.globals = m.globals
      /\ popped.stack = << >> /\ popped.uvs = << >>
      /\ popped.current = Null /\ popped.ip = Null /\ Ok(popped)
  <2> DEFINE n == Len(m.stack)
             e == [m EXCEPT !.uvs = SubSeq(@, 1, Len(@) - n), !.stack = SubSeq(@, 1, Len(@) - n)]
  <2>1. popped = e
    <3>1. ~(Len(m.uvs) < n) /\ ~(Len(m.stack) < n)
      BY <1>4
    <3> QED BY <1>3, <3>1 DEF Pop
  <2>2. SubSeq(m.uvs, 1, Len(m.uvs) - n) = << >> /\ SubSeq(m.stack, 1, Len(m.stack) - n) = << >>
    BY <1>4, <1>5
  <2> HIDE DEF n, popped
  <2> QED BY <1>3, <2>1, <2>2 DEF Fields, SameHeap, Ok
<1>7. /\ SameHeap(vm, reset) /\ reset.globals = vm.globals /\ reset.stack = << >>
      /\ reset.uvs = << >> /\ reset.frames = << >> /\ reset.current = Null /\ reset.ip = Null
  <2>1. SoftReset(m) = [popped EXCEPT !.frames = << >>]
    BY <1>6 DEF SoftReset
  <2> HIDE DEF popped
  <2> QED BY <1>3, <1>6, <2>1 DEF Fields, SameHeap
<1> HIDE DEF reset, popped
<1>8. Solid(Null, reset)
  <2>1. Solid(Null, vm)
    BY <1>1 DEF Sound, Solid
  <2> QED BY <1>7, <2>1, EmptyStacksSolid DEF MayBe
<1>9. /\ Solid(Null, h) /\ SameRoots(reset, h) /\ InUse(h) = Marked(h) /\ InUse(h) = Marked(reset)
      /\ \A c \in Marked(reset) : h.heap[c] = reset.heap[c]
  BY <1>8, SolidCollected, CollectedMarks
<1> HIDE DEF h
<1>10. SoundUpvalues(h)
  <2>1. CASE ~MayCapture
    BY <1>9, <2>1, UpvaluesNone DEF Solid
  <2>2. CASE MayCapture
    <3>1. \A k \in DOMAIN reset.globals : reset.heap[reset.globals[k]].type = "function"
      BY <1>1, <1>7, <2>2 DEF Sound, SoundUpvalues, SameHeap
    <3>2. \A c \in Roots(reset) : \E k \in DOMAIN reset.globals : c = reset.globals[k]
      BY <1>7 DEF Roots, Range
    <3>3. \A c \in Roots(reset) : reset.heap[c].type = "function"
      BY <3>1, <3>2
    <3>4. \A c \in Roots(reset) : Traced(reset.heap[c]) \subseteq Roots(reset)
      BY <3>3, TracedFacts
    <3>5. Roots(reset) \in SUBSET InUse(reset)
      BY <1>8, RootsInUse
    <3>6. Marked(reset) \subseteq Roots(reset)
      BY <1>8, <3>4, <3>5, MarkedInUse
    <3>7. \A c \in InUse(h) : h.heap[c].type = "function"
      BY <1>9, <3>3, <3>6
    <3>8. \A k \in DOMAIN h.globals : h.globals[k] \in InUse(h)
      BY <1>9 DEF Solid, SoundRoots, IsOf
    <3> QED BY <3>7, <3>8, UpvaluesAbsent
  <2> QED BY <2>1, <2>2
<1>11. Holds(h, "idle")
  BY <1>7, <1>9, <1>10 DEF Holds, Firm, Resting, SameRoots, Aligned
<1>12. PICK x : x = h
  OBVIOUS
<1>13. PICK at : at = "idle"
  OBVIOUS
<1>14. Holds(x, at) /\ vm' = x /\ phase' = at
  BY <1>2, <1>11, <1>12, <1>13
<1> QED BY <1>2, <1>14, HoldsLater

\* An allocation takes one cell, and a collection before it none.
LEMMA AllocationUses ==
  ASSUME NEW w, NEW m, Sound(w, m), NEW o, NEW h, h = PushObject(m, o)
  PROVE  /\ Ok(h) => InUse(h) \subseteq InUse(m) \cup {h.cell}
         /\ ~Ok(h) => InUse(h) \subseteq InUse(m)
<1> DEFINE g == IF m.free = {} THEN Collected(m) ELSE m
           c == Max(g.free)
           made == [g EXCEPT !.free = @ \ {c}, !.heap[c] = o, !.cell = c]
<1>1. CASE ~Ok(m)
  BY <1>1 DEF PushObject
<1>2. CASE Ok(m)
  <2>1. /\ DOMAIN g = Fields /\ g.status = m.status /\ InUse(g) \subseteq InUse(m)
        /\ g.free \subseteq DOMAIN g.heap /\ DOMAIN g.heap \subseteq Cells
    <3>1. /\ Sound(w, Collected(m)) /\ Collected(m).status = m.status
          /\ InUse(Collected(m)) \subseteq InUse(m)
      BY CollectedSound, SoundSolid, MarkedInUse
    <3> QED BY <3>1, SoundFacts
  <2>2. h = IF g.free = {} THEN Failed(g, "outOfMemory") ELSE made
    BY <1>2 DEF PushObject, Allocate
  <2> HIDE DEF g
  <2>3. CASE g.free = {}
    <3>1. h.heap = g.heap /\ h.free = g.free /\ ~Ok(h)
      BY <1>2, <2>1, <2>2, <2>3 DEF Failed, Ok, Fields
    <3> QED BY <2>1, <3>1 DEF InUse
  <2>4. CASE g.free # {}
    <3>1. c \in g.free
      BY <2>1, <2>4, MaxIsFree
    <3> HIDE DEF c
    <3>2. /\ h.heap = [g.heap EXCEPT ![c] = o] /\ h.free = g.free \ {c} /\ h.cell = c
          /\ h.status = g.status
      BY <2>1, <2>2, <2>4 DEF Fields
    <3>3. InUse(h) \subseteq InUse(g) \cup {c}
      BY <3>2 DEF InUse
    <3> QED BY <1>2, <2>1, <3>2, <3>3 DEF Ok
  <2> QED BY <2>3, <2>4
<1> QED BY <1>1, <1>2

\* A machine on which the first n callbacks have been linked: what is in use
\* is kept under their symbols.
IsLinked(m, over, n) ==
  /\ Sound(Null, m) /\ m.stack = << >> /\ m.uvs = << >> /\ m.frames = << >>
  /\ m.current = Null /\ m.ip = Null
  /\ \A c \in InUse(m) : \E k \in DOMAIN m.globals : m.globals[k] = c
  /\ \A k \in DOMAIN m.globals : /\ m.heap[m.globals[k]].type = "function"
                                 /\ \E j \in 1 .. n : k = over[j].key

LEMMA EmptyLinked ==
  ASSUME NEW objects \in Cells, NEW over
  PROVE  IsLinked(Empty(objects), over, 0)
<1> DEFINE m == Empty(objects)
<1>1. /\ DOMAIN m = Fields /\ m.free = 1 .. objects /\ DOMAIN m.heap = 1 .. objects
      /\ \A c \in 1 .. objects : m.heap[c] = Blank
      /\ m.stack = << >> /\ m.uvs = << >> /\ m.frames = << >> /\ DOMAIN m.globals = {}
      /\ m.current = Null /\ m.ip = Null
  BY DEF Empty, Fields
<1> HIDE DEF m
<1>2. 1 .. objects \subseteq Cells
  BY MaxObjectsAssumption DEF Cells
<1>3. InUse(m) = {}
  BY <1>1 DEF InUse
<1>4. IsSeq(<< >>) /\ Len(<< >>) = 0
  <2>1. << >> \in Seq({})
    BY SMT
  <2> QED BY <2>1 DEF IsSeq
<1>5. SoundHeap(Null, m)
  BY <1>1, <1>2, <1>3 DEF SoundHeap
<1>6. SoundRoots(m) /\ SoundCalls(m)
  BY <1>1, <1>4 DEF SoundRoots, SoundCalls, RunsIn, MayBe
<1>7. SoundUpvalues(m) /\ Keeps(m)
  BY <1>1, <1>3, UpvaluesAbsent
<1> QED BY <1>1, <1>3, <1>5, <1>6, <1>7 DEF IsLinked, Sound, m

LEMMA LinkedOneMore ==
  ASSUME NEW over, NEW n \in Nat, NEW m, IsLinked(m, over, n),
         \A j \in 1 .. n : over[j].key # over[n + 1].key
  PROVE  IsLinked(LinkCFunction(m, over[n + 1].key, over[n + 1].callback), over, n + 1)
<1> DEFINE key == over[n + 1].key
           o == [type |-> "function", callback |-> over[n + 1].callback]
           made == PushObject(m, o)
           h == GlobalSet(made, key, made.cell)
<1>1. LinkCFunction(m, key, over[n + 1].callback) = h
  BY DEF LinkCFunction
<1>2. Sound(Null, m)
  BY DEF IsLinked
<1>3. IsValue(m, o) /\ o.type = "function" /\ Traced(o) = {}
  <2>1. o.type = "function" /\ IsValue(m, o)
    BY Scalars
  <2> HIDE DEF o
  <2> QED BY <2>1, TracedFacts
<1> HIDE DEF o
<1>4. /\ Sound(Null, made) /\ SameRoots(m, made)
      /\ Ok(made) => made.cell \in InUse(made) /\ made.heap[made.cell] = o
      /\ Ok(made) => InUse(made) \subseteq InUse(m) \cup {made.cell}
      /\ ~Ok(made) => InUse(made) \subseteq InUse(m)
      /\ \A k \in DOMAIN m.globals : made.heap[m.globals[k]].type = "function"
  <2>1. Fits(m, o) /\ Traced(o) \subseteq Marked(m) /\ o.type # "internalVector"
    BY <1>3 DEF IsValue
  <2>2. Solid(Null, m)
    BY <1>2, SoundSolid
  <2>3. \A k \in DOMAIN m.globals : m.globals[k] \in Marked(m)
    BY <2>2, RootsInUse, MarkedInUse
  <2>4. \A c \in Marked(m) : made.heap[c] = m.heap[c]
    BY <1>2, <1>3, <2>1, PushObjectSound
  <2>5. \A k \in DOMAIN m.globals : made.heap[m.globals[k]].type = "function"
    BY <2>3, <2>4 DEF IsLinked
  <2>6. Ok(made) => InUse(made) \subseteq InUse(m) \cup {made.cell}
    BY <1>2, AllocationUses
  <2>7. ~Ok(made) => InUse(made) \subseteq InUse(m)
    BY <1>2, AllocationUses
  <2>8. /\ Sound(Null, made) /\ SameRoots(m, made)
        /\ Ok(made) => made.cell \in InUse(made) /\ made.heap[made.cell] = o
    BY <1>2, <1>3, <2>1, PushObjectSound
  <2> HIDE DEF made
  <2> QED BY <2>5, <2>6, <2>7, <2>8
<1> HIDE DEF made
<1>5. 1 .. n \subseteq 1 .. n + 1 /\ n + 1 \in 1 .. n + 1
  BY SMT
<1>6. /\ made.stack = << >> /\ made.uvs = << >> /\ made.frames = << >>
      /\ made.current = Null /\ made.ip = Null /\ made.globals = m.globals
      /\ DOMAIN made = Fields
  BY <1>4, SoundFacts DEF IsLinked, SameRoots
<1>7. CASE ~Ok(made)
  <2>1. h = made
    BY <1>7 DEF GlobalSet
  <2> HIDE DEF h, key
  <2>2. \A c \in InUse(made) : \E k \in DOMAIN made.globals : made.globals[k] = c
    BY <1>4, <1>6, <1>7 DEF IsLinked
  <2>3. \A k \in DOMAIN made.globals : /\ made.heap[made.globals[k]].type = "function"
                                       /\ \E j \in 1 .. n + 1 : k = over[j].key
    BY <1>4, <1>5, <1>6 DEF IsLinked
  <2> QED BY <1>1, <1>4, <1>6, <2>1, <2>2, <2>3 DEF IsLinked, key
<1>8. CASE Ok(made)
  <2>1. /\ SameHeap(made, h) /\ h.stack = << >> /\ h.uvs = << >> /\ h.frames = << >>
        /\ h.current = Null /\ h.ip = Null
        /\ h.globals = [k \in DOMAIN m.globals \cup {key} |->
                          IF k = key THEN made.cell ELSE m.globals[k]]
    BY <1>6, <1>8 DEF GlobalSet, SameHeap, Fields
  <2> HIDE DEF h
  <2>2. /\ DOMAIN h.globals = DOMAIN m.globals \cup {key} /\ h.globals[key] = made.cell
        /\ \A k \in DOMAIN m.globals : k # key => h.globals[k] = m.globals[k]
    BY <2>1
  <2>3. /\ SoundHeap(Null, h) /\ InUse(h) = InUse(made) /\ h.heap = made.heap
    BY <1>4, <2>1, SoundSolid, SoundHeapSame
  <2>4. key \notin DOMAIN m.globals
    BY DEF IsLinked
  <2>5. \A c \in InUse(h) : \E k \in DOMAIN h.globals : h.globals[k] = c
    BY <1>4, <1>8, <2>2, <2>3, <2>4 DEF IsLinked
  <2>6. \A k \in DOMAIN h.globals : /\ h.heap[h.globals[k]].type = "function"
                                    /\ \E j \in 1 .. n + 1 : k = over[j].key
    BY <1>3, <1>4, <1>5, <1>8, <2>2, <2>3, <2>4 DEF IsLinked
  <2>7. \A k \in DOMAIN h.globals : IsOf(h, h.globals[k], ValueTypes)
    <3>1. \A k \in DOMAIN made.globals : IsOf(made, made.globals[k], ValueTypes)
      BY <1>4, SoundFacts
    <3>2. IsOf(made, made.cell, ValueTypes)
      BY <1>3, <1>4, <1>8 DEF IsOf, ValueTypes
    <3> QED BY <1>6, <2>2, <2>3, <2>4, <3>1, <3>2 DEF IsOf
  <2>8. IsSeq(<< >>) /\ Len(<< >>) = 0
    BY <1>4, <1>6, SoundFacts, EmptySeq, SMT DEF Sound, SoundRoots
  <2>9. SoundRoots(h) /\ SoundCalls(h)
    <3>1. /\ h.stack = << >> /\ h.uvs = << >> /\ h.frames = << >>
          /\ h.current = Null /\ h.ip = Null
      BY <2>1
    <3> HIDE DEF key
    <3> QED BY <2>7, <2>8, <3>1 DEF SoundRoots, SoundCalls, RunsIn, MayBe
  <2>10. SoundUpvalues(h) /\ Keeps(h)
    <3>1. \A c \in InUse(h) : h.heap[c].type # "upvalue"
      BY <2>5, <2>6
    <3> QED BY <2>6, <3>1, UpvaluesAbsent
  <2> QED BY <1>1, <2>1, <2>3, <2>5, <2>6, <2>9, <2>10 DEF IsLinked, Sound
<1> QED BY <1>7, <1>8

\* A machine before its first program.
LEMMA InitHolds ==
  ASSUME Init
  PROVE  Holds(vm, phase)
<1> DEFINE over == Programs.callbacks
           first == Empty(Programs.objects)
           linked == LET link(m, f) == LinkCFunction(m, f.key, f.callback)
                     IN  FoldLeft(link, first, over)
           h == [linked EXCEPT !.cell = Null]
           p == [by |-> "link", over |-> over]
<1>1. vm = h /\ phase = "idle" /\ kind \in DOMAIN Kinds
  BY DEF Init
<1>2. /\ Programs.objects \in Cells /\ IsSeq(over) /\ Len(over) \in Nat /\ DOMAIN over = 1 .. Len(over)
      /\ \A i, j \in 1 .. Len(over) : over[i].key = over[j].key => i = j
  <2>1. /\ Programs.objects \in Cells /\ over \in Seq([key : Int, callback : STRING])
        /\ IsInjective([i \in DOMAIN over |-> over[i].key])
    BY <1>1, KindsAssumption DEF Programs
  <2> HIDE DEF over
  <2>2. IsSeq(over)
    BY <2>1 DEF IsSeq
  <2>3. Len(over) \in Nat /\ DOMAIN over = 1 .. Len(over)
    BY <2>2, SeqDomain
  <2>4. \A i, j \in DOMAIN over : over[i].key = over[j].key => i = j
    BY <2>1 DEF IsInjective
  <2> QED BY <2>1, <2>2, <2>3, <2>4
<1> HIDE DEF over
<1>3. PICK s : Stages(s, p, first, Len(over)) /\ linked = s[Len(over)]
  BY <1>2, LinkStages
<1>4. \A y, k : Step(p, y, k) = LinkCFunction(y, over[k].key, over[k].callback)
  BY DEF Step
<1> HIDE DEF p, linked
<1>5. IsLinked(s[0], over, 0)
  <2>1. s[0] = first
    BY <1>3 DEF Stages
  <2> QED BY <1>2, <2>1, EmptyLinked
<1> HIDE DEF first
<1>6. ASSUME NEW k \in 1 .. Len(over), IsLinked(s[k - 1], over, k - 1)
      PROVE  IsLinked(s[k], over, k)
  <2>1. s[k] = LinkCFunction(s[k - 1], over[k].key, over[k].callback)
    BY <1>3, <1>4 DEF Stages
  <2>2. k - 1 \in Nat /\ (k - 1) + 1 = k /\ \A j \in 1 .. k - 1 : j \in 1 .. Len(over) /\ j # k
    BY <1>2
  <2>3. \A j \in 1 .. k - 1 : over[j].key # over[(k - 1) + 1].key
    BY <1>2, <2>2
  <2>4. IsLinked(LinkCFunction(s[k - 1], over[(k - 1) + 1].key, over[(k - 1) + 1].callback),
                 over, (k - 1) + 1)
    BY <1>6, <2>2, <2>3, LinkedOneMore
  <2> QED BY <2>1, <2>2, <2>4
<1>7. IsLinked(linked, over, Len(over))
  <2> DEFINE T == { k \in 0 .. Len(over) : ~IsLinked(s[k], over, k) }
  <2>1. 0 \notin T
    BY <1>5
  <2>2. ASSUME T # {} PROVE FALSE
    <3>1. T \subseteq Nat
      BY <1>2
    <3>2. PICK k \in T : \A j \in T : k <= j
      <4> HIDE DEF T
      <4> QED BY <2>2, <3>1, LeastExists
    <3>3. k \in 1 .. Len(over) /\ k - 1 \in 0 .. Len(over) /\ k - 1 \notin T
      BY <1>2, <2>1, <3>2
    <3>4. IsLinked(s[k - 1], over, k - 1) /\ ~IsLinked(s[k], over, k)
      BY <3>2, <3>3
    <3> QED BY <1>6, <3>3, <3>4
  <2>3. Len(over) \in 0 .. Len(over) /\ Len(over) \notin T
    BY <1>2, <2>2
  <2> QED BY <1>3, <2>3
<1>8. /\ Sound(Null, linked) /\ DOMAIN linked = Fields
      /\ linked.stack = << >> /\ linked.uvs = << >> /\ linked.frames = << >>
      /\ linked.current = Null /\ linked.ip = Null
      /\ \A c \in InUse(linked) : \E k \in DOMAIN linked.globals : linked.globals[k] = c
  BY <1>7, SoundFacts DEF IsLinked
<1>9. SameHeap(linked, h) /\ SameRoots(linked, h)
  BY <1>8 DEF SameHeap, SameRoots, Fields
<1> HIDE DEF h
<1>10. Sound(Null, h)
  BY <1>8, <1>9, SoundSame
<1>11. InUse(h) \subseteq Marked(h)
  <2>1. \A c \in InUse(h) : \E k \in DOMAIN h.globals : h.globals[k] = c
    BY <1>8, <1>9 DEF InUse, SameHeap, SameRoots
  <2> QED BY <1>10, <2>1, SoundSolid, RootsInUse, MarkedInUse
<1>12. InUse(h) = Marked(h)
  BY <1>10, <1>11, SoundSolid, MarkedInUse
<1>13. Firm(Null, h)
  BY <1>10 DEF Sound, Firm, Solid
<1> QED BY <1>1, <1>8, <1>9, <1>12, <1>13 DEF Holds, Resting, SameRoots, Aligned

\* The kind of the programs never changes, and each step is for a phase.
LEMMA NextPhases ==
  ASSUME Next
  PROVE  /\ kind' = kind /\ phase' \in {"idle", "run", "ended", "faulted"}
         /\ Execute => phase = "idle" /\ phase' \in {"run", "ended", "faulted"}
         /\ Finish => phase = "ended" /\ phase' = "idle"
         /\ Data \/ Control => phase = "run" /\ phase' \in {"run", "ended", "faulted"}
<1>1. ASSUME Execute
      PROVE  kind' = kind /\ phase = "idle" /\ phase' \in {"run", "ended", "faulted"}
  BY <1>1 DEF Execute, Becomes
<1>2. ASSUME Finish
      PROVE  kind' = kind /\ phase = "ended" /\ phase' = "idle"
  BY <1>2 DEF Finish
<1>3. ASSUME Data \/ Control
      PROVE  phase = "run" /\ \E next : Becomes(next)
  <2>1. ASSUME NEW name, Runs(name)
        PROVE  phase = "run"
    BY <2>1 DEF Runs
  <2> QED
    BY <1>3, <2>1, Zenon
       DEF Data, Control, PushesNil, PushesLiteral, PushesSymbol, PushesString, PushesIndex,
           PushesGlobal, Sets, Moves, Pops, Branches, Negates, TestsNull, Calculates, Computes,
           Compares, Conses, TakesCar, TakesCdr, SetsCar, SetsCdr, MakesVector, GetsElement,
           SetsElement, Measures, TakesSymbol, MakesString, MakesType, TakesType, MakesInstance,
           OpensInstance, PushesUpvalue, SetsUpvalue, ReleasesUpvalues, PushesClosure, Funcalls,
           Applies, Calls, CallsC, Returns, Halts
<1>4. ASSUME Data \/ Control
      PROVE  kind' = kind /\ phase' \in {"run", "ended", "faulted"}
  BY <1>3, <1>4 DEF Becomes
<1> QED BY <1>1, <1>2, <1>3, <1>4 DEF Next

\* Every step keeps the invariant.
LEMMA NextHolds ==
  ASSUME Inv, Next
  PROVE  Inv'
<1>1. kind \in DOMAIN Kinds
  BY DEF Inv
<1>2. /\ kind' = kind /\ phase' \in {"idle", "run", "ended", "faulted"}
      /\ Execute => phase = "idle"
      /\ Finish => phase = "ended"
      /\ Data \/ Control => phase = "run"
  BY NextPhases
<1>3. ASSUME Careful
      PROVE  Holds(vm, phase)'
  <2>1. Holds(vm, phase)
    BY <1>3 DEF Inv
  <2>2. CASE Execute
    BY <1>2, <2>1, <2>2, ExecuteHolds
  <2>3. CASE Finish
    BY <1>2, <2>1, <2>3, FinishHolds
  <2>4. CASE Data \/ Control
    <3>1. Ready(vm)
      BY <1>2, <2>1, <2>4, FirmSound DEF Holds, Ready
    <3>2. Advances
      BY <1>1, <1>3, <2>4, <3>1, StackAdvances, NumbersAdvance, PairsAdvance, TextsAdvance,
         ControlAdvances DEF Data
    <3>3. PICK next : Lands(next) /\ Becomes(next)
      BY <3>2 DEF Advances
    <3>4. /\ Firm(Null, next) /\ next.current # Null
          /\ next.status # "fault" => Aligned(next)
      BY <3>1, <3>3 DEF Lands, Ready
    <3> QED BY <3>3, <3>4, BecomesHolds
  <2> QED BY <2>2, <2>3, <2>4 DEF Next
<1>4. Careful' => Careful
  BY <1>2 DEF Careful, MayCapture, Programs
<1> QED BY <1>1, <1>2, <1>3, <1>4 DEF Inv

LEMMA InvAlways == Spec => []Inv
<1>1. Init => Inv
  BY InitHolds DEF Inv, Init
<1>2. Inv /\ UNCHANGED vars => Inv'
  <2> SUFFICES ASSUME Inv, UNCHANGED vars PROVE Inv'
    OBVIOUS
  <2>1. kind' = kind /\ vm' = vm /\ phase' = phase
    BY DEF vars
  <2>2. ASSUME Careful PROVE Holds(vm, phase)'
    <3>1. PICK m : m = vm
      OBVIOUS
    <3>2. PICK at : at = phase
      OBVIOUS
    <3>3. Holds(m, at)
      BY <2>2, <3>1, <3>2 DEF Inv
    <3>4. vm' = m /\ phase' = at
      BY <2>1, <3>1, <3>2
    <3> QED BY <2>1, <3>3, <3>4, HoldsLater
  <2>3. Careful' => Careful
    BY <2>1 DEF Careful, MayCapture, Programs
  <2> QED BY <2>1, <2>2, <2>3 DEF Inv
<1>3. Inv /\ Next => Inv'
  BY NextHolds
<1> QED BY <1>1, <1>2, <1>3, PTL DEF Spec

-----------------------------------------------------------------------------
(* What holds of every program.                                            *)

\* What the machine has, whatever it is in the middle of.
LEMMA SolidFacts ==
  ASSUME NEW w, NEW m, Solid(w, m)
  PROVE  /\ DOMAIN m.heap \subseteq Cells /\ InUse(m) \subseteq DOMAIN m.heap
         /\ Null \notin InUse(m)
         /\ \A c \in InUse(m) : Fits(m, m.heap[c])
         /\ DOMAIN m.stack = 1 .. Len(m.stack) /\ DOMAIN m.uvs = 1 .. Len(m.uvs)
         /\ DOMAIN m.frames = 1 .. Len(m.frames) /\ Len(m.frames) \in Nat
         /\ \A i \in 1 .. Len(m.stack) : IsValue(m, m.stack[i])
         /\ \A i \in 1 .. Len(m.uvs) : MayBe(m, m.uvs[i], {"upvalue"})
         /\ \A k \in DOMAIN m.globals : IsOf(m, m.globals[k], ValueTypes)
         /\ m.current = Null \/ m.current \in InUse(m)
<1>1. Null \notin Cells
  BY DEF Null, Cells
<1>2. IsSeq(m.stack) /\ IsSeq(m.uvs) /\ IsSeq(m.frames)
  BY DEF Solid, SoundRoots, SoundCalls
<1>3. m.current = Null \/ m.current \in InUse(m)
  BY DEF Solid, SoundRoots, MayBe, IsOf
<1> QED BY <1>1, <1>2, <1>3, SeqDomain DEF Solid, SoundHeap, SoundRoots, InUse

LEMMA HoldsProper ==
  ASSUME NEW o, Fits(vm, o)
  PROVE  Proper(o)
<1>1. o.type \in (ValueTypes \cup CellTypes) \ {"composite", "internalComposite"}
  BY DEF Fits, FitsScalar
<1>2. CASE o.type \in {"list", "cons"}
  BY <1>2 DEF Fits, FitsPair, Proper, IsA, MayBe, IsOf, Linked
<1>3. CASE o.type \in {"vector", "internalVector"}
  <2>1. CASE o.type = "vector"
    BY <2>1 DEF Fits, FitsVector, Proper, IsA, MayBe, IsOf
  <2>2. CASE o.type = "internalVector"
    <3>1. \A c \in Elements(o) : IsA(c, ValueTypes)
      BY <2>2 DEF Fits, FitsVector, IsA, IsOf, Elements
    <3> QED BY <2>2, <3>1 DEF Proper
  <2> QED BY <1>3, <2>1, <2>2
<1>4. CASE o.type = "closure"
  BY <1>4 DEF Fits, FitsClosure, FitsUpvalue, Proper, IsOf
<1>5. CASE o.type = "upvalueArray"
  <2>1. \A c \in Range(o.upvalues) : IsA(c, {"upvalue"})
    BY <1>5 DEF Fits, FitsUpvalue, IsA, MayBe, IsOf, Range
  <2> QED BY <1>5, <2>1 DEF Proper
<1>6. CASE o.type \in {"string", "symbol"}
  BY <1>6 DEF Fits, FitsText, Proper, IsA, MayBe, IsOf
<1>7. CASE o.type = "upvalue"
  BY <1>7 DEF Fits, FitsUpvalue, Proper, IsOf
<1>8. CASE o.type \notin {"list", "cons", "vector", "internalVector", "closure", "upvalueArray",
                          "upvalue", "string", "symbol"}
  BY <1>1, <1>8 DEF Proper
<1> QED BY <1>2, <1>3, <1>4, <1>5, <1>6, <1>7, <1>8

\* The type invariant: in every program that is careful, what is on the stack
\* is a value, and every reference leads to a cell of the type that the
\* instructions take it for.
THEOREM TypesAlways == Spec => [](Careful => TypeOK)
<1>1. ASSUME Inv, Careful
      PROVE  TypeOK
  <2>1. Solid(Null, vm)
    BY <1>1 DEF Inv, Holds, Firm
  <2>2. /\ Used = InUse(vm) /\ DOMAIN vm.stack = 1 .. Len(vm.stack)
        /\ DOMAIN vm.uvs = 1 .. Len(vm.uvs)
        /\ \A c \in InUse(vm) : Fits(vm, vm.heap[c])
        /\ \A i \in 1 .. Len(vm.stack) : IsValue(vm, vm.stack[i])
        /\ \A i \in 1 .. Len(vm.uvs) : MayBe(vm, vm.uvs[i], {"upvalue"})
    BY <2>1, SolidFacts DEF Used, InUse
  <2>3. \A i \in DOMAIN vm.stack : vm.stack[i].type \in ValueTypes /\ Proper(vm.stack[i])
    BY <2>2, HoldsProper DEF IsValue
  <2>4. \A c \in Used : Proper(vm.heap[c])
    BY <2>2, HoldsProper
  <2>5. \A i \in DOMAIN vm.uvs : IsA(vm.uvs[i], {"upvalue"})
    BY <2>2 DEF IsA, MayBe, IsOf
  <2> QED BY <1>1, <2>3, <2>4, <2>5 DEF TypeOK, Inv
<1> QED BY <1>1, InvAlways, PTL

\* A frame refers to the code of the program and to the upvalues of a closure
\* that is still on the stack.
LEMMA FramesInUse ==
  ASSUME NEW w, NEW m, Solid(w, m), NEW f \in Range(m.frames)
  PROVE  /\ f.bytecode = m.current /\ (f.upvalues # Null => f.upvalues \in Roots(m))
         /\ f.ip = m.current \/ f.ip \in InUse(m)
<1>1. PICK k \in 1 .. Len(m.frames) : f = m.frames[k]
  BY SolidFacts DEF Range
<1>2. /\ f.bytecode = m.current /\ RunsIn(m, k - 1, f.ip)
      /\ f.base \in 1 .. Len(m.stack)
      /\ f.upvalues # Null => /\ m.stack[f.base].type = "closure"
                              /\ m.stack[f.base].upvalue_array = f.upvalues
  BY <1>1 DEF Solid, SoundCalls
<1>3. \A i \in 1 .. Len(m.stack) : m.stack[i].type = "closure" => m.stack[i].name \in InUse(m)
  BY SolidFacts DEF IsValue, Fits, FitsClosure, IsOf
<1>4. \A j \in 1 .. k - 1 : m.frames[j].base \in 1 .. Len(m.stack)
  <2>1. \A j \in 1 .. k - 1 : j \in 1 .. Len(m.frames)
    BY SolidFacts
  <2> QED BY <2>1 DEF Solid, SoundCalls
<1>5. f.ip = m.current \/ f.ip \in InUse(m)
  BY <1>2, <1>3, <1>4 DEF RunsIn
<1>6. ASSUME f.upvalues # Null
      PROVE  f.upvalues \in Roots(m)
  <2>1. f.upvalues \in Traced(m.stack[f.base])
    BY <1>2, <1>6, TracedFacts
  <2> QED BY <1>2, <2>1, RootsInUse
<1> QED BY <1>2, <1>5, <1>6

\* What is held outside of the heap are the roots of the collector: the
\* upvalues of a function that is running are held by its closure.
LEMMA HeldAreRoots ==
  ASSUME NEW w, NEW m, Solid(w, m)
  PROVE  Held(m) = Roots(m) /\ Held(m) \subseteq InUse(m)
<1>1. (UNION { References(m.stack[i]) : i \in DOMAIN m.stack })
        = UNION { StackTraced(m.stack[i]) : i \in DOMAIN m.stack }
  <2>1. \A i \in DOMAIN m.stack : References(m.stack[i]) = StackTraced(m.stack[i])
    BY SolidFacts, FitsTraced DEF IsValue
  <2> QED BY <2>1
<1>2. (UNION { {f.bytecode, f.upvalues} : f \in Range(m.frames) })
        \subseteq Roots(m) \cup {m.current, Null}
  BY FramesInUse
<1>3. { m.frames[i].bytecode : i \in DOMAIN m.frames } \subseteq {m.current}
  <2>1. \A i \in DOMAIN m.frames : m.frames[i] \in Range(m.frames)
    BY DEF Range
  <2> QED BY <2>1, FramesInUse
<1>4. Held(m) = Roots(m)
  BY <1>1, <1>2, <1>3, Zenon DEF Held, Roots
<1> QED BY <1>4, RootsInUse

\* No reference dangles: no cell that a careful program still refers to, from
\* the stacks or from the heap, is on the free list, wherever an instruction
\* was when a collection ran (duckVM_gclist_pushObject).
THEOREM NoDanglingAlways == Spec => [](Careful => NoDangling)
<1>1. ASSUME Inv, Careful
      PROVE  NoDangling
  <2>1. Solid(Null, vm)
    BY <1>1 DEF Inv, Holds, Firm
  <2>2. Used = InUse(vm)
    BY DEF Used, InUse
  <2>3. \A c \in InUse(vm) : References(vm.heap[c]) \subseteq InUse(vm)
    BY <2>1, SolidFacts, FitsTraced
  <2> QED BY <2>1, <2>2, <2>3, HeldAreRoots DEF NoDangling
<1> QED BY <1>1, InvAlways, PTL

\* The code that a careful program runs, and the code that each of its calls
\* returns to, is never freed.
THEOREM CodeStaysAlways == Spec => [](Careful => CodeStays)
<1>1. ASSUME Inv, Careful
      PROVE  CodeStays
  <2>1. Solid(Null, vm)
    BY <1>1 DEF Inv, Holds, Firm
  <2>2. vm.current = Null \/ vm.current \in InUse(vm)
    BY <2>1, SolidFacts
  <2>3. vm.ip = Null \/ vm.ip \in InUse(vm)
    <3>1. \A i \in 1 .. Len(vm.stack) : vm.stack[i].type = "closure" =>
            vm.stack[i].name \in InUse(vm)
      BY <2>1, SolidFacts DEF IsValue, Fits, FitsClosure, IsOf
    <3>2. /\ RunsIn(vm, Len(vm.frames), vm.ip)
          /\ \A j \in 1 .. Len(vm.frames) : vm.frames[j].base \in 1 .. Len(vm.stack)
      BY <2>1 DEF Solid, SoundCalls
    <3> QED BY <2>2, <3>1, <3>2 DEF RunsIn
  <2>4. \A f \in Range(vm.frames) : f.ip = Null \/ f.ip \in InUse(vm)
    BY <2>1, <2>2, FramesInUse
  <2>5. Used = InUse(vm)
    BY DEF Used, InUse
  <2> QED BY <2>3, <2>4, <2>5 DEF CodeStays
<1> QED BY <1>1, InvAlways, PTL

\* The stack of values and the stack of upvalues have the same height between
\* the instructions of every careful program, and between programs.
THEOREM StacksAlignedAlways == Spec => [](Careful => StacksAligned)
<1>1. ASSUME Inv, Careful
      PROVE  StacksAligned
  BY <1>1 DEF Inv, Holds, Aligned, StacksAligned
<1> QED BY <1>1, InvAlways, PTL

\* Strings lie within their texts, and vectors start within their elements,
\* however often a careful program cuts, joins and shares them.
THEOREM WithinBoundsAlways == Spec => [](Careful => WithinBounds)
<1>1. ASSUME Inv, Careful
      PROVE  WithinBounds
  <2>1. Solid(Null, vm)
    BY <1>1 DEF Inv, Holds, Firm
  <2>2. \A o \in Range(vm.stack) \cup { vm.heap[c] : c \in Used } : Fits(vm, o)
    <3>1. \A o \in Range(vm.stack) : Fits(vm, o)
      BY <2>1, SolidFacts DEF Range, IsValue
    <3>2. \A c \in Used : Fits(vm, vm.heap[c])
      BY <2>1, SolidFacts DEF Used, InUse
    <3> QED BY <3>1, <3>2
  <2>3. ASSUME NEW o, Fits(vm, o)
        PROVE  /\ o.type = "string" => 0 <= o.offset /\ o.offset <= o.length
               /\ o.type = "string" /\ o.internalString # Null
                    => o.length <= vm.heap[o.internalString].value_length
               /\ o.type = "vector" /\ o.internal_vector # Null
                    => o.offset <= Len(vm.heap[o.internal_vector].values)
    BY <2>3 DEF Fits, FitsText, FitsVector
  <2> QED BY <2>2, <2>3 DEF WithinBounds
<1> QED BY <1>1, InvAlways, PTL

\* Reachable comes to the least set that holds what is held and is closed.
LEMMA ReachableFacts ==
  ASSUME NEW m, DOMAIN m.heap \subseteq Cells, Held(m) \subseteq DOMAIN m.heap,
         \A c \in DOMAIN m.heap : References(m.heap[c]) \subseteq DOMAIN m.heap
  PROVE  /\ Held(m) \subseteq Reachable(m) /\ Reachable(m) \subseteq DOMAIN m.heap
         /\ \A c \in Reachable(m) : References(m.heap[c]) \subseteq Reachable(m)
         /\ \A T \in SUBSET DOMAIN m.heap :
              Held(m) \subseteq T /\ (\A c \in T : References(m.heap[c]) \subseteq T)
                => Reachable(m) \subseteq T
<1> DEFINE D == DOMAIN m.heap
           After(S) == S \cup UNION { References(m.heap[c]) : c \in S }
           step == [S \in SUBSET D |-> After(S)]
           more == CHOOSE f : f = [S \in SUBSET D |-> LET T == After(S)
                                                      IN  IF T = S THEN S ELSE f[T]]
<1>1. IsFiniteSet(D)
  <2>1. IsFiniteSet(Cells)
    BY MaxObjectsAssumption, FS_Interval DEF Cells
  <2> QED BY <2>1, FS_Subset
<1>2. \A S \in SUBSET D : After(S) \in SUBSET D /\ S \subseteq After(S)
  OBVIOUS
<1>3. \A S, T \in SUBSET D : S \subseteq T => After(S) \subseteq After(T)
  OBVIOUS
<1> HIDE DEF After
<1>4. /\ step \in [SUBSET D -> SUBSET D]
      /\ \A S \in SUBSET D : step[S] = After(S)
  BY <1>2
<1>5. Grows(D, step)
  BY <1>1, <1>2, <1>3, <1>4 DEF Grows
<1>6. \A f : [S \in SUBSET D |-> LET T == After(S) IN IF T = S THEN S ELSE f[T]]
               = [S \in SUBSET D |-> IF step[S] = S THEN S ELSE f[step[S]]]
  BY <1>4
<1>7. Held(m) \in SUBSET D
  OBVIOUS
<1> HIDE DEF step, D
<1>8. \E f : Iterates(f, D, step)
  BY <1>5, IterationExists
<1>9. \E f : f = [S \in SUBSET D |-> LET T == After(S) IN IF T = S THEN S ELSE f[T]]
  BY <1>6, <1>8 DEF Iterates
<1>10. more = [S \in SUBSET D |-> LET T == After(S) IN IF T = S THEN S ELSE more[T]]
  BY <1>9
<1>11. Reachable(m) = more[Held(m)]
  BY DEF Reachable, After, D
<1> HIDE DEF more
<1>12. Iterates(more, D, step)
  BY <1>6, <1>10 DEF Iterates
<1>13. /\ Held(m) \subseteq more[Held(m)] /\ more[Held(m)] \in SUBSET D
       /\ step[more[Held(m)]] = more[Held(m)]
       /\ \A T \in SUBSET D : Held(m) \subseteq T /\ step[T] = T => more[Held(m)] \subseteq T
  BY <1>5, <1>7, <1>12, IterationFacts
<1>14. After(Reachable(m)) = Reachable(m)
  BY <1>4, <1>11, <1>13
<1>15. \A T \in SUBSET D : Held(m) \subseteq T /\ After(T) = T => Reachable(m) \subseteq T
  BY <1>4, <1>11, <1>13
<1>16. ASSUME NEW T \in SUBSET D, \A c \in T : References(m.heap[c]) \subseteq T
       PROVE  After(T) = T
  BY <1>16 DEF After
<1>17. \A c \in Reachable(m) : References(m.heap[c]) \subseteq Reachable(m)
  BY <1>14 DEF After
<1>18. \A T \in SUBSET D : Held(m) \subseteq T /\ (\A c \in T : References(m.heap[c]) \subseteq T)
                             => Reachable(m) \subseteq T
  BY <1>15, <1>16
<1>19. Held(m) \subseteq Reachable(m) /\ Reachable(m) \subseteq D
  BY <1>11, <1>13
<1> QED BY <1>17, <1>18, <1>19 DEF D

\* What can be reached is what the collector marks.
LEMMA ReachableMarked ==
  ASSUME NEW w, NEW m, Solid(w, m)
  PROVE  Reachable(m) = Marked(m)
<1>1. /\ DOMAIN m.heap \subseteq Cells /\ InUse(m) \subseteq DOMAIN m.heap
      /\ \A c \in InUse(m) : References(m.heap[c]) = Traced(m.heap[c])
                               /\ Traced(m.heap[c]) \subseteq InUse(m)
  BY SolidFacts, FitsTraced
<1>2. \A c \in DOMAIN m.heap \ InUse(m) : References(m.heap[c]) = {}
  <2>1. \A c \in DOMAIN m.heap \ InUse(m) : m.heap[c] = Blank
    BY DEF Solid, SoundHeap, InUse
  <2>2. References(Blank) = {}
    BY DEF References, Traced, Blank
  <2> QED BY <2>1, <2>2
<1>3. Held(m) = Roots(m) /\ Held(m) \subseteq InUse(m)
  BY HeldAreRoots
<1>4. /\ Held(m) \subseteq Reachable(m) /\ Reachable(m) \subseteq DOMAIN m.heap
      /\ \A c \in Reachable(m) : References(m.heap[c]) \subseteq Reachable(m)
      /\ \A T \in SUBSET DOMAIN m.heap :
           Held(m) \subseteq T /\ (\A c \in T : References(m.heap[c]) \subseteq T)
             => Reachable(m) \subseteq T
  <2>1. /\ Held(m) \subseteq DOMAIN m.heap
        /\ \A c \in DOMAIN m.heap : References(m.heap[c]) \subseteq DOMAIN m.heap
    BY <1>1, <1>2, <1>3
  <2> QED BY <1>1, <2>1, ReachableFacts
<1>5. /\ Roots(m) \subseteq Marked(m) /\ Marked(m) \subseteq InUse(m)
      /\ \A c \in Marked(m) : Traced(m.heap[c]) \subseteq Marked(m)
      /\ \A T \in SUBSET InUse(m) :
           Roots(m) \subseteq T /\ (\A c \in T : Traced(m.heap[c]) \subseteq T)
             => Marked(m) \subseteq T
  BY MarkedInUse
<1>6. Reachable(m) \subseteq Marked(m)
  <2>1. Marked(m) \in SUBSET DOMAIN m.heap
    BY <1>1, <1>5
  <2>2. \A c \in Marked(m) : References(m.heap[c]) \subseteq Marked(m)
    BY <1>1, <1>5
  <2> QED BY <1>3, <1>4, <1>5, <2>1, <2>2
<1>7. Marked(m) \subseteq Reachable(m)
  <2>1. Reachable(m) \in SUBSET InUse(m)
    BY <1>5, <1>6
  <2>2. \A c \in Reachable(m) : Traced(m.heap[c]) \subseteq Reachable(m)
    BY <1>1, <1>4, <2>1
  <2> QED BY <1>3, <1>4, <1>5, <2>1, <2>2
<1> QED BY <1>6, <1>7

\* Between programs the stacks are empty, and exactly what can be reached from
\* the symbols is in use: of a careful program nothing else is left, however
\* it ended (main's soft reset and collection).
THEOREM NothingLeaksAlways == Spec => [](Careful => NothingLeaks)
<1>1. ASSUME Inv, Careful
      PROVE  NothingLeaks
  <2> SUFFICES ASSUME phase = "idle"
               PROVE  /\ vm.stack = << >> /\ vm.uvs = << >> /\ vm.frames = << >>
                      /\ Used = Reachable(vm)
    BY DEF NothingLeaks
  <2>1. Solid(Null, vm) /\ Resting(vm)
    BY <1>1 DEF Inv, Holds, Firm
  <2>2. Reachable(vm) = Marked(vm)
    BY <2>1, ReachableMarked
  <2> QED BY <2>1, <2>2 DEF Resting, Used, InUse
<1> QED BY <1>1, InvAlways, PTL

\* Every open upvalue that a careful program can reach is the one that its
\* slot will release, through calls, returns and collections: no two closures
\* that captured a variable disagree about it.
THEOREM OpenUpvaluesAreReleasedAlways == Spec => [](Careful => OpenUpvaluesAreReleased)
<1>1. ASSUME Inv, Careful
      PROVE  OpenUpvaluesAreReleased
  <2>1. Solid(Null, vm) /\ SoundUpvalues(vm)
    BY <1>1 DEF Inv, Holds, Firm
  <2>2. Reachable(vm) \subseteq InUse(vm) /\ DOMAIN vm.uvs = 1 .. Len(vm.uvs)
    BY <2>1, ReachableMarked, MarkedInUse, SolidFacts
  <2> QED BY <2>1, <2>2 DEF SoundUpvalues, OpenUpvaluesAreReleased
<1> QED BY <1>1, InvAlways, PTL

\* Where an upvalue leads to, and what is seen there, stays when every upvalue
\* that was marked keeps what it is.
LEMMA SeenKept ==
  ASSUME NEW h, Firm(Null, vm), Firm(Null, h), Keeps(h),
         NEW c \in Variables(vm) \cap Variables(h)
  PROVE  Seen(vm, c) = Seen(h, c)
<1>1. /\ Reachable(vm) = Marked(vm) /\ Marked(vm) \subseteq InUse(vm)
      /\ \A x \in Marked(vm) : Traced(vm.heap[x]) \subseteq Marked(vm)
      /\ Reachable(h) \subseteq InUse(h)
  BY ReachableMarked, MarkedInUse DEF Firm
<1>2. c \in Marked(vm) /\ IsOf(vm, c, {"upvalue"}) /\ IsOf(h, c, {"upvalue"})
  BY <1>1 DEF Variables, IsOf
<1>3. PICK at : Chain(vm, c, at) /\ Resolved(vm, c) = vm.heap[at[MaxObjects]]
  BY ChainExists
<1>4. PICK to : Chain(h, c, to) /\ Resolved(h, c) = h.heap[to[MaxObjects]]
  BY ChainExists
<1>5. /\ \A n \in 0 .. MaxObjects : IsOf(vm, at[n], {"upvalue"}) /\ IsOf(h, to[n], {"upvalue"})
      /\ vm.heap[at[MaxObjects]].kind \in {"object", "stack"}
      /\ h.heap[to[MaxObjects]].kind \in {"object", "stack"}
  BY <1>2, <1>3, <1>4, ChainEnds
<1>6. ASSUME NEW x \in Marked(vm), IsOf(vm, x, {"upvalue"}), IsOf(h, x, {"upvalue"})
      PROVE  /\ Onward(h, x) = Onward(vm, x) /\ Onward(vm, x) \in Marked(vm)
             /\ h.heap[x].kind # "upvalue" => Content(h, h.heap[x]) = Content(vm, vm.heap[x])
  <2>1. /\ h.heap[x].kind = "upvalue" => h.heap[x] = vm.heap[x]
        /\ h.heap[x].kind # "upvalue" =>
             vm.heap[x].kind # "upvalue" /\ Content(h, h.heap[x]) = Content(vm, vm.heap[x])
    BY <1>6 DEF Keeps, IsOf
  <2>2. vm.heap[x].type = "upvalue" /\ h.heap[x].type = "upvalue"
    BY <1>6 DEF IsOf
  <2>3. ASSUME vm.heap[x].kind = "upvalue"
        PROVE  vm.heap[x].target \in Marked(vm)
    <3>1. IsOf(vm, vm.heap[x].target, {"upvalue"})
      BY <1>6, <2>2, <2>3, SolidFacts DEF Firm, IsOf, Fits, FitsUpvalue
    <3>2. vm.heap[x].target # Null
      BY <3>1, SolidFacts DEF Firm, IsOf
    <3>3. vm.heap[x].target \in Traced(vm.heap[x])
      BY <2>2, <2>3, <3>2, TracedFacts
    <3> QED BY <1>1, <3>3
  <2> QED BY <2>1, <2>2, <2>3 DEF Onward
<1> DEFINE T == { n \in 0 .. MaxObjects : ~(to[n] = at[n] /\ at[n] \in Marked(vm)) }
<1>7. T = {}
  <2> SUFFICES ASSUME T # {} PROVE FALSE
    OBVIOUS
  <2>1. T \subseteq Nat
    BY MaxObjectsAssumption
  <2>2. PICK k \in T : \A j \in T : k <= j
    BY <2>1, LeastExists
  <2>3. k \in 1 .. MaxObjects /\ k - 1 \in 0 .. MaxObjects /\ k - 1 \notin T
    BY <1>2, <1>3, <1>4, <2>2, MaxObjectsAssumption DEF Chain
  <2>4. to[k - 1] = at[k - 1] /\ at[k - 1] \in Marked(vm)
    BY <2>3
  <2>5. to[k] = Onward(h, to[k - 1]) /\ at[k] = Onward(vm, at[k - 1])
    BY <1>3, <1>4, <2>3 DEF Chain
  <2>6. to[k] = at[k] /\ at[k] \in Marked(vm)
    BY <1>5, <1>6, <2>3, <2>4, <2>5
  <2> QED BY <2>2, <2>6
<1>8. to[MaxObjects] = at[MaxObjects] /\ at[MaxObjects] \in Marked(vm)
  BY <1>7, MaxObjectsAssumption
<1> HIDE DEF T
<1>9. Content(h, Resolved(h, c)) = Content(vm, Resolved(vm, c))
  <2>1. MaxObjects \in 0 .. MaxObjects
    BY MaxObjectsAssumption
  <2>2. /\ IsOf(vm, at[MaxObjects], {"upvalue"}) /\ IsOf(h, at[MaxObjects], {"upvalue"})
        /\ h.heap[at[MaxObjects]].kind # "upvalue"
    BY <1>5, <1>8, <2>1
  <2> QED BY <1>3, <1>4, <1>6, <1>8, <2>2
<1> QED BY <1>9 DEF Seen, Content

LEMMA CapturedKept ==
  ASSUME Inv, Careful, Next, phase = "run", phase' = "run"
  PROVE  \/ \A c \in Variables(vm) \cap Variables(vm') : Seen(vm, c) = Seen(vm', c)
         \/ Moves \/ SetsUpvalue
<1>1. Ready(vm) /\ Firm(Null, vm) /\ kind \in DOMAIN Kinds
  BY FirmSound DEF Inv, Holds, Ready
<1>2. Data \/ Control
  BY NextPhases DEF Next
<1>3. Advances
  BY <1>1, <1>2, StackAdvances, NumbersAdvance, PairsAdvance, TextsAdvance, ControlAdvances
     DEF Data
<1>4. PICK next : Lands(next) /\ Becomes(next) /\ (Ok(next) => Keeps(next) \/ Moves \/ SetsUpvalue)
  BY <1>3 DEF Advances
<1> DEFINE h == [next EXCEPT !.cell = Null]
<1>5. vm' = h /\ Ok(next)
  BY <1>4 DEF Becomes
<1>6. Firm(Null, next) /\ DOMAIN next = Fields
  BY <1>4 DEF Lands, Firm, Solid, SoundHeap
<1>7. /\ SameHeap(next, h) /\ SameRoots(next, h)
      /\ h.heap = next.heap /\ h.free = next.free /\ h.stack = next.stack
  BY <1>6 DEF SameHeap, SameRoots, Fields
<1> HIDE DEF h
<1>8. CASE Keeps(next)
  <2>1. Keeps(h)
    BY <1>7, <1>8 DEF Keeps, Content, InUse
  <2>2. Firm(Null, h)
    BY <1>6, <1>7, FirmSame
  <2>3. \A c \in Variables(vm) \cap Variables(h) : Seen(vm, c) = Seen(h, c)
    BY <1>1, <2>1, <2>2, SeenKept
  <2> QED BY <1>5, <2>3
<1> QED BY <1>4, <1>5, <1>8

\* In a careful program a captured variable keeps its value while its scope
\* is left, its function returns, other functions run and the heap is
\* collected: only an assignment to it changes it.
THEOREM CapturedVariablesStayAlways == Spec /\ Careful => CapturedVariablesStay
<1>1. ASSUME Inv, Careful, Next
      PROVE  phase = "run" /\ phase' = "run"
               => \/ LET later == vm'
                     IN  \A c \in Variables(vm) \cap Variables(later) : Seen(vm, c) = Seen(later, c)
                  \/ Moves \/ SetsUpvalue
  BY <1>1, CapturedKept
<1>2. ASSUME Inv, Careful, [Next]_vars
      PROVE  Careful'
  <2>1. kind' = kind
    BY <1>2, NextPhases DEF vars
  <2> QED BY <1>2, <2>1 DEF Careful, MayCapture, Programs
<1> QED BY <1>1, <1>2, InvAlways, PTL DEF Spec, CapturedVariablesStay

====
