---------------------------- MODULE DuckVectors ----------------------------
(***************************************************************************)
(* The instructions of DuckVM on vectors, strings, types and instances.    *)
(***************************************************************************)
EXTENDS DuckData

-----------------------------------------------------------------------------
(* Vectors.                                                                *)

NewVector(length) ==
  [type |-> "internalVector", length |-> length, initialized |-> FALSE,
   values |-> [k \in 1 .. length |-> Null]]

\* The vector is pushed before its elements are made, without a slot on the
\* upvalue stack, which follows only when all of them are made.
PushVector(m, length) ==
  LET made == PushObject(m, NewVector(length))
  IN  PushUntracked(made, [type |-> "vector", internal_vector |-> made.cell, offset |-> 0])

Initialize(m, v) ==
  SetCell(PushTracked(m), v, [m.heap[v] EXCEPT !.initialized = TRUE])

\* Element k is made from the value at an offset before the vector was pushed.
Fill(m, v, k, i) == LinkElement(PushObject(m, At(m, i + 1)), v, k)
FillFrom(m, v, offsets) ==
  Initialize(FoldLeftDomain(LAMBDA acc, k : Fill(acc, v, k, offsets[k]), m, offsets), v)

Vector(m, offsets) ==
  LET pushed == PushVector(m, Len(offsets))
  IN  Reads(m, Range(offsets), FillFrom(pushed, pushed.cell, offsets))

\* All elements of a new vector are one and the same cell.
FillWith(m, v, x) ==
  LET made == PushObject(m, x)
      values == [k \in DOMAIN made.heap[v].values |-> made.cell]
  IN  Initialize(SetCell(made, v, [made.heap[v] EXCEPT !.values = values]), v)
MakeVector(m, i, j) ==
  LET pushed == PushVector(m, At(m, i).integer)
  IN  Reads(m, {i, j},
        IF At(m, i).type = "integer" /\ At(m, i).integer >= 0
        THEN FillWith(pushed, pushed.cell, At(m, j)) ELSE Invalid(m))

\* How much text is left after a string's offset; length is where it ends.
Rest(x) == x.length - x.offset

\* A vector that is null is read through all the same.
GetVecElt(m, i, j) ==
  LET x == At(m, i)
      n == At(m, j).integer
      v == m.heap[x.internal_vector]
  IN  Reads(m, {i, j},
        IF x.type \notin {"vector", "string"} \/ At(m, j).type # "integer" THEN Invalid(m)
        ELSE CASE x.type = "vector" /\ n < 0 -> Invalid(m)
               [] x.type = "vector" /\ n >= 0 /\ x.internal_vector = Null -> Fault(m)
               [] x.type = "vector" /\ n >= 0 /\ x.internal_vector # Null ->
                    IF n + x.offset >= v.length THEN Invalid(m)
                    ELSE Push(m, m.heap[v.values[n + x.offset + 1]])
               [] x.type = "string" ->
                    IF n < 0 \/ n >= Rest(x) THEN Invalid(m) ELSE Push(m, Integer(Letter)))

\* The index may be negative as long as it stays inside the whole vector.
SetVecElt(m, i, j, k) ==
  LET x == At(m, i)
      v == x.internal_vector
      at == At(m, j).integer + x.offset
  IN  Reads(m, {i, j, k},
        CASE x.type # "vector" \/ At(m, j).type # "integer" -> Invalid(m)
          [] x.type = "vector" /\ At(m, j).type = "integer" /\ v = Null -> Fault(m)
          [] OTHER ->
               IF at \notin 0 .. m.heap[v].length - 1 THEN Invalid(m)
               ELSE Push(LinkElement(PushObject(m, At(m, k)), v, at + 1), At(m, k)))

Length(m, i) ==
  LET x == At(m, i)
  IN  Reads(m, {i},
        CASE x.type = "vector" ->
               Push(m, Integer(IF x.internal_vector = Null THEN 0
                               ELSE m.heap[x.internal_vector].length - x.offset))
          [] x.type = "string" -> Push(m, Integer(Rest(x)))
          [] OTHER -> Invalid(m))

-----------------------------------------------------------------------------
(* Strings and symbols.                                                    *)

SymbolString(m, i) ==
  LET x == At(m, i)
  IN  Reads(m, {i},
        IF x.type # "symbol" THEN Invalid(m)
        ELSE Push(m, [type |-> "string", internalString |-> x.internalString, offset |-> 0,
                      length |-> m.heap[x.internalString].value_length]))
SymbolId(m, i) ==
  Reads(m, {i}, IF At(m, i).type # "symbol" THEN Invalid(m) ELSE Push(m, Integer(At(m, i).id)))

\* The n-th place that the loop over a list of letters reaches.
Walk(m, list) ==
  LET at[n \in 0 .. MaxObjects] ==
        IF n = 0 THEN list
        ELSE IF at[n - 1] = Null THEN Null
        ELSE CASE m.heap[at[n - 1]].type = "list" -> m.heap[at[n - 1]].list
               [] m.heap[at[n - 1]].type = "cons" -> m.heap[at[n - 1]].cdr
               [] OTHER -> at[n - 1]
  IN  at

\* The break after an element of the wrong type leaves the loop only: the
\* error is overwritten, and the string is empty or made of freed memory.
MakeString(m, i) ==
  LET x == At(m, i)
      places == { Walk(m, x.list)[n] : n \in 0 .. MaxObjects } \ {Null}
      pairs == { c \in places : m.heap[c].type = "cons" }
      letters == { c \in pairs : m.heap[c].car # Null /\ m.heap[m.heap[c].car].type = "integer" }
      proper == pairs = letters
                  /\ \A c \in places : m.heap[c].type \in {"cons", "list"}
      cyclic == Walk(m, x.list)[MaxObjects] # Null /\ proper
      count == CHOOSE n \in 0 .. MaxObjects :
                 n = LET S == { p \in 1 .. MaxObjects : Walk(m, x.list)[p - 1] \in pairs }
                     IN  IF S = {} THEN 0 ELSE Max(S)
  IN  Reads(m, {i},
        CASE x.type = "vector" ->
               IF x.internal_vector = Null THEN Fault(m)
               ELSE PushString(m, m.heap[x.internal_vector].length - x.offset)
          [] x.type = "list" ->
               IF cyclic \/ \E c \in pairs : m.heap[c].car = Null THEN Fault(m)
               ELSE PushString(m, IF proper THEN count ELSE 0)
          [] OTHER -> Invalid(m))

\* The lengths added are ends, not what is left after the offsets.
Concatenate(m, i, j) ==
  LET x == At(m, i)
      y == At(m, j)
  IN  Reads(m, {i, j},
        CASE x.type # "string" \/ y.type # "string" -> Invalid(m)
          [] x.type = "string" /\ y.type = "string"
               /\ Null \in {x.internalString, y.internalString} -> Fault(m)
          [] OTHER -> PushString(m, x.length + y.length))

\* The end must lie before the string's own: the last letter is out of reach.
\* The type of the third operand is not looked at: the bytes of any value are
\* taken for an integer.
AsIntegers(x) == IF x.type = "integer" THEN {x.integer} ELSE 0 .. IntegerLimit - 1

\* Mutant: the end is not compared with the string's.
SubstringPastEnd(m, i, j, to) ==
  LET x == At(m, i)
      from == At(m, j).integer
  IN  Reads(m, {i, j},
        IF x.type # "string" \/ At(m, j).type # "integer" \/ from < 0 \/ to < from
        THEN Invalid(m)
        ELSE Push(m, [x EXCEPT !.length = x.offset + to, !.offset = x.offset + from]))

Substring(m, i, j, to) ==
  LET x == At(m, i)
      from == At(m, j).integer
  IN  Reads(m, {i, j},
        IF \/ x.type # "string" \/ At(m, j).type # "integer"
           \/ from \notin 0 .. Rest(x) - 1 \/ to \notin from .. Rest(x) - 1
        THEN Invalid(m)
        ELSE Push(m, [x EXCEPT !.length = x.offset + to, !.offset = x.offset + from]))

-----------------------------------------------------------------------------
(* Types and instances.                                                    *)

UserTypes == << "user1", "user2" >>

MakeType(m) ==
  Push([m EXCEPT !.types = @ + 1], [type |-> "type", of |-> UserTypes[m.types + 1]])

TypeOf(m, i) ==
  LET x == At(m, i)
  IN  Reads(m, {i},
        Push(m, [type |-> "type",
                 of |-> IF x.type = "composite" THEN m.heap[x.composite].of ELSE x.type]))

\* Three cells are allocated before any is on the stack.  The first one is
\* made as a copy of the value; its contents become the instance.
MakeInstance(m, i, j, k) ==
  LET t == At(m, i)
      cell == PushObject(m, At(m, j))
      value == PushObject(cell, At(m, j))
      function == PushObject(value, At(m, k))
      done == SetCell(function, cell.cell,
                [type |-> "internalComposite", of |-> t.of,
                 value |-> value.cell, function |-> function.cell])
  IN  Reads(m, {i, j, k},
        IF t.type # "type" \/ t.of \in ValueTypes THEN Invalid(m)
        ELSE Push(done, [type |-> "composite", composite |-> cell.cell]))

\* field is "value" or "function".
Composite(m, i, field) ==
  LET x == At(m, i)
  IN  Reads(m, {i},
        IF x.type # "composite" THEN Invalid(m)
        ELSE Push(m, m.heap[m.heap[x.composite][field]]))
SetComposite(m, i, j, field) ==
  LET x == At(m, i)
  IN  Reads(m, {i, j},
        IF x.type # "composite" THEN Invalid(m)
        ELSE Push(Link(PushObject(m, At(m, j)), x.composite, field), x))

=============================================================================
