------------------------------ MODULE DuckData ------------------------------
(***************************************************************************)
(* The instructions of DuckVM that make and take apart data, as functions  *)
(* from machine to machine.  Operands i, j, k are offsets from the top of  *)
(* the stack; dl_array_get refuses those outside it.                       *)
(***************************************************************************)
EXTENDS DuckHeap, DuckNumbers

\* What a program's text is made of: the model knows one letter.
Letter == 1

Invalid(m) == Failed(m, "invalidValue")

\* An instruction that reads the values at some offsets first.
Reads(m, offsets, next) ==
  IF Ok(m) /\ \A i \in offsets : InStack(m, i) THEN next ELSE Invalid(m)

\* A pointer that is null, or past the end of what it points into, is used.
Fault(m) == Failed(m, "fault")

-----------------------------------------------------------------------------
(* Literals and the stack.                                                 *)

\* The text is allocated first and the symbol or string refers to it.
PushSymbol(m, id, length) ==
  LET text == PushObject(m, [type |-> "internalString", value_length |-> length])
  IN  Push(text, [type |-> "symbol", id |-> id, internalString |-> text.cell])
PushString(m, length) ==
  LET text == PushObject(m, [type |-> "internalString", value_length |-> length])
  IN  Push(text, [type |-> "string", internalString |-> text.cell,
                  offset |-> 0, length |-> length])
PushIndex(m, i) == Reads(m, {i}, Push(m, At(m, i)))
Move(m, i, j) == Reads(m, {i, j}, SetAt(m, j, At(m, i)))
PushGlobal(m, key) ==
  IF key \in DOMAIN m.globals THEN Push(m, m.heap[m.globals[key]]) ELSE Invalid(m)
SetStatic(m, i, key) ==
  LET copy == PushObject(m, At(m, i)) IN GlobalSet(copy, key, copy.cell)

\* Two null tests that differ for vectors and strings.
IsNull(m, x) ==
  CASE x.type = "list" -> x.list = Null
    [] x.type = "vector" -> x.internal_vector = Null
                              \/ x.offset >= m.heap[x.internal_vector].length
    [] x.type = "string" -> x.internalString = Null \/ x.offset >= x.length
    [] OTHER -> FALSE
NullP(m, i) == Reads(m, {i}, Push(m, Truth(IsNull(m, At(m, i)))))

Not(m, i) ==
  LET x == At(m, i)
  IN  Reads(m, {i},
        CASE x.type = "vector" -> Push(m, Truth(x.internal_vector = Null))
          [] x.type = "list" -> Push(m, Truth(x.list = Null))
          [] IsNumber(x) -> Push(m, Negated(x))
          [] OTHER -> Invalid(m))

\* brnz: look at the value on top and go on here or elsewhere in the same
\* code.  What follows is any instruction, so both are the same step.
Branch(m, count) == Reads(m, {1}, Pop(m, count))

-----------------------------------------------------------------------------
(* Arithmetic and equality.                                                *)

\* An arithmetic instruction on the values at two offsets pushes its result.
Calculate(m, result, i, j) ==
  Reads(m, {i, j},
    IF IsNumber(At(m, i)) /\ IsNumber(At(m, j)) THEN Push(m, result) ELSE Invalid(m))

\* Lists and vectors are equal when they are the same cells.
Same(m, x, y) ==
  CASE x.type # y.type -> Truth(FALSE)
    [] x.type = y.type /\ x.type = "symbol" -> Truth(x.id = y.id)
    [] x.type = y.type /\ x.type = "string" ->
         Truth(x.length - x.offset = y.length - y.offset)
    [] x.type = y.type /\ IsNumber(x) -> NumbersEqual(x, y)
    [] OTHER -> Truth(x = y)
Equal(m, i, j) ==
  Reads(m, {i, j},
    IF At(m, i).type \in {"function", "closure", "composite"} THEN Invalid(m)
    ELSE Push(m, Same(m, At(m, i), At(m, j))))

-----------------------------------------------------------------------------
(* Pairs.                                                                  *)

\* A list is put into a pair as its first pair, other values as a new cell.
Element(m, x) ==
  IF x.type = "list" THEN [m EXCEPT !.cell = x.list] ELSE PushObject(m, x)

\* A field of a cell comes to refer to the cell of the last allocation.
Link(m, c, field) == SetCell(m, c, [m.heap[c] EXCEPT ![field] = m.cell])
PutHalf(m, pair, field, x) == Link(Element(m, x), pair, field)

\* The pair just allocated is on the stack before its halves are.
FillPair(m, x, y) ==
  PutHalf(PutHalf(Push(m, [type |-> "list", list |-> m.cell]), m.cell, "car", x),
          m.cell, "cdr", y)
MakeCons(m, i, j) ==
  Reads(m, {i, j},
    FillPair(PushObject(m, [type |-> "cons", car |-> Null, cdr |-> Null]), At(m, i), At(m, j)))

\* Mutant: a pair is pushed itself, not as a list.
ValueOfPair(m, c) == IF c = Null THEN Nil ELSE m.heap[c]

\* The value that a cell referred to by a pair stands for.
ValueOf(m, c) ==
  IF c = Null \/ m.heap[c].type = "cons" THEN [type |-> "list", list |-> c]
  ELSE m.heap[c]

EmptyVector == [type |-> "vector", internal_vector |-> Null, offset |-> 0]
EmptyString == [type |-> "string", internalString |-> Null, offset |-> 0, length |-> 0]

NotAPair(m, x) == x.list # Null /\ m.heap[x.list].type # "cons"

Car(m, i) ==
  LET x == At(m, i)
  IN  Reads(m, {i},
        CASE x.type = "list" /\ x.list = Null -> Push(m, Nil)
          [] x.type = "list" /\ NotAPair(m, x) -> Failed(m, "shouldntHappen")
          [] x.type = "list" /\ x.list # Null /\ ~NotAPair(m, x) ->
               Push(m, ValueOf(m, m.heap[x.list].car))
          [] x.type = "vector" ->
               Push(m, IF IsNull(m, x) THEN EmptyVector
                       ELSE m.heap[m.heap[x.internal_vector].values[x.offset + 1]])
          [] x.type = "string" ->
               Push(m, IF IsNull(m, x) THEN EmptyString ELSE Integer(Letter))
          [] OTHER -> Invalid(m))

\* The rest of a vector or string shares its text or elements.
Cdr(m, i) ==
  LET x == At(m, i)
  IN  Reads(m, {i},
        CASE x.type = "list" /\ x.list = Null -> Push(m, Nil)
          [] x.type = "list" /\ NotAPair(m, x) -> Failed(m, "shouldntHappen")
          [] x.type = "list" /\ x.list # Null /\ ~NotAPair(m, x) ->
               Push(m, ValueOf(m, m.heap[x.list].cdr))
          [] x.type = "vector" ->
               Push(m, IF IsNull(m, x) \/ x.offset + 1 >= m.heap[x.internal_vector].length
                       THEN EmptyVector ELSE [x EXCEPT !.offset = @ + 1])
          [] x.type = "string" ->
               Push(m, IF x.internalString = Null \/ x.offset + 1 >= x.length
                       THEN EmptyString ELSE [x EXCEPT !.offset = @ + 1])
          [] OTHER -> Invalid(m))

\* Element k of a vector comes to be the cell of the last allocation.
LinkElement(m, v, k) == SetCell(m, v, [m.heap[v] EXCEPT !.values[k] = m.cell])

\* Setting an element of a vector checks no bounds.
SetCar(m, i, j) ==
  LET x == At(m, i)
      y == At(m, j)
      v == y.internal_vector
  IN  Reads(m, {i, j},
        CASE y.type = "list" /\ y.list # Null -> Push(PutHalf(m, y.list, "car", x), y)
          [] y.type = "vector" /\ v # Null ->
               IF y.offset < Len(m.heap[v].values)
               THEN Push(LinkElement(PushObject(m, x), v, y.offset + 1), y)
               ELSE Fault(PushObject(m, x))
          [] OTHER -> Invalid(m))

\* Setting the rest of a vector to nothing cuts it for all that share it.
SetCdr(m, i, j) ==
  LET x == At(m, i)
      y == At(m, j)
      v == y.internal_vector
      nothing == x = Nil \/ (x.type = "vector" /\ x.internal_vector = Null)
  IN  Reads(m, {i, j},
        CASE y.type = "list" /\ y.list # Null -> Push(PutHalf(m, y.list, "cdr", x), y)
          [] y.type = "vector" /\ v # Null /\ nothing ->
               Push(SetCell(m, v, [m.heap[v] EXCEPT !.length = y.offset]), y)
          [] OTHER -> Invalid(m))

=============================================================================
