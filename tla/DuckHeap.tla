------------------------------ MODULE DuckHeap ------------------------------
(***************************************************************************)
(* The garbage-collected heap of DuckVM and the stacks that are its roots. *)
(* The whole machine is one record, because an instruction allocates       *)
(* several times and a collection may run in each of the allocations:      *)
(*   heap     what every cell holds                                        *)
(*   free     the cells on the free list                                   *)
(*   stack    the values; uvs is the parallel stack of tracked upvalues    *)
(*   globals  a function from some keys to cells                           *)
(*   frames   the call stack, with the upvalues of every called function   *)
(*   current  the code that execute runs; Null outside of it               *)
(*   ip       the code cell that the next instruction lies in              *)
(*   status   "ok", or what stopped the program: "halt", "yield", an error *)
(*            or "fault" where the behaviour of the C code is undefined    *)
(*   types    how many user types there are                                *)
(*   cell     the cell that the last allocation returned                   *)
(* Objects are records with the fields of the C union's member for their   *)
(* type.  Text is kept as its length only and whole numbers are enough.    *)
(***************************************************************************)
EXTENDS Integers, Sequences, SequencesExt

CONSTANT MaxObjects  \* no heap has more cells

ASSUME MaxObjectsAssumption == MaxObjects \in Nat \ {0}

Cells == 1 .. MaxObjects
Null  == 0

Blank == [type |-> "none"]
Nil   == [type |-> "list", list |-> Null]

\* Types that a value on the stack may have, and those only cells have.
ValueTypes ==
  {"bool", "integer", "float", "string", "list", "symbol", "function",
   "closure", "vector", "type", "composite"}
CellTypes ==
  {"cons", "upvalue", "upvalueArray", "internalVector", "bytecode",
   "internalComposite", "internalString"}

Elements(v) == { v.values[k] : k \in 1 .. v.length }

\* The cells that marking an object marks next.  Composites are not followed.
Traced(o) ==
  { c \in CASE o.type = "list" -> {o.list}
            [] o.type = "cons" -> {o.car, o.cdr}
            [] o.type = "closure" -> {o.upvalue_array, o.bytecode}
            [] o.type = "upvalue" /\ o.kind # "stack" -> {o.target}
            [] o.type = "upvalueArray" -> Range(o.upvalues)
            [] o.type = "vector" -> {o.internal_vector}
            [] o.type = "internalVector" /\ o.initialized -> Elements(o)
            [] o.type \in {"string", "symbol"} -> {o.internalString}
            [] OTHER -> {} : c # Null }

\* Of the values on the stack the collector looks at these types only.
StackTraced(o) ==
  IF o.type \in {"list", "closure", "vector", "string", "symbol"}
  THEN Traced(o) ELSE {}

\* Every cell an object refers to.  A closure's entry point lies in the code
\* cell "name", whatever its field "bytecode" says.
References(o) ==
  { c \in CASE o.type = "closure" -> {o.upvalue_array, o.bytecode, o.name}
            [] o.type = "internalVector" -> Elements(o)
            [] o.type = "composite" -> {o.composite}
            [] o.type = "internalComposite" -> {o.value, o.function}
            [] OTHER -> Traced(o) : c # Null }

-----------------------------------------------------------------------------
(* Collection.                                                             *)

\* Mutant: the code that is being run is no root.
RootsWithoutCode(m) ==
  { c \in (UNION { StackTraced(m.stack[i]) : i \in DOMAIN m.stack })
            \cup Range(m.uvs) \cup Range(m.globals) : c # Null }

Roots(m) ==
  { c \in (UNION { StackTraced(m.stack[i]) : i \in DOMAIN m.stack })
            \cup Range(m.uvs)
            \cup Range(m.globals)
            \cup { m.frames[i].bytecode : i \in DOMAIN m.frames }
            \cup {m.current} : c # Null }

\* The cells that are reached from the roots.
Marked(m) ==
  LET more[S \in SUBSET DOMAIN m.heap] ==
        LET T == S \cup UNION { Traced(m.heap[c]) : c \in S }
        IN  IF T = S THEN S ELSE more[T]
  IN  more[Roots(m)]

\* The content of a freed cell is not read again while no reference dangles,
\* so the model blanks it.
Sweep(m, marked) ==
  [m EXCEPT !.free = DOMAIN m.heap \ marked,
            !.heap = [c \in DOMAIN @ |-> IF c \in marked THEN @[c] ELSE Blank]]
Collected(m) == Sweep(m, Marked(m))

-----------------------------------------------------------------------------
(* Steps of an instruction.  Each one does nothing after an earlier one    *)
(* has failed.                                                             *)

Ok(m) == m.status = "ok"
Failed(m, status) == IF Ok(m) THEN [m EXCEPT !.status = status] ELSE m

\* Take a free cell.  The free list is filled in the order of the cells and
\* taken from its end.
Allocate(m, object) ==
  IF m.free = {} THEN Failed(m, "outOfMemory")
  ELSE [m EXCEPT !.free = @ \ {Max(@)}, !.heap[Max(m.free)] = object,
                 !.cell = Max(m.free)]

\* duckVM_gclist_pushObject: allocate, after a collection if need be.
PushObject(m, object) ==
  IF Ok(m) THEN Allocate(IF m.free = {} THEN Collected(m) ELSE m, object) ELSE m

\* Change the machine unless the instruction has failed.
Push(m, object) ==
  IF Ok(m) THEN [m EXCEPT !.stack = Append(@, object), !.uvs = Append(@, Null)]
  ELSE m

\* dl_array_pushElement on the stack alone, as pushClosure and vector do.
PushUntracked(m, object) ==
  IF Ok(m) THEN [m EXCEPT !.stack = Append(@, object)] ELSE m
PushTracked(m) == IF Ok(m) THEN [m EXCEPT !.uvs = Append(@, Null)] ELSE m

\* stack_pop_multiple pops the upvalue stack first and gives up if it fails.
Pop(m, count) ==
  IF ~Ok(m) THEN m
  ELSE IF Len(m.uvs) < count THEN Failed(m, "bufferUnderflow")
  ELSE IF Len(m.stack) < count
    THEN [Failed(m, "bufferUnderflow") EXCEPT !.uvs = SubSeq(@, 1, Len(@) - count)]
  ELSE [m EXCEPT !.uvs = SubSeq(@, 1, Len(@) - count),
                 !.stack = SubSeq(@, 1, Len(@) - count)]

\* Offsets count from the top of the stack, which is 1.
Slot(m, offset) == Len(m.stack) + 1 - offset
At(m, offset) == m.stack[Slot(m, offset)]
InStack(m, offset) == offset \in 1 .. Len(m.stack)

SetAt(m, offset, object) ==
  IF Ok(m) THEN [m EXCEPT !.stack[Slot(m, offset)] = object] ELSE m
SetCell(m, c, object) ==
  IF Ok(m) THEN [m EXCEPT !.heap[c] = object] ELSE m

GlobalSet(m, key, c) ==
  IF Ok(m)
  THEN [m EXCEPT !.globals = [k \in DOMAIN @ \cup {key} |-> IF k = key THEN c ELSE @[k]]]
  ELSE m

\* duckVM_linkCFunction.
LinkCFunction(m, key, callback) ==
  LET made == PushObject(m, [type |-> "function", callback |-> callback])
  IN  GlobalSet(made, key, made.cell)

\* duckVM_init.
Empty(maxObjects) ==
  [heap |-> [c \in 1 .. maxObjects |-> Blank], free |-> 1 .. maxObjects,
   stack |-> << >>, uvs |-> << >>, globals |-> [k \in {} |-> Null], frames |-> << >>,
   current |-> Null, ip |-> Null, status |-> "ok", types |-> 0, cell |-> Null]

\* Mutant: the call stack keeps the frames of a program that failed.
SoftResetStackOnly(m) == Pop(m, Len(m.stack))

\* duckVM_softReset.
SoftReset(m) ==
  LET popped == Pop(m, Len(m.stack))
  IN  IF Ok(popped) THEN [popped EXCEPT !.frames = << >>] ELSE popped

=============================================================================
