------------------------------- MODULE DuckVM -------------------------------
(***************************************************************************)
(* DuckVM run by the debugger: programs are executed one after another,    *)
(* and after each one the machine is reset and its heap collected.  A      *)
(* program is any sequence of instructions that a compiler may emit: it    *)
(* uses the slots of the running function only, keeps the callee below its *)
(* arguments, and releases what was captured before it leaves a scope.     *)
(***************************************************************************)
EXTENDS DuckCalls, FiniteSets

CONSTANTS
  Kinds,   \* the kinds of programs: a function from names to records with
           \*   instructions  the names of the instructions they use
           \*   literals      the numbers and Booleans in them
           \*   captures      the operands of push-closure
           \*   recaptures    whether a variable on top of the stack that is
           \*                 captured already may be captured again
           \*   signatures    the arities of closures, a set of [arity, variadic]
           \*   keys          the symbols they store values under
           \*   callbacks     what main links, a sequence of [key, callback]
           \*   foreign       whether functions of earlier programs make closures
           \*   objects       the cells of the heap they run in
           \*   memory        "scarce"; "enough" when no step that runs out of
           \*                 memory is explored; "ample" when none that has to
           \*                 collect is
           \*   stack, calls  bounds on the stacks
  MaxSize  \* a bound on strings and on the numbers that are computed

ASSUME KindsAssumption ==
  \A name \in DOMAIN Kinds :
    /\ Kinds[name].objects \in Cells /\ Kinds[name].foreign \in BOOLEAN
    /\ Kinds[name].memory \in {"scarce", "enough", "ample"}
    /\ \A x \in Kinds[name].literals :
         \/ x.type = "integer" /\ x = Integer(x.integer) /\ x.integer \in Int
         \/ x.type = "bool" /\ x = Bool(x.boolean) /\ x.boolean \in 0 .. 255
         \/ x.type = "float" /\ x = Float(x.floatingPoint[1], x.floatingPoint[2])
    /\ Kinds[name].recaptures \in BOOLEAN /\ Kinds[name].captures \subseteq Seq(Int)
    /\ \A f \in Kinds[name].signatures : f.arity \in Nat
    /\ Kinds[name].callbacks \in Seq([key : Int, callback : STRING])
    /\ IsInjective([i \in DOMAIN Kinds[name].callbacks |-> Kinds[name].callbacks[i].key])
ASSUME MaxSizeAssumption == MaxSize \in Nat

VARIABLES
  kind,  \* the kind of the programs, always the same
  vm,    \* the machine
  phase  \* "idle" between programs, "run", "ended", or "faulted"

vars == << kind, vm, phase >>

Programs == Kinds[kind]

-----------------------------------------------------------------------------
(* What a compiler guarantees.                                             *)

\* The running function's slots lie above its own.
Base(m) == IF m.frames = << >> THEN 0 ELSE Last(m.frames).base
Own(m) == 1 .. Len(m.stack) - Base(m)

\* The slots at the topmost offsets hold no captured variable, or none that
\* is still to be released.
Temporary(m, offsets) ==
  \A i \in offsets : Slot(m, i) \in DOMAIN m.uvs => m.uvs[Slot(m, i)] = Null
IsOpen(m, i) ==
  Slot(m, i) \in DOMAIN m.uvs /\ m.uvs[Slot(m, i)] # Null
    /\ m.heap[m.uvs[Slot(m, i)]] = Upvalue("stack", Slot(m, i))
Released(m, offsets) == \A i \in offsets : ~IsOpen(m, i)

\* Strings stay within the bound.
TextFits(m, offsets) ==
  LET strings == { i \in offsets : At(m, i).type = "string" }
  IN  \A i, j \in strings : At(m, i).length + At(m, j).length <= MaxSize

\* The upvalues of the running function.
Upvalues(m) ==
  IF OwnArray(m) = Null THEN {} ELSE DOMAIN m.heap[OwnArray(m)].upvalues

\* Operands of push-closure that name variables and upvalues that exist.
Capturable(m, captures) ==
  \A k \in DOMAIN captures :
    IF captures[k] < 0 THEN -captures[k] \in Upvalues(m) ELSE captures[k] \in Own(m)

-----------------------------------------------------------------------------
(* One step of the loop in duckVM_execute.                                 *)

\* The most cells that one instruction allocates here.
Spare == 4

Runs(name) ==
  /\ phase = "run" /\ name \in Programs.instructions
  /\ Programs.memory = "ample" => Cardinality(vm.free) >= Spare

\* An allocation found no free cell.  push-closure reports it otherwise while
\* it captures a variable on top of the stack.
RunsOut(next) ==
  \/ next.status = "outOfMemory"
  \/ next.status = "shouldntHappen" /\ next.free = {}

Becomes(next) ==
  /\ Len(next.stack) <= Programs.stack /\ Len(next.frames) <= Programs.calls
  /\ Programs.memory # "scarce" => ~RunsOut(next)
  /\ vm' = [next EXCEPT !.cell = Null]
  /\ phase' = CASE Ok(next) -> "run"
                [] next.status = "fault" -> "faulted"
                [] OTHER -> "ended"
  /\ UNCHANGED kind

\* The numbers of a program are bounded by MaxSize.
Computes(next) ==
  /\ Ok(next) => \A n \in {Numerator(At(next, 1)), Denominator(At(next, 1))} :
                   Magnitude(n) <= MaxSize
  /\ Becomes(next)
IsZero(x) == IsNumber(x) /\ ~Truthy(x)

PushesNil == Runs("nil") /\ Becomes(Push(vm, Nil))
PushesLiteral == Runs("pushLiteral") /\ \E x \in Programs.literals : Becomes(Push(vm, x))
PushesSymbol == Runs("pushSymbol") /\ \E id \in {1, 2} : Becomes(PushSymbol(vm, id, 1))
PushesString == Runs("pushString") /\ \E n \in (0 .. MaxSize) : Becomes(PushString(vm, n))
PushesIndex == Runs("pushIndex") /\ \E i \in Own(vm) : Becomes(PushIndex(vm, i))
PushesGlobal ==
  Runs("pushGlobal") /\ \E key \in Programs.keys \cup DOMAIN vm.globals : Becomes(PushGlobal(vm, key))
Sets == Runs("setStatic") /\ \E i \in Own(vm), key \in Programs.keys : Becomes(SetStatic(vm, i, key))
Moves == Runs("move") /\ \E i, j \in Own(vm) : Becomes(Move(vm, i, j))
Pops ==
  Runs("pop") /\ \E count \in Own(vm) : Released(vm, 1 .. count) /\ Becomes(Pop(vm, count))

Branches ==
  /\ Runs("brnz") /\ Own(vm) # {}
  /\ \E count \in Own(vm) \cup {0} : Released(vm, 1 .. count) /\ Becomes(Branch(vm, count))

Negates == Runs("not") /\ \E i \in Own(vm) : Becomes(Not(vm, i))
TestsNull == Runs("nullp") /\ \E i \in Own(vm) : Becomes(NullP(vm, i))
Calculates ==
  \E i, j \in Own(vm) :
    LET x == At(vm, i)
        y == At(vm, j)
    IN  \/ Runs("mul") /\ Computes(Calculate(vm, Product(x, y), i, j))
        \/ Runs("div") /\ ~IsZero(y) /\ Computes(Calculate(vm, Quotient(x, y), i, j))
        \/ Runs("add") /\ Computes(Calculate(vm, Sum(x, y), i, j))
        \/ Runs("sub") /\ Computes(Calculate(vm, Difference(x, y), i, j))
        \/ Runs("greater") /\ Becomes(Calculate(vm, Greater(x, y), i, j))
        \/ Runs("less") /\ Becomes(Calculate(vm, Less(x, y), i, j))
Compares == Runs("equal") /\ \E i, j \in Own(vm) : Becomes(Equal(vm, i, j))

Conses == Runs("cons") /\ \E i, j \in Own(vm) : Becomes(MakeCons(vm, i, j))
TakesCar == Runs("car") /\ \E i \in Own(vm) : Becomes(Car(vm, i))
TakesCdr == Runs("cdr") /\ \E i \in Own(vm) : Becomes(Cdr(vm, i))
SetsCar == Runs("setCar") /\ \E i, j \in Own(vm) : Becomes(SetCar(vm, i, j))
SetsCdr == Runs("setCdr") /\ \E i, j \in Own(vm) : Becomes(SetCdr(vm, i, j))

MakesVector ==
  \/ Runs("vector") /\ \E offsets \in BoundedSeq(Own(vm), 2) : Becomes(Vector(vm, offsets))
  \/ Runs("makeVector") /\ \E i, j \in Own(vm) : Becomes(MakeVector(vm, i, j))
GetsElement == Runs("getVecElt") /\ \E i, j \in Own(vm) : Becomes(GetVecElt(vm, i, j))
SetsElement == Runs("setVecElt") /\ \E i, j, k \in Own(vm) : Becomes(SetVecElt(vm, i, j, k))
Measures == Runs("length") /\ \E i \in Own(vm) : Becomes(Length(vm, i))

TakesSymbol ==
  \E i \in Own(vm) :
    \/ Runs("symbolString") /\ Becomes(SymbolString(vm, i))
    \/ Runs("symbolId") /\ Becomes(SymbolId(vm, i))
MakesString ==
  \/ Runs("makeString") /\ \E i \in Own(vm) : Becomes(MakeString(vm, i))
  \/ /\ Runs("concatenate")
     /\ \E i, j \in Own(vm) : TextFits(vm, {i, j}) /\ Becomes(Concatenate(vm, i, j))
  \/ /\ Runs("substring")
     /\ \E i, j, k \in Own(vm) :
          \E to \in AsIntegers(At(vm, k)) \cap (0 .. MaxSize) : Becomes(Substring(vm, i, j, to))

MakesType == Runs("makeType") /\ vm.types < Len(UserTypes) /\ Becomes(MakeType(vm))
TakesType == Runs("typeof") /\ \E i \in Own(vm) : Becomes(TypeOf(vm, i))
MakesInstance == Runs("makeInstance") /\ \E i, j, k \in Own(vm) : Becomes(MakeInstance(vm, i, j, k))
OpensInstance ==
  \E field \in {"value", "function"}, i \in Own(vm) :
    \/ Runs("composite") /\ Becomes(Composite(vm, i, field))
    \/ Runs("setComposite") /\ \E j \in Own(vm) : Becomes(SetComposite(vm, i, j, field))

PushesUpvalue == Runs("pushUpvalue") /\ \E n \in Upvalues(vm) : Becomes(PushUpvalue(vm, n))
SetsUpvalue ==
  Runs("setUpvalue") /\ \E n \in Upvalues(vm), i \in Own(vm) : Becomes(SetUpvalue(vm, n, i))
\* A variable is released once, when its scope ends.
ReleasesUpvalues ==
  /\ Runs("releaseUpvalues")
  /\ \E i \in Own(vm) :
       (IsOpen(vm, i) \/ Temporary(vm, {i})) /\ Becomes(ReleaseUpvalues(vm, << i >>))
PushesClosure ==
  /\ Runs("pushClosure") /\ (Programs.foreign \/ vm.ip = vm.current)
  /\ \E captures \in Programs.captures, f \in Programs.signatures :
       /\ Capturable(vm, captures)
       /\ 1 \in Range(captures) => Programs.recaptures \/ Temporary(vm, {1})
       /\ Becomes(PushClosure(vm, captures, f.arity, f.variadic))

\* The callee and its arguments are temporaries on top of the stack.  A
\* callback gets the arguments that it takes.
Suits(f, args) == f.type = "function" => args >= Takes(f.callback)
Funcalls ==
  /\ Runs("funcall")
  /\ \E i \in Own(vm) :
       Temporary(vm, 1 .. i) /\ Suits(At(vm, i), i - 1) /\ Becomes(Funcall(vm, i, i - 1))
Applies ==
  /\ Runs("apply")
  /\ \E i \in Own(vm) \ {1} : Temporary(vm, 1 .. i) /\ Becomes(Apply(vm, i, i - 2))
Calls ==
  /\ Runs("call")
  /\ \E i \in Own(vm) : Temporary(vm, 1 .. i) /\ Becomes(Call(vm, Slot(vm, i)))
CallsC ==
  /\ Runs("ccall")
  /\ \E key \in DOMAIN vm.globals :
       /\ Suits(vm.heap[vm.globals[key]], Cardinality(Own(vm)))
       /\ Temporary(vm, {1, 2} \cap Own(vm)) /\ Becomes(CCall(vm, key))
Returns ==
  /\ Runs("return") /\ Own(vm) # {} /\ Released(vm, Own(vm))
  /\ Becomes(Return(vm, Cardinality(Own(vm))))
Halts ==
  \/ Runs("return0") /\ vm.frames = << >> /\ Becomes(Leave(vm))
  \/ Runs("yield") /\ Becomes(Failed(vm, "yield"))

-----------------------------------------------------------------------------
(* The debugger's main loop.                                               *)

Init ==
  /\ kind \in DOMAIN Kinds
  /\ vm = LET link(m, f) == LinkCFunction(m, f.key, f.callback)
          IN  [FoldLeft(link, Empty(Programs.objects), Programs.callbacks) EXCEPT !.cell = Null]
  /\ phase = "idle"

\* duckVM_execute up to its loop.
Execute ==
  /\ phase = "idle"
  /\ LET code == PushObject(vm, [type |-> "bytecode"])
     IN  Becomes(IF Ok(code) THEN [code EXCEPT !.current = code.cell, !.ip = code.cell]
                 ELSE code)

\* The end of duckVM_execute, duckVM_softReset and duckVM_garbageCollect.  An
\* error is reported and nothing else is done about it.
Finish ==
  /\ phase = "ended"
  /\ LET reset == SoftReset([vm EXCEPT !.current = Null, !.ip = Null, !.status = "ok"])
     IN  vm' = Collected([reset EXCEPT !.status = "ok"])
  /\ phase' = "idle" /\ UNCHANGED kind

Data ==
  \/ PushesNil \/ PushesLiteral \/ PushesSymbol \/ PushesString \/ PushesIndex
  \/ PushesGlobal \/ Sets \/ Moves \/ Pops \/ Branches
  \/ Negates \/ TestsNull \/ Calculates \/ Compares
  \/ Conses \/ TakesCar \/ TakesCdr \/ SetsCar \/ SetsCdr
  \/ MakesVector \/ GetsElement \/ SetsElement \/ Measures
  \/ TakesSymbol \/ MakesString
  \/ MakesType \/ TakesType \/ MakesInstance \/ OpensInstance
Control ==
  \/ PushesUpvalue \/ SetsUpvalue \/ ReleasesUpvalues \/ PushesClosure
  \/ Funcalls \/ Applies \/ Calls \/ CallsC \/ Returns \/ Halts

Next == Execute \/ Data \/ Control \/ Finish

Spec == Init /\ [][Next]_vars

-----------------------------------------------------------------------------
(* What holds of the heap and the stacks.                                  *)

Used == DOMAIN vm.heap \ vm.free

\* Every cell that the machine refers to outside of the heap.
Held(m) ==
  ((UNION { References(m.stack[i]) : i \in DOMAIN m.stack })
     \cup Range(m.uvs) \cup Range(m.globals) \cup {m.current}
     \cup (UNION { {f.bytecode, f.upvalues} : f \in Range(m.frames) })) \ {Null}
Reachable(m) ==
  LET more[S \in SUBSET DOMAIN m.heap] ==
        LET T == S \cup UNION { References(m.heap[c]) : c \in S }
        IN  IF T = S THEN S ELSE more[T]
  IN  more[Held(m)]

\* Cells have the type that whoever refers to them takes them for.
IsA(c, types) == c = Null \/ vm.heap[c].type \in types
Proper(o) ==
  CASE o.type = "list" -> IsA(o.list, ValueTypes \cup {"cons"})
    [] o.type = "cons" -> \A c \in {o.car, o.cdr} : IsA(c, ValueTypes \cup {"cons"})
    [] o.type = "vector" -> IsA(o.internal_vector, {"internalVector"})
    [] o.type = "internalVector" -> \A c \in Elements(o) : IsA(c, ValueTypes)
    [] o.type = "closure" ->
         /\ vm.heap[o.upvalue_array].type = "upvalueArray"
         /\ vm.heap[o.bytecode].type = "bytecode"
    [] o.type = "upvalueArray" -> \A c \in Range(o.upvalues) : IsA(c, {"upvalue"})
    [] o.type = "upvalue" ->
         /\ o.kind = "object" => vm.heap[o.target].type \in ValueTypes
         /\ o.kind = "upvalue" => vm.heap[o.target].type = "upvalue"
    [] o.type \in {"string", "symbol"} -> IsA(o.internalString, {"internalString"})
    [] o.type = "composite" -> vm.heap[o.composite].type = "internalComposite"
    [] o.type = "internalComposite" ->
         \A c \in {o.value, o.function} : vm.heap[c].type \in ValueTypes
    [] OTHER -> o.type \in ValueTypes \cup CellTypes

\* The type invariant: what is on the stack is a value, and every reference
\* is to a cell of the type that the instructions expect there.
TypeOK ==
  /\ phase \in {"idle", "run", "ended", "faulted"}
  /\ \A i \in DOMAIN vm.stack : vm.stack[i].type \in ValueTypes /\ Proper(vm.stack[i])
  /\ \A c \in Used : Proper(vm.heap[c])
  /\ \A i \in DOMAIN vm.uvs : IsA(vm.uvs[i], {"upvalue"})

\* No reference is left to a cell on the free list: whatever an instruction
\* had disconnected from the stack while it allocated was not collected
\* (duckVM_gclist_garbageCollect and the comments on it in the instructions).
NoDangling == Held(vm) \subseteq Used /\ \A c \in Used : References(vm.heap[c]) \subseteq Used

\* The code that runs, and the code that every call returns to, has not been
\* freed with the program it belonged to.
CodeStays == ({vm.ip} \cup { f.ip : f \in Range(vm.frames) }) \ {Null} \subseteq Used

\* Every value on the stack has its entry on the stack of upvalues, however
\* an instruction ended (stack_push, stack_pop_multiple, push-closure).
StacksAligned == phase \in {"idle", "run"} => Len(vm.stack) = Len(vm.uvs)

\* After a program nothing of it is left but what it stored under symbols:
\* the stacks are empty, and all cells but those that are reached from there
\* are free (main's soft reset and collection).
NothingLeaks ==
  phase = "idle" =>
    /\ vm.stack = << >> /\ vm.uvs = << >> /\ vm.frames = << >>
    /\ Used = Reachable(vm)

\* Every open upvalue that can be reached is the one that the slot it names
\* will release, so that all closures share the variable.
OpenUpvaluesAreReleased ==
  phase \in {"idle", "run"} =>
    \A c \in Reachable(vm) :
      LET u == vm.heap[c]
      IN  u.type = "upvalue" /\ u.kind = "stack"
            => u.target \in DOMAIN vm.uvs /\ vm.uvs[u.target] = c

\* The upvalues that can be reached, and what is seen through one.
Variables(m) ==
  LET upvalues == { c \in DOMAIN m.heap : m.heap[c].type = "upvalue" }
  IN  IF upvalues = {} THEN {} ELSE upvalues \cap Reachable(m)
Seen(m, c) ==
  LET u == Resolved(m, c)
  IN  IF u.kind = "object" THEN m.heap[u.target] ELSE m.stack[u.target]

\* A captured variable keeps its value when its scope is left, when its
\* function returns and when the heap is collected: only an assignment to it
\* changes it (release-upvalues, return, pop).
CapturedVariablesStay ==
  [][phase = "run" /\ phase' = "run"
       => \/ LET later == vm'
             IN  \A c \in Variables(vm) \cap Variables(later) : Seen(vm, c) = Seen(later, c)
          \/ Moves \/ SetsUpvalue]_vars

\* A closure that is made in a function may capture what that function has
\* captured ("Nested upvalue", "Capture upvalue in currently executing
\* function"): while there is memory, making a closure succeeds.
ClosuresAreMade == [][PushesClosure => Ok(vm')]_vars

\* A string lies within its text, and a vector starts within its elements,
\* whatever was cut off or shared (substring, cdr, set-cdr, concatenate).
WithinBounds ==
  \A o \in Range(vm.stack) \cup { vm.heap[c] : c \in Used } :
    /\ o.type = "string" => 0 <= o.offset /\ o.offset <= o.length
    /\ o.type = "string" /\ o.internalString # Null
         => o.length <= vm.heap[o.internalString].value_length
    /\ o.type = "vector" /\ o.internal_vector # Null
         => o.offset <= Len(vm.heap[o.internal_vector].values)

=============================================================================
