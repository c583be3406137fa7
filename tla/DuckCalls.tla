------------------------------ MODULE DuckCalls ------------------------------
(***************************************************************************)
(* The instructions of DuckVM on closures, their upvalues and calls.  An   *)
(* upvalue is open while it names a place on the stack and closed once it  *)
(* refers to a copy on the heap: its field "kind" is "stack" or "object"   *)
(* and "target" is the place or the cell.  The code that follows upvalues  *)
(* also knows a third kind, "upvalue", that stands for another upvalue;    *)
(* the firmware never makes one (Capture).  Every slot of the stack has an *)
(* entry in uvs: the open upvalue that was made for it, or Null.           *)
(***************************************************************************)
EXTENDS DuckVectors

Upvalue(kind, target) == [type |-> "upvalue", kind |-> kind, target |-> target]

-----------------------------------------------------------------------------
(* Access to upvalues.                                                     *)

\* The array of upvalues of the running function; Null outside of functions.
OwnArray(m) == IF m.frames = << >> THEN Null ELSE Last(m.frames).upvalues

\* Upvalue n of the running function exists.
Captured(m, n) ==
  OwnArray(m) # Null /\ n \in DOMAIN m.heap[OwnArray(m)].upvalues
    /\ m.heap[OwnArray(m)].upvalues[n] # Null

\* The upvalue that one stands for, at the end of the chain.
Resolved(m, u) ==
  LET at[n \in 0 .. MaxObjects] ==
        IF n = 0 THEN u
        ELSE LET c == at[n - 1]
             IN  IF m.heap[c].type = "upvalue" /\ m.heap[c].kind = "upvalue"
                 THEN m.heap[c].target ELSE c
  IN  m.heap[at[MaxObjects]]

PushUpvalue(m, n) ==
  LET u == Resolved(m, m.heap[OwnArray(m)].upvalues[n])
  IN  IF ~Captured(m, n) THEN Fault(m)
      ELSE IF u.kind = "object" THEN Push(m, m.heap[u.target])
      ELSE IF u.target \in DOMAIN m.stack THEN Push(m, m.stack[u.target]) ELSE Invalid(m)

SetUpvalue(m, n, i) ==
  LET u == Resolved(m, m.heap[OwnArray(m)].upvalues[n])
  IN  Reads(m, {i},
        IF ~Captured(m, n) THEN Fault(m)
        ELSE IF u.kind = "object" THEN SetCell(m, u.target, At(m, i))
        ELSE IF u.target \in DOMAIN m.stack
          THEN [m EXCEPT !.stack[u.target] = At(m, i)] ELSE Invalid(m))

\* Mutant: the slot is released without giving the upvalue its own copy.
ReleaseUpvalueUnlinked(m, i) ==
  LET made == PushObject(m, At(m, i))
  IN  IF m.uvs[Slot(m, i)] = Null THEN m ELSE SetAt(made, i, Nil)

\* Close the open upvalue of a slot.  Its entry in uvs stays.
ReleaseUpvalue(m, i) ==
  LET u == m.uvs[Slot(m, i)]
      made == PushObject(m, At(m, i))
  IN  IF ~Ok(m) \/ u = Null \/ m.heap[u].type # "upvalue" THEN m
      ELSE SetAt(SetCell(made, u, Upvalue("object", made.cell)), i, Nil)
ReleaseUpvalues(m, offsets) == FoldLeft(ReleaseUpvalue, m, offsets)

-----------------------------------------------------------------------------
(* Making closures.                                                        *)

\* Mutant: a slot gets another upvalue every time it is captured.
CaptureSlotAnew(m, slot) ==
  LET made == PushObject(m, Upvalue("stack", slot))
  IN  IF Ok(made) THEN [made EXCEPT !.uvs[slot] = made.cell] ELSE made

\* The upvalue of a slot of the stack, made when it has none.
CaptureSlot(m, slot) ==
  LET made == PushObject(m, Upvalue("stack", slot))
  IN  IF m.uvs[slot] # Null
      THEN IF m.heap[m.uvs[slot]].type = "upvalue" THEN [m EXCEPT !.cell = m.uvs[slot]]
           ELSE Failed(m, "shouldntHappen")
      ELSE IF Ok(made) THEN [made EXCEPT !.uvs[slot] = made.cell] ELSE made

\* The topmost slot is taken for the closure's own: it always gets a new
\* upvalue, in place of the one it has, and the entry of the closure in uvs
\* is made here.
CaptureTop(m, slot) ==
  LET made == PushObject(m, Upvalue("stack", slot))
  IN  IF Ok(made) THEN [made EXCEPT !.uvs = Append([@ EXCEPT ![slot] = made.cell], Null)]
      ELSE [made EXCEPT !.status = "shouldntHappen"]

\* Entry k of the array comes to be the cell of the last allocation.
LinkUpvalue(m, array, k) == SetCell(m, array, [m.heap[array] EXCEPT !.upvalues[k] = m.cell])

\* One operand of push-closure: a slot that is c below the new closure.  The
\* compiler writes upvalue n of the running function as -n.  On the LPC1769
\* an offset has 32 bits, no number is above 7FFFFFFF, and -n is taken for a
\* slot above the closure.  Without an entry in uvs the bound on slots is
\* that of an unsigned number below zero, and no slot is above it.
Capture(m, array, k, c) ==
  LET slot == Len(m.stack) - c
      made == CASE slot < 1 \/ (slot > Len(m.uvs) /\ m.uvs # << >>) -> Invalid(m)
                [] slot >= 1 /\ m.uvs = << >> -> Fault(m)
                [] slot \in 1 .. Len(m.uvs) - 1 -> CaptureSlot(m, slot)
                [] slot = Len(m.uvs) /\ m.uvs # << >> -> CaptureTop(m, slot)
  IN  IF Ok(m) THEN LinkUpvalue(made, array, k) ELSE m

\* The closure goes on the stack before anything is captured for it, at an
\* entry point in the code that is being run; its bytecode is what execute
\* was called with.
NewClosure(m, arity, variadic) ==
  [type |-> "closure", name |-> m.ip, bytecode |-> m.current, upvalue_array |-> m.cell,
   arity |-> arity, variadic |-> variadic]
CaptureAll(m, closure, captures) ==
  FoldLeftDomain(LAMBDA acc, k : Capture(acc, closure.upvalue_array, k, captures[k]),
                 PushUntracked(m, closure), captures)

\* The closure's entry on the upvalue stack, unless capturing has made one.
TrackClosure(m, before) == IF Len(m.uvs) = Len(before.uvs) THEN PushTracked(m) ELSE m

\* Mutant: the new closure gets no entry on the upvalue stack.
MakeClosureUntracked(m, captures, arity, variadic) ==
  CaptureAll(m, NewClosure(m, arity, variadic), captures)

MakeClosure(m, captures, arity, variadic) ==
  TrackClosure(CaptureAll(m, NewClosure(m, arity, variadic), captures), m)
PushClosure(m, captures, arity, variadic) ==
  MakeClosure(PushObject(m, [type |-> "upvalueArray",
                             upvalues |-> [k \in 1 .. Len(captures) |-> Null]]),
              captures, arity, variadic)

-----------------------------------------------------------------------------
(* Calls.                                                                  *)

\* call_stack_push, and the jump to the callee.  The frame keeps the code
\* that execute was called with, whatever code makes the call.
CallFrame(m, upvalues, base) ==
  [ip |-> m.ip, bytecode |-> m.current, upvalues |-> upvalues, base |-> base]
Enter(m, closure, base) ==
  IF ~Ok(m) THEN m
  ELSE [m EXCEPT !.frames = Append(@, CallFrame(m, closure.upvalue_array, base)),
                 !.ip = closure.name]

\* A call of an instance calls its function with the instance as an
\* additional argument.  The instance is written over the first argument.
\* s.m is the machine, s.i the offset of the callee, s.args the number of
\* arguments and s.f the callee.
UnwrapOnce(s) ==
  LET b == Slot(s.m, s.i)
      stack == s.m.stack
  IN  IF ~Ok(s.m) \/ s.f.type # "composite" THEN s
      ELSE IF s.i = 1 THEN [s EXCEPT !.m = Fault(s.m)]
      ELSE [m |-> [s.m EXCEPT !.stack = SubSeq(stack, 1, b) \o << stack[b], s.f >>
                                          \o SubSeq(stack, b + 2, Len(stack)),
                              !.uvs = Append(@, Null)],
            i |-> s.i + 1, args |-> s.args + 1,
            f |-> s.m.heap[s.m.heap[s.f.composite].function]]
Unwrapped(m, i, args) ==
  LET at[n \in 0 .. MaxObjects] ==
        IF n = 0 THEN [m |-> m, i |-> i, args |-> args, f |-> At(m, i)]
        ELSE UnwrapOnce(at[n - 1])
  IN  at[MaxObjects]

\* Mutant: the list of arguments is not kept on the stack while it grows.
CollectDisconnected(m, args, rest) ==
  LET grow(acc, k) ==
        LET made == PushObject(acc, At(acc, k))
        IN  PushObject(made, [type |-> "cons", car |-> made.cell,
                              cdr |-> IF k = 1 THEN rest ELSE acc.cell])
      grown == FoldLeftDomain(grow, m, [k \in 1 .. args |-> k])
  IN  Push(Pop(grown, args), [type |-> "list", list |-> IF args = 0 THEN rest ELSE grown.cell])

\* A list grows by one argument: the new element and then its pair are kept
\* on top of the stack where the collector sees them.
KeepPair(m) == SetAt(m, 2, [type |-> "list", list |-> m.cell])
KeepElement(m) == SetAt(m, 1, [type |-> "list", list |-> m.cell])
Grow(m, k) ==
  LET kept == KeepElement(PushObject(m, At(m, k + 2)))
  IN  KeepPair(PushObject(kept, [type |-> "cons", car |-> kept.cell, cdr |-> At(kept, 2).list]))

\* Replace the topmost arguments by the list of them followed by rest.
Collect(m, args, rest) ==
  LET start == Push(Push(m, [type |-> "list", list |-> rest]), Nil)
      grown == Pop(FoldLeftDomain(Grow, start, [k \in 1 .. args |-> k]), 1)
  IN  IF Ok(grown) THEN Pop(SetAt(grown, args + 1, At(grown, 1)), args) ELSE grown

\* The arguments are checked, and the optional ones become a list.
Arguments(m, f, args, rest) ==
  IF f.variadic
  THEN IF args < f.arity THEN Invalid(m) ELSE Collect(m, args - f.arity, rest)
  ELSE IF args # f.arity THEN Invalid(m) ELSE m

\* What the debugger's callbacks do to the stack.
ReadsBus == {"readMicrocodeAddress", "readMicrocodeData"}
ChecksType == {"writeMicrocodeBufferOe", "writeMicrocodeStateOe", "writeMicrocodeOe",
               "writeMicrocodeWe", "writeClock"}
Takes(name) == IF name \in ReadsBus THEN 0 ELSE IF name = "writeRegister" THEN 2 ELSE 1

Callback(m, name) ==
  LET popped == IF m.stack = << >> THEN Failed(m, "bufferUnderflow") ELSE Pop(m, 1)
      x == At(m, 1)
  IN  CASE name \in ReadsBus -> Push(m, Integer(0))
        [] name \in ChecksType -> IF ~Ok(popped) THEN popped
                                  ELSE IF x.type \notin {"bool", "integer"} THEN Invalid(popped)
                                  ELSE Push(popped, x)
        [] name = "readRegister" -> Push(popped, Integer(0))
        [] name = "writeRegister" ->
             IF Ok(popped) /\ Len(m.stack) < 2 THEN Failed(popped, "bufferUnderflow")
             ELSE Push(Pop(popped, 1), x)
        [] OTHER -> Push(popped, x)

Funcall(m, i, args) ==
  LET s == Unwrapped(m, i, args)
  IN  Reads(m, {i},
        IF ~Ok(s.m) THEN s.m
        ELSE IF s.f.type = "function" THEN Callback(s.m, s.f.callback)
        ELSE IF s.f.type # "closure" THEN Invalid(s.m)
        ELSE Enter(Arguments(s.m, s.f, s.args, Null), s.f, Slot(m, i)))

\* The values of a list that apply passes as arguments are the cells that
\* the pairs hold: a pair, for an element that is a list, and nothing at all
\* (a value of type none) for one that is empty.
Spread(m, arity, args, list) ==
  LET step(s) ==
        IF ~Ok(s.m) \/ s.args >= arity \/ s.rest = Null THEN s
        ELSE LET pair == s.m.heap[s.rest]
             IN  IF pair.type # "cons" THEN [s EXCEPT !.m = Invalid(s.m)]
                 ELSE [m |-> Push(s.m, IF pair.car = Null THEN Blank ELSE s.m.heap[pair.car]),
                       args |-> s.args + 1, rest |-> pair.cdr]
      at[n \in 0 .. arity] ==
        IF n = 0 THEN [m |-> m, args |-> args, rest |-> list] ELSE step(at[n - 1])
  IN  at[arity]

Apply(m, i, args) ==
  LET s == Unwrapped(m, i, args)
      list == At(s.m, 1)
      spread == Spread(Pop(s.m, 1), s.f.arity, s.args, list.list)
  IN  Reads(m, {i},
        IF ~Ok(s.m) THEN s.m
        ELSE IF s.f.type # "closure" THEN Invalid(s.m)
        ELSE IF list.type # "list" THEN Invalid(Pop(s.m, 1))
        ELSE IF ~Ok(spread.m) THEN spread.m
        ELSE Enter(Arguments(spread.m, s.f, spread.args, spread.rest), s.f, Slot(m, i)))

\* A subroutine of the code that is running.
Call(m, base) == [m EXCEPT !.frames = Append(@, CallFrame(m, Null, base))]

CCall(m, key) ==
  IF key \notin DOMAIN m.globals THEN Invalid(m)
  ELSE LET f == m.heap[m.globals[key]]
       IN  IF f.type = "function" THEN Callback(m, f.callback) ELSE Fault(m)

\* call_stack_pop: with no frame left the program halts.
Leave(m) ==
  IF ~Ok(m) THEN m
  ELSE IF m.frames = << >> THEN [m EXCEPT !.status = "halt"]
  ELSE [m EXCEPT !.frames = Front(@), !.ip = Last(m.frames).ip]

\* The result, on top, is put in the place of the callee.
Return(m, count) ==
  LET popped == Pop(m, count)
  IN  Leave(IF popped.stack = << >> THEN popped ELSE Push(Pop(popped, 1), At(m, 1)))

=============================================================================
