------------------------------- MODULE MCDuck -------------------------------
(***************************************************************************)
(* Kinds of programs for DuckVM, each small enough to run all of: every    *)
(* sequence of a few instructions, in a heap of a few cells of which the   *)
(* program's code takes one.                                               *)
(***************************************************************************)
EXTENDS DuckVM

\* A kind whose programs make no closures and store nothing.
Plain(instructions, literals) ==
  [instructions |-> instructions, literals |-> literals, captures |-> {},
   signatures |-> {}, keys |-> {}, callbacks |-> << >>, foreign |-> FALSE,
   recaptures |-> FALSE,
   objects |-> MaxObjects, memory |-> "scarce", stack |-> 3, calls |-> 1]

One == {Integer(1)}
Numbers == {Integer(0), Integer(1)}
Thunk == {[arity |-> 0, variadic |-> FALSE]}
Unary == {[arity |-> 1, variadic |-> FALSE], [arity |-> 1, variadic |-> TRUE]}

\* Pairs, and values kept between programs.
Lists ==
  [Plain({"nil", "pushLiteral", "cons", "car", "cdr", "setCar", "setCdr", "pop",
          "pushGlobal", "setStatic", "return"}, One)
     EXCEPT !.keys = {20}, !.objects = 4]

\* Vectors whose elements are not made while they are filled.
Vectors ==
  [Plain({"pushLiteral", "makeVector", "getVecElt", "setVecElt", "cdr", "setCdr",
          "car", "length", "nullp", "pop", "return"}, Numbers)
     EXCEPT !.objects = 6, !.memory = "enough"]

\* Vectors that are shared and cut, and what was cut off collected.
Cuts ==
  [Plain({"pushLiteral", "makeVector", "move", "pop", "cdr", "setCdr", "getVecElt",
          "return"}, Numbers)
     EXCEPT !.objects = 4, !.memory = "enough"]

\* Strings, symbols and numbers.
Texts ==
  [Plain({"pushString", "pushSymbol", "pushLiteral", "pushIndex", "symbolString",
          "symbolId", "concatenate", "substring", "cdr", "length", "equal", "not",
          "brnz", "pop", "return", "mul", "div", "add", "sub", "greater", "less"}, Numbers)
     EXCEPT !.objects = 4]

\* User types, and what allocates several cells out of sight of the collector.
Instances ==
  [Plain({"pushLiteral", "makeType", "typeof", "makeInstance", "composite",
          "setComposite", "pushClosure", "funcall", "apply", "vector", "nil",
          "makeString", "move", "return"}, One)
     EXCEPT !.captures = { << >> }, !.signatures = Thunk, !.objects = 7, !.memory = "ample"]

\* Closures that share variables, and closures made in closures.
Closures ==
  [Plain({"pushLiteral", "pop", "pushClosure", "pushUpvalue", "setUpvalue",
          "releaseUpvalues", "funcall", "return", "yield"}, One)
     EXCEPT !.captures = { << 2 >>, << 3, 2 >> }, !.signatures = Thunk,
            !.objects = 6, !.memory = "enough", !.stack = 4, !.calls = 2]

\* Calls with arguments, of closures, subroutines and callbacks.
CallKind ==
  [Plain({"pushLiteral", "pushClosure", "funcall", "call", "ccall", "cdr",
          "return", "return0", "yield"}, One)
     EXCEPT !.captures = { << >> }, !.signatures = Unary,
            !.callbacks = << [key |-> 11, callback |-> "writeRegister"],
                             [key |-> 22, callback |-> "writeClock"] >>,
            !.objects = 6, !.memory = "enough", !.stack = 4]

\* Functions kept between programs.
Statics ==
  [Plain({"pushClosure", "pushGlobal", "setStatic", "funcall", "return", "pop"}, {})
     EXCEPT !.captures = { << >> }, !.signatures = Thunk, !.keys = {20},
            !.objects = 6, !.stack = 2]

\* The topmost variable captured by several closures, and with another one.
Tops ==
  [Plain({"pushLiteral", "pop", "pushClosure", "pushUpvalue", "releaseUpvalues",
          "funcall", "return"}, One)
     EXCEPT !.captures = { << 1 >>, << 2, 1 >> }, !.signatures = Thunk,
            !.objects = 6, !.memory = "enough", !.stack = 4]

\* None of the programs makes a float.
Unrounded(n, d) == << n, d >>

MCKinds ==
  [lists |-> Lists, vectors |-> Vectors, cuts |-> Cuts, texts |-> Texts,
   instances |-> Instances, closures |-> Closures, tops |-> Tops, calls |-> CallKind,
   statics |-> Statics]

\* Programs that what the comments say is not true of: vectors filled with
\* several elements, functions of earlier programs that make closures, and
\* functions that capture what the function around them has captured.
Filled == Plain({"pushString", "pop", "vector"}, {})
Foreign ==
  [Plain({"pushClosure", "pushGlobal", "setStatic", "funcall", "return"}, {})
     EXCEPT !.captures = { << >> }, !.signatures = Thunk, !.keys = {20},
            !.foreign = TRUE, !.stack = 2]

Nested ==
  [Plain({"pushLiteral", "pushClosure", "funcall", "return"}, One)
     EXCEPT !.captures = { << 2 >>, << -1 >> }, !.signatures = Thunk,
            !.objects = 6, !.memory = "enough", !.stack = 4]

FilledKinds == [filled |-> Filled]
ForeignKinds == [foreign |-> Foreign]
NestedKinds == [nested |-> Nested]

=============================================================================
