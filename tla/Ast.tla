-------------------------------- MODULE Ast --------------------------------
(***************************************************************************)
(* The syntax tree the parser hands to the type checker and the compiler   *)
(* (src/compiler/ast.zig).                                                 *)
(***************************************************************************)
EXTENDS Eager, Values

\* Expressions
Lit(v) == [node |-> "lit", value |-> v]
Ident(x) == [node |-> "ident", name |-> x]
Binary(op, l, r) == [node |-> "binary", op |-> op, left |-> l, right |-> r]
Unary(op, e) == [node |-> "unary", op |-> op, operand |-> e]
CallTo(f, args) == [node |-> "call", callee |-> f, args |-> args]
Assign(e, value) == [node |-> "assign", target |-> e, value |-> value]
VecLit(items) == [node |-> "vec_lit", items |-> items]
Index(e, i) == [node |-> "index", object |-> e, idx |-> i]
StructLit(type, fields) == [node |-> "struct_lit", type |-> type, fields |-> fields] \* <<name, expression>> pairs
Field(e, f) == [node |-> "field", object |-> e, name |-> f]
Try(e) == [node |-> "try_expr", operand |-> e]

\* Statements
\* An optional type annotation is a sequence: empty, or with the one node that stands there.
Let(mutable, x, type, e) ==
  [node |-> "let", mutable |-> mutable, name |-> x, type |-> type, value |-> e]
Declare(mutable, x, type) == [node |-> "let_nil", mutable |-> mutable, name |-> x, type |-> type]
Do(e) == [node |-> "expr", expr |-> e]
\* A block is a sequence of statements; branches are <<condition, block>> pairs,
\* the if and its elifs.
IfElse(branches, block) == [node |-> "if", branches |-> branches, otherwise |-> block]
Loop(block) == [node |-> "loop", body |-> block]
For(x, e, block) == [node |-> "for", name |-> x, iterable |-> e, body |-> block]
Continue == [node |-> "continue"]
Esc == [node |-> "esc"]
Ret(e) == [node |-> "ret", value |-> e]
RetNothing == [node |-> "ret_nothing"]
Fun(public, f, params, types, returns, block) ==
  [node |-> "fun", public |-> public, name |-> f, params |-> params, types |-> types,
   returns |-> returns, body |-> block]
TypeDecl(x) == [node |-> "type_decl", name |-> x]
Use(path) == [node |-> "use", path |-> path]

\* The name of the global that a call of e loads: an identifier, or a dotted name
\* of identifiers.  Nothing else can be called, and has the empty name.
RECURSIVE CalleeName(_)
CalleeName(e) == CASE e.node = "ident" -> e.name
                   [] e.node = "field" /\ CalleeName(e.object) # "" -> CalleeName(e.object) \o "." \o e.name
                   [] OTHER -> ""
=============================================================================
