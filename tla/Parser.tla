------------------------------- MODULE Parser -------------------------------
(***************************************************************************)
(* The lines of a source become tokens (src/compiler/scanner.zig), and the *)
(* tokens a tree (src/compiler/parser.zig).                                *)
(*                                                                         *)
(* The scanner turns what a line is indented by into indent and dedent     *)
(* tokens.  One stack, indent_stack, holds the open indentations and, for  *)
(* every open parenthesis, a sentinel under which indentation is not       *)
(* looked at.  How characters group into numbers, names, strings and       *)
(* operators is left out: a line is the column of its first character (a   *)
(* tab counts four) and the tokens on it, without its comment.  A token is *)
(* a tuple of its tag and what it stands for.                              *)
(*                                                                         *)
(* The parser is recursive descent for declarations and statements,        *)
(* precedence climbing for expressions.  Its state: the tokens that are    *)
(* left, the current one first; the node parsed last; whether there was an *)
(* error, after which parse returns ParseError whatever follows.           *)
(***************************************************************************)
EXTENDS Ast

(* The scanner *)

Line(col, toks) == [col |-> col, toks |-> toks]
\* A blank line, or a comment of its own.
EmptyLine == Line(0, <<>>)
\* Spaces up to the end of the file count as a line.
EndOfFile == <<"end_of_file">>

Sentinel == 99 \* 0xFFFFFFFF in the source: above every column

\* The state: indent_stack, and the tokens so far.
Innermost(s) == Last(s.indents)
\* Faulty variant: indentation counts in parentheses too.
NeverInParens(s) == FALSE
InParens(s) == Len(s.indents) > 1 /\ Innermost(s) = Sentinel

Give(s, tok) == [s EXCEPT !.toks = Append(@, tok)]

\* Every indentation deeper than col is closed, but not the first.
CloseDeeper(s, col) ==
  LET open == CHOOSE d \in 1 .. Len(s.indents) :
                /\ d = 1 \/ s.indents[d] <= col
                /\ \A e \in d + 1 .. Len(s.indents) : s.indents[e] > col
  IN  [s EXCEPT !.indents = SubSeq(@, 1, open),
                !.toks = @ \o [d \in 1 .. Len(s.indents) - open |-> <<"dedent">>]]

\* handleIndent.  After an error the scanner is still at the start of a line, but its
\* spaces are behind: the next call takes it for a line that is not indented.
HandleIndent(s, col) ==
  CASE col > Innermost(s) -> Give([s EXCEPT !.indents = Append(@, col)], <<"indent">>)
    [] col = Innermost(s) -> s
    [] OTHER -> With(CloseDeeper(s, col), LAMBDA closed :
                  IF Innermost(closed) = col THEN closed
                  ELSE CloseDeeper(Give(closed, <<"err">>), 0))

ScanToken(s, tok) ==
  CASE tok = <<"lparen">> -> Give([s EXCEPT !.indents = Append(@, Sentinel)], tok)
    [] tok = <<"rparen">> -> Give(IF InParens(s) THEN [s EXCEPT !.indents = Front(@)] ELSE s, tok)
    [] tok = EndOfFile    -> s
    [] OTHER              -> Give(s, tok)

ScanLine(s, line) ==
  IF line.toks = <<>> THEN s
  ELSE Give(Each(ScanToken, IF InParens(s) THEN s ELSE HandleIndent(s, line.col), line.toks), <<"newline">>)

\* All tokens of a source.  At its end a dedent stands for everything that is open,
\* parentheses among them.
Scan(source) ==
  With(Each(ScanLine, [indents |-> <<0>>, toks |-> <<>>], source), LAMBDA s :
    Append(s.toks \o [d \in 1 .. Len(s.indents) - 1 |-> <<"dedent">>], <<"eof">>))

-----------------------------------------------------------------------------
(* The parser *)

\* Which identifiers begin with a capital letter.
Capitalized == {"User"}

Tag(p) == Head(p.rest)[1]
Lexeme(p) == Head(p.rest)[2]
Parsed(p, node) == [p EXCEPT !.node = node]
Refuse(p) == [p EXCEPT !.failed = TRUE]
\* next(p), unless there was an error.
And(p, next(_)) == With(p, LAMBDA q : IF q.failed THEN q ELSE next(q))

\* The end of the file stays.
Advance(p) == IF Len(p.rest) = 1 THEN p ELSE [p EXCEPT !.rest = Tail(@)]
Consume(p, tag) == IF Tag(p) = tag THEN Advance(p) ELSE Refuse(p)
ConsumeIdent(p) == IF Tag(p) = "ident" THEN Advance(Parsed(p, Lexeme(p))) ELSE Refuse(p)

-----------------------------------------------------------------------------
(* getRule *)

InfixOps == [plus |-> "add", minus |-> "sub", star |-> "mul", slash |-> "div", percent |-> "mod",
              eq_eq |-> "eq", bang_eq |-> "neq", gt |-> "gt", lt |-> "lt", gt_eq |-> "gte", lt_eq |-> "lte",
              and_and |-> "and", pipe_pipe |-> "or"]
PrefixOps == [minus |-> "neg", bang |-> "not"]

\* The levels of Precedence that are asked for by name.
AnyLevel == 1 \* assignment
UnaryLevel == 8
CallLevel == 9
PrimaryLevel == 10

\* The level at which a token continues an expression; 0 if it does not.
LevelOf(tag) ==
  CASE tag = "pipe_pipe"                           -> 2
    [] tag = "and_and"                             -> 3
    [] tag \in {"eq_eq", "bang_eq"}                -> 4
    [] tag \in {"gt", "lt", "gt_eq", "lt_eq"}      -> 5
    [] tag \in {"plus", "minus"}                   -> 6
    [] tag \in {"star", "slash", "percent"}        -> 7
    [] tag \in {"lparen", "lbracket", "dot", "question"} -> CallLevel
    [] OTHER                                       -> 0

-----------------------------------------------------------------------------
(* Expressions *)

RECURSIVE ParsePrecedence(_, _)
Expression(p) == ParsePrecedence(p, AnyLevel)

\* Expressions with commas between them, up to the token close.
RECURSIVE Listed(_, _)
Listed(p, before) ==
  And(Expression(p), LAMBDA q :
    IF Tag(q) = "comma" THEN Listed(Advance(q), Append(before, q.node))
    ELSE Parsed(q, Append(before, q.node)))
ExpressionList(p, close) ==
  And(IF Tag(p) = close THEN Parsed(p, <<>>) ELSE Listed(p, <<>>), LAMBDA q : Consume(q, close))

RECURSIVE SkipLayout(_)
SkipLayout(p) == With(p, LAMBDA q : IF Tag(q) \in {"indent", "dedent"} THEN SkipLayout(Advance(q)) ELSE q)

\* structLiteral: name: value, with or without commas between them.
RECURSIVE Fields(_, _)
Fields(p, before) ==
  With(SkipLayout(p), LAMBDA q :
    IF Tag(q) = "rparen" THEN Parsed(q, before)
    ELSE And(ConsumeIdent(q), LAMBDA name :
         And(Consume(name, "colon"), LAMBDA colon :
         And(Expression(colon), LAMBDA value :
         With(SkipLayout(value), LAMBDA after :
         With(IF Tag(after) = "comma" THEN SkipLayout(Advance(after)) ELSE after, LAMBDA next :
           LET fields == Append(before, <<name.node, value.node>>)
           IN  IF Tag(next) = "ident" THEN Fields(next, fields) ELSE Parsed(next, fields)))))))
StructLiteral(p, type) == And(Fields(p, <<>>), LAMBDA q : Consume(Parsed(q, StructLit(type, q.node)), "rparen"))

\* The prefix parselet of the token before p.
Prefix(p, tok) ==
  CASE tok[1] = "lparen"   -> And(Expression(p), LAMBDA q : Consume(q, "rparen"))
    [] tok[1] = "lbracket" -> And(ExpressionList(p, "rbracket"), LAMBDA q : Parsed(q, VecLit(q.node)))
    [] tok[1] \in DOMAIN PrefixOps ->
         And(ParsePrecedence(p, UnaryLevel), LAMBDA q : Parsed(q, Unary(PrefixOps[tok[1]], q.node)))
    [] tok[1] = "literal"  -> Parsed(p, Lit(tok[2]))
    [] tok[1] = "ident"    -> Parsed(p, Ident(tok[2]))
    [] OTHER               -> Refuse(p)

IsStructLiteral(callee) == callee.node = "ident" /\ callee.name \in Capitalized

\* What follows a binary operator binds tighter than it.
RightLevel(tag) == LevelOf(tag) + 1

\* The infix parselet of the token tag before p; left is what stands before it.
Infix(p, tag, left) ==
  CASE tag \in DOMAIN InfixOps ->
         And(ParsePrecedence(p, RightLevel(tag)), LAMBDA q : Parsed(q, Binary(InfixOps[tag], left, q.node)))
    [] tag = "lparen" -> IF IsStructLiteral(left) THEN StructLiteral(p, left.name)
                         ELSE And(ExpressionList(p, "rparen"), LAMBDA q : Parsed(q, CallTo(left, q.node)))
    [] tag = "lbracket" -> And(Expression(p), LAMBDA q : Consume(Parsed(q, Index(left, q.node)), "rbracket"))
    [] tag = "dot" -> And(ConsumeIdent(p), LAMBDA q : Parsed(q, Field(left, q.node)))
    [] tag = "question" -> Parsed(p, Try(left))

RECURSIVE Infixes(_, _)
Infixes(p, level) == IF LevelOf(Tag(p)) < level THEN p
                     ELSE And(Infix(Advance(p), Tag(p), p.node), LAMBDA q : Infixes(q, level))

ParsePrecedence(p, level) == With(p, LAMBDA q : And(Prefix(Advance(q), Head(q.rest)), LAMBDA r : Infixes(r, level)))

-----------------------------------------------------------------------------
(* Declarations and statements.  p is at the token that says which one it is. *)

RECURSIVE Statement(_)

\* Statements up to a dedent or the end of the file.
RECURSIVE Statements(_, _)
Statements(p, before) ==
  IF Tag(p) \in {"dedent", "eof"} THEN Parsed(p, before)
  ELSE And(Statement(p), LAMBDA q : Statements(q, Append(before, q.node)))

Block(p) == And(Consume(p, "indent"), LAMBDA q :
            And(Statements(q, <<>>), LAMBDA r : Consume(r, "dedent")))

\* A type, unless one of the tokens in ends stands in its place: any primary expression
\* will do.
Annotation(p, ends) ==
  IF Tag(p) \in ends THEN Parsed(p, <<>>)
  ELSE And(ParsePrecedence(p, PrimaryLevel), LAMBDA q : Parsed(q, <<q.node>>))

\* letDecl.  No newline gets here, so that without a value a type or the end of
\* the file has to follow.
LetDecl(p) ==
  LET mutable == Tag(p) = "kw_mut"
  IN  And(ConsumeIdent(Advance(p)), LAMBDA name :
      And(Annotation(name, {"eq", "newline", "eof"}), LAMBDA type :
        IF Tag(type) # "eq" THEN Parsed(type, Declare(mutable, name.node, type.node))
        ELSE And(Expression(Advance(type)), LAMBDA value :
               Parsed(value, Let(mutable, name.node, type.node, value.node)))))

\* Pairs of a name and its type.
RECURSIVE Params(_, _)
Params(p, before) ==
  And(ConsumeIdent(p), LAMBDA name :
  And(Annotation(name, {"comma", "rparen"}), LAMBDA type :
    LET params == Append(before, <<name.node, type.node>>)
    IN  IF Tag(type) = "comma" THEN Params(Advance(type), params) ELSE Parsed(type, params)))

Column(pairs, c) == [i \in 1 .. Len(pairs) |-> pairs[i][c]]
FunDecl(p, public) ==
  And(ConsumeIdent(Advance(p)), LAMBDA name :
  And(Consume(name, "lparen"), LAMBDA open :
  And(IF Tag(open) = "rparen" THEN Parsed(open, <<>>) ELSE Params(open, <<>>), LAMBDA params :
  And(Consume(params, "rparen"), LAMBDA close :
  And(Annotation(close, {"newline", "indent"}), LAMBDA type :
  And(Block(type), LAMBDA body :
    Parsed(body, Fun(public, name.node, Column(params.node, 1), Column(params.node, 2), type.node, body.node))))))))

PubDecl(p) == With(Advance(p), LAMBDA q : IF Tag(q) = "kw_fun" THEN FunDecl(q, TRUE) ELSE Refuse(q))

RECURSIVE TypeFields(_)
TypeFields(p) == IF Tag(p) \in {"dedent", "eof"} THEN p
                 ELSE And(ConsumeIdent(p), LAMBDA name : And(Annotation(name, {}), TypeFields))
ParseTypeDecl(p) ==
  And(ConsumeIdent(Advance(p)), LAMBDA name :
  And(Consume(name, "indent"), LAMBDA open :
  And(TypeFields(open), LAMBDA fields : Consume(Parsed(fields, TypeDecl(name.node)), "dedent"))))

UseDecl(p) == And(ConsumeIdent(Advance(p)), LAMBDA path : Parsed(path, Use(path.node)))

\* A condition and its block; p is at the if or the elif.
Branch(p) == And(Expression(Advance(p)), LAMBDA cond :
             And(Block(cond), LAMBDA body : Parsed(body, <<cond.node, body.node>>)))
RECURSIVE Branches(_, _)
Branches(p, before) ==
  And(Branch(p), LAMBDA q :
    IF Tag(q) = "kw_elif" THEN Branches(q, Append(before, q.node))
    ELSE Parsed(q, Append(before, q.node)))
IfStmt(p) ==
  And(Branches(p, <<>>), LAMBDA q :
    IF Tag(q) # "kw_else" THEN Parsed(q, IfElse(q.node, <<>>))
    ELSE And(Block(Advance(q)), LAMBDA r : Parsed(r, IfElse(q.node, r.node))))

LoopStmt(p) == And(Block(Advance(p)), LAMBDA q : Parsed(q, Loop(q.node)))

ForStmt(p) ==
  And(ConsumeIdent(Advance(p)), LAMBDA name :
  And(ConsumeIdent(name), LAMBDA in :
    IF in.node # "in" THEN Refuse(in)
    ELSE And(Expression(in), LAMBDA e :
         And(Block(e), LAMBDA body : Parsed(body, For(name.node, e.node, body.node))))))

\* retStmt.  As in LetDecl, what follows on the next line is the value.
RetStmt(p) ==
  With(Advance(p), LAMBDA q :
    IF Tag(q) \in {"newline", "eof", "dedent"} THEN Parsed(q, RetNothing)
    ELSE And(Expression(q), LAMBDA e : Parsed(e, Ret(e.node))))

ExpressionStatement(p) ==
  And(Expression(p), LAMBDA e :
    IF Tag(e) # "eq" THEN Parsed(e, Do(e.node))
    ELSE And(Expression(Advance(e)), LAMBDA value : Parsed(value, Do(Assign(e.node, value.node)))))

Statement(p) ==
  CASE Tag(p) \in {"kw_let", "kw_mut"} -> LetDecl(p)
    [] Tag(p) = "kw_fun"      -> FunDecl(p, FALSE)
    [] Tag(p) = "kw_pub"      -> PubDecl(p)
    [] Tag(p) = "kw_type"     -> ParseTypeDecl(p)
    [] Tag(p) = "kw_use"      -> UseDecl(p)
    [] Tag(p) = "kw_if"       -> IfStmt(p)
    [] Tag(p) \in {"kw_elif", "kw_else"} -> Refuse(p)
    [] Tag(p) = "kw_loop"     -> LoopStmt(p)
    [] Tag(p) = "kw_for"      -> ForStmt(p)
    [] Tag(p) = "kw_continue" -> Advance(Parsed(p, Continue))
    [] Tag(p) = "kw_esc"      -> Advance(Parsed(p, Esc))
    [] Tag(p) = "kw_ret"      -> RetStmt(p)
    [] OTHER                  -> ExpressionStatement(p)

\* advanceRaw drops newlines and errors, and remembers that there was an error.
Parse(toks) ==
  With(SelectSeq(toks, LAMBDA tok : tok[1] \notin {"newline", "err"}), LAMBDA kept :
  With([rest |-> kept, node |-> <<>>, failed |-> FALSE], LAMBDA start :
  With(Statements(start, <<>>), LAMBDA p :
    [stmts |-> p.node, failed |-> p.failed \/ Tag(p) # "eof" \/ <<"err">> \in ToSet(toks)])))
=============================================================================
