-------------------------------- MODULE Asa ---------------------------------
(***************************************************************************)
(* The syntax tree (compiler/src/asa.c) that the parser's actions build    *)
(* from a text (compiler/src/parser.y), and the number of instructions     *)
(* that each node announces before any is generated.                       *)
(*                                                                         *)
(* A text is given by the same records as the tree, without the counts:    *)
(*   tag     the rule, named as the node that it makes                     *)
(*   id, op  an identifier; an operator, or a second identifier            *)
(*   n       an integer                                                    *)
(*   kids    expressions                                                   *)
(*   body    statements (of a test: those of the THEN), alt those of ELSE  *)
(*   new     whether the statement declares id (VAR, READ[n])              *)
(***************************************************************************)
EXTENDS SymbolTable, FiniteSets

Blank == [tag |-> "Null", id |-> "", op |-> "", n |-> 0, kids |-> << >>,
          body |-> << >>, alt |-> << >>, new |-> FALSE, ninst |-> 0]

Null == Blank
Nop == [Blank EXCEPT !.tag = "Nop"]

\* The process has called exit(1) on an error in the text.
Exited == [Blank EXCEPT !.tag = "Exited"]

\* The compiler reads a list that it has freed: nothing is said of what comes after.
Undefined == [Blank EXCEPT !.tag = "Undefined"]

IsBad(p) == p.tag \in {"Exited", "Undefined"}

Arithmetic == {"OpAdd", "OpSub", "OpMul", "OpDiv", "OpMod"}
Comparative == {"OpGe", "OpGt", "OpLe", "OpLt", "OpEq", "OpNe"}
Logic == {"OpAnd", "OpOr", "OpXor"}

RECURSIVE Total(_)
Total(ps) == IF ps = << >> THEN 0 ELSE Head(ps).ninst + Total(Tail(ps))

\* A list made by asa_list_append, from its last element to its first: one that is a NoOp
\* destroys what follows it and returns it nevertheless.
Freed(ps) == \E i, j \in DOMAIN ps : i < j /\ ps[i].tag = "Nop" /\ ps[j].tag # "Nop"
IsKept(p) == p.tag # "Nop"
AsaList(ps) == SelectSeq(ps, IsKept)

-----------------------------------------------------------------------------
(***************************************************************************)
(* The constructors, for a rule e with the nodes ps of its expressions,    *)
(* when st is the current table.                                           *)
(***************************************************************************)
Node(e, ps, ninst) == [e EXCEPT !.kids = ps, !.ninst = ninst]
NodeOrNop(e, ps, ninst) == IF \E i \in DOMAIN ps : ps[i].tag = "Nop" THEN Nop ELSE Node(e, ps, ninst)

SizeOf(st, id) == Find(st, id).size

IndexNode(e, ps, ninst, st) ==
    IF ~IsArray(st, e.id) THEN Exited
    ELSE IF SizeOf(st, e.id) = 0 THEN Nop
    ELSE NodeOrNop(e, ps, ninst)


OperandCount(rhs) == IF rhs.tag = "Int" THEN 1 ELSE rhs.ninst + 4

BinopCount(op, lhs, rhs) ==
    CASE op \in Arithmetic  -> lhs.ninst + OperandCount(rhs)
      [] op \in Comparative -> lhs.ninst + OperandCount(rhs) + 4
      [] op = "OpAnd"       -> lhs.ninst + rhs.ninst + 3
      [] op = "OpOr"        -> lhs.ninst + rhs.ninst + 4
      [] op = "OpXor"       -> lhs.ninst + rhs.ninst + 10

IntListNode(e, ps, st) ==
    LET list == AsaList(ps)
    IN  IF ~IsArray(st, e.id) THEN Exited
        ELSE IF SizeOf(st, e.id) # Len(list) THEN Exited
        ELSE IF list = << >> THEN Nop
        ELSE Node(e, list, 3 + Total(list) + 2 * Len(list))

CopyNode(e, st) ==
    IF ~IsArray(st, e.id) \/ ~IsArray(st, e.op) THEN Exited
    ELSE IF SizeOf(st, e.id) # SizeOf(st, e.op) THEN Exited
    ELSE Node(e, << >>, 3 + 5 * SizeOf(st, e.id))

ArrayNode(e, st) == IndexNode(e, << >>, 3 + 3 * SizeOf(st, e.id), st)

CallNode(e, ps) == Node(e, AsaList(ps), 18 + Total(ps) + 6 * Len(AsaList(ps)))

ReturnNode(e, ps) ==
    LET exprs == AsaList(ps) IN Node(e, exprs, 4 + (IF exprs = << >> THEN 1 ELSE Total(exprs)))

\* Nothing is built from what could not be built.
Bad(ps) == ps[CHOOSE i \in DOMAIN ps : IsBad(ps[i]) /\ \A j \in 1..(i - 1) : ~IsBad(ps[j])]
AnyBad(ps) == \E i \in DOMAIN ps : IsBad(ps[i])

Make(e, ps, st) ==
    CASE AnyBad(ps) -> Bad(ps)
      [] e.tag \in {"FnCall", "AssignIntList"} /\ Freed(ps) -> Undefined
      [] OTHER ->
    CASE e.tag = "Int"           -> Node(e, << >>, 1)
      [] e.tag = "Len"           -> IF ~IsArray(st, e.id) THEN Exited
                                    ELSE [Blank EXCEPT !.tag = "Int", !.n = SizeOf(st, e.id), !.ninst = 1]
      [] e.tag = "Var"           -> IF ~IsScalar(st, e.id) THEN Exited ELSE Node(e, << >>, 3)
      [] e.tag = "Index"         -> IndexNode(e, ps, 3 + (IF ps[1].tag = "Int" THEN 0 ELSE ps[1].ninst), st)
      [] e.tag = "BinaryOp"      -> NodeOrNop(e, ps, BinopCount(e.op, ps[1], ps[2]))
      [] e.tag = "UnaryOp"       -> NodeOrNop(e, ps, Total(ps) + (IF e.op = "OpNeg" THEN 3 ELSE 4))
      [] e.tag = "FnCall"        -> CallNode(e, ps)
      [] e.tag = "Declare"       -> Nop
      [] e.tag = "AssignScalar"  -> IF ~IsScalar(st, e.id) THEN Exited ELSE NodeOrNop(e, ps, Total(ps) + 6)
      [] e.tag = "AssignIndexed" -> IndexNode(e, ps, Total(ps) + 8, st)
      [] e.tag = "AssignIntList" -> IntListNode(e, ps, st)
      [] e.tag = "AssignArray"   -> CopyNode(e, st)
      [] e.tag = "Read"          -> IF ~IsScalar(st, e.id) THEN Exited ELSE Node(e, << >>, 5)
      [] e.tag = "ReadIndexed"   -> IndexNode(e, ps, Total(ps) + 5, st)
      [] e.tag = "ReadArray"     -> ArrayNode(e, st)
      [] e.tag = "PrintArray"    -> ArrayNode(e, st)
      [] e.tag = "Print"         -> NodeOrNop(e, ps, Total(ps) + 1)
      [] e.tag = "Return"        -> ReturnNode(e, ps)
-----------------------------------------------------------------------------
(***************************************************************************)
(* The rules of the grammar, bottom-up and from the left to the right.     *)
(***************************************************************************)
RECURSIVE Built(_, _)
Built(e, st) == Make(e, [i \in DOMAIN e.kids |-> Built(e.kids[i], st)], st)

BuiltKids(s, st) == [i \in DOMAIN s.kids |-> Built(s.kids[i], st)]

\* The size of the variable that s declares.
NewSize(s, st) ==
    CASE s.tag = "AssignScalar"  -> ScalarSize
      [] s.tag = "AssignIntList" -> Len(AsaList(BuiltKids(s, st)))
      [] s.tag = "AssignArray"   -> IF IsArray(st, s.op) THEN SizeOf(st, s.op) ELSE ScalarSize
      [] OTHER                   -> s.n

\* The current table after s, whose expressions are built before its variable is created.
Declared(s, st) ==
    IF s.new /\ ~Has(st, s.id) THEN Create(st, s.id, NewSize(s, st))
    ELSE IF s.tag = "Read" /\ ~Has(st, s.id) THEN Create(st, s.id, ScalarSize)
    ELSE st

\* The whole function is one scope: what a block declares stays declared.
RECURSIVE TableAfter(_, _)
TableAfter(ss, st) ==
    IF ss = << >> THEN st
    ELSE TableAfter(Tail(ss), Declared(Head(ss), TableAfter(Head(ss).body \o Head(ss).alt, st)))

TestNode(s, expr, therefore, alternative) ==
    LET ps == <<expr, therefore, alternative>>
    IN  IF AnyBad(ps) THEN Bad(ps)
        ELSE IF (therefore = Null /\ alternative = Null) \/ expr = Nop THEN Nop
        ELSE [Node(s, ps, expr.ninst + 1 + therefore.ninst
                              + (IF alternative = Null THEN 2 ELSE 4 + alternative.ninst))
                  EXCEPT !.body = << >>, !.alt = << >>]

WhileNode(s, expr, body) ==
    LET ps == <<expr, body>>
    IN  IF AnyBad(ps) THEN Bad(ps)
        ELSE IF body = Null \/ expr = Nop THEN Nop
        ELSE [Node(s, ps, expr.ninst + body.ninst + 2) EXCEPT !.body = << >>]

\* make_block_node, of a statement that is no block and of nothing or a block.
BlockNode(p, q) ==
    IF AnyBad(<<p, q>>) THEN Bad(<<p, q>>)
    ELSE IF p \in {Null, Nop} THEN q
    ELSE IF p.tag = "BinaryOp" /\ p.op = "OpEq" THEN Exited
    ELSE [Blank EXCEPT !.tag = "Block", !.kids = <<p, q>>, !.ninst = p.ninst + 1 + q.ninst]

RECURSIVE Statement(_, _), Statements(_, _)
Statement(s, st) ==
    CASE s.tag = "Test"  -> TestNode(s, Built(s.kids[1], st), Statements(s.body, st),
                                     Statements(s.alt, TableAfter(s.body, st)))
      [] s.tag = "While" -> WhileNode(s, Built(s.kids[1], st), Statements(s.body, st))
      [] s.new /\ (Has(st, s.id) \/ (s.tag = "AssignArray" /\ ~IsArray(st, s.op))) -> Exited
      [] OTHER           -> Make(s, BuiltKids(s, st), Declared(s, st))

Statements(ss, st) ==
    IF ss = << >> THEN Null
    ELSE BlockNode(Statement(Head(ss), st), Statements(Tail(ss), Declared(Head(ss),
                       TableAfter(Head(ss).body \o Head(ss).alt, st))))

\* A function f, whose parameters are the first variables of the current table st.
ParamTable(f, st) ==
    [st EXCEPT !.symbols = @ \o [i \in DOMAIN f.params |->
                   [identifier |-> f.params[i], base_adr |-> st.mem_offset + i - 1, size |-> ScalarSize]],
               !.mem_offset = @ + Len(f.params)]

DuplicateParams(f, st) ==
    \E i \in DOMAIN f.params : Has(st, f.params[i]) \/ \E j \in 1..(i - 1) : f.params[i] = f.params[j]

FnBody(f, st) == IF DuplicateParams(f, st) THEN Exited ELSE Statements(f.body, ParamTable(f, st))

FnNode(f, st) ==
    [identifier |-> f.id, params |-> f.params, body |-> FnBody(f, st),
     st |-> TableAfter(f.body, ParamTable(f, st)), ninst |-> 8 + FnBody(f, st).ninst]
=============================================================================
