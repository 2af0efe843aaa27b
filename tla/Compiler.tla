------------------------------ MODULE Compiler ------------------------------
(***************************************************************************)
(* A process that compiles one text after the other (arc_compile_file,     *)
(* compiler/src/parser.y, as rame-test calls it), and the machine that     *)
(* runs what it made of the last one.  What the compiler keeps in global   *)
(* variables outlives a compilation.                                       *)
(*                                                                         *)
(* A text is a kind, "functions" or "statements", and a sequence fns of    *)
(* functions [id, params, body]; statements are those of the function main.*)
(***************************************************************************)
EXTENDS Codegen

CONSTANTS
    Sessions,               \* the sequences of texts that a process may compile
    Uninit, None, Inputs, MaxCells, OverflowChecks, MaxOutput, MaxIr    \* as in Ram

VARIABLES
    todo,          \* the texts that are still to be compiled
    text,          \* what infile holds
    pc,            \* where arc_compile_yy is
    status,        \* "running"; "exited"; "internal": exited where the compiler blames itself; "undefined"
    cst,           \* the current symbol table
    parsed,        \* the functions that were parsed
    fn_locations,  \* the functions in the order of their code, with their addresses
    dyn_jump_adr,  \* where the code to return is
    emitted,           \* outfile, and the global dyn_jumps
    given, promised,                                         \* the machine's input; what it should do, if it is known (history)
    input, output, memory, ir, inst, result, driver          \* the machine

compilervars == <<todo, text, pc, status, cst, parsed, fn_locations, dyn_jump_adr, emitted>>
machinevars == <<input, output, memory, ir, inst, result, driver>>
vars == <<compilervars, given, promised, machinevars>>

Machine == INSTANCE Ram WITH Programs <- {}, code <- emitted.code
Language == INSTANCE Algo

NoText == [kind |-> "none", fns |-> << >>]
Nothing == [out |-> << >>, end |-> "none"]

Init ==
    /\ todo \in Sessions
    /\ text = NoText /\ pc = "open" /\ status = "running"
    /\ cst = NullTable /\ parsed = << >> /\ fn_locations = << >> /\ dyn_jump_adr = 0
    /\ emitted = Output(<< >>)
    /\ given = << >> /\ promised = Nothing
    /\ input = << >> /\ output = << >> /\ memory = [a \in {} |-> Uninit] /\ ir = 0
    /\ inst = NOP /\ result = "Ok" /\ driver = "none"

-----------------------------------------------------------------------------
(***************************************************************************)
(* The compiler.                                                           *)
(***************************************************************************)

\* exit(1), or what the compiler reads is undefined.
Exit(how) == status' = how /\ UNCHANGED <<todo, text, pc, parsed, fn_locations, dyn_jump_adr>>

\* The files are opened and an empty table becomes the current one.
Open ==
    /\ pc = "open" /\ todo # << >>
    /\ text' = Head(todo) /\ todo' = Tail(todo)
    /\ emitted' = [emitted EXCEPT !.code = << >>]
    /\ cst' = EmptyTable
    /\ parsed' = << >>
    /\ pc' = "parse"
    /\ UNCHANGED <<status, fn_locations, dyn_jump_adr>>

\* The rule FnScope, or that of a program without functions, which keeps its table.
ParseFn ==
    /\ pc = "parse" /\ Len(parsed) < Len(text.fns)
    /\ LET fn == FnNode(text.fns[Len(parsed) + 1], cst)
       IN  \/ fn.body.tag = "Exited" /\ Exit("exited") /\ UNCHANGED cst
           \/ fn.body.tag = "Undefined" /\ Exit("undefined") /\ UNCHANGED cst
           \/ /\ ~IsBad(fn.body)
              /\ parsed' = Append(parsed, fn)
              /\ cst' = IF text.kind = "functions" THEN EmptyTable ELSE fn.st
              /\ UNCHANGED <<todo, text, pc, status, fn_locations, dyn_jump_adr>>
    /\ UNCHANGED emitted

\* The end of the text: the table that was made for a next function is freed.
ParseEnd ==
    /\ pc = "parse" /\ Len(parsed) = Len(text.fns)
    /\ cst' = IF text.kind = "functions" THEN NullTable ELSE cst
    /\ pc' = "allocate"
    /\ UNCHANGED <<todo, text, status, parsed, fn_locations, dyn_jump_adr, emitted>>

Prologue == <<NOP, Const("LOAD", 4), Dir("STORE", 1)>>

\* main comes first.
MainAt == CHOOSE i \in DOMAIN parsed : /\ parsed[i].identifier = "main"
                                       /\ \A j \in 1..(i - 1) : parsed[j].identifier # "main"
InOrder == <<parsed[MainAt]>> \o SubSeq(parsed, 1, MainAt - 1) \o SubSeq(parsed, MainAt + 1, Len(parsed))

HasMain == \E i \in DOMAIN parsed : parsed[i].identifier = "main"
HasDuplicate == \E i, j \in DOMAIN parsed : i # j /\ parsed[i].identifier = parsed[j].identifier

AdrOf(i) == 3 + Total(SubSeq(InOrder, 1, i - 1))

\* The beginning of codegen_ram, and allocate_fn_space.
Allocate ==
    /\ pc = "allocate"
    /\ emitted' = Emit(emitted, Prologue)
    /\ UNCHANGED cst
    /\ \/ (~HasMain \/ HasDuplicate) /\ Exit("exited")
       \/ /\ HasMain /\ ~HasDuplicate
          /\ fn_locations' = [i \in DOMAIN InOrder |-> [fn |-> InOrder[i], adr |-> AdrOf(i)]]
          /\ dyn_jump_adr' = AdrOf(Len(InOrder) + 1)
          /\ pc' = "generate"
          /\ parsed' = InOrder
          /\ UNCHANGED <<todo, text, status>>

\* codegen_nc of the next function, whose table becomes the current one.
GenerateFn ==
    /\ pc = "generate" /\ parsed # << >>
    /\ cst' = Head(parsed).st
    /\ LET new == GenFn(Head(parsed), emitted, [st |-> cst', fns |-> fn_locations, dyn |-> dyn_jump_adr])
       IN  /\ emitted' = [new EXCEPT !.err = "none"]
           /\ \/ new.err # "none" /\ Exit(new.err)
              \/ /\ new.err = "none"
                 /\ parsed' = Tail(parsed)
                 /\ UNCHANGED <<todo, text, pc, status, fn_locations, dyn_jump_adr>>

\* A bug: the list of return addresses is not destroyed.
FinishKeepsDynJumps ==
    /\ pc = "generate" /\ parsed = << >>
    /\ emitted' = Emit(emitted, DynJumpCode(emitted.dyn_jumps))
    /\ cst' = NullTable
    /\ pc' = IF todo = << >> THEN "compiled" ELSE "open"
    /\ UNCHANGED <<todo, text, status, parsed, fn_locations, dyn_jump_adr>>

\* The end of codegen_ram; the functions are freed with their tables.
Finish ==
    /\ pc = "generate" /\ parsed = << >>
    /\ emitted' = [Emit(emitted, DynJumpCode(emitted.dyn_jumps)) EXCEPT !.dyn_jumps = << >>]
    /\ cst' = NullTable
    /\ pc' = IF todo = << >> THEN "compiled" ELSE "open"
    /\ UNCHANGED <<todo, text, status, parsed, fn_locations, dyn_jump_adr>>

Compile ==
    /\ status = "running"
    /\ Open \/ ParseFn \/ ParseEnd \/ Allocate \/ GenerateFn \/ Finish
    /\ UNCHANGED <<given, promised, machinevars>>

-----------------------------------------------------------------------------
(***************************************************************************)
(* The machine, of what was made of the last text.                         *)
(***************************************************************************)

\* What the frames allow: every function that is called has one variable, and no list of
\* values calls one (see the README for both).
RECURSIVE Within(_)
Within(p) == {p} \cup UNION { Within(p.kids[i]) : i \in DOMAIN p.kids }
Nodes == UNION { Within(fn_locations[i].fn.body) : i \in DOMAIN fn_locations }
Calls == { p \in Nodes : p.tag = "FnCall" }
OneCell == \A p \in Calls :
    GetFn([fns |-> fn_locations], p.id).fn.st.mem_offset = 1
NoCallInList == \A p \in Nodes : p.tag = "AssignIntList" => \A q \in Within(p) : q.tag # "FnCall"
Supported == OneCell /\ NoCallInList

\* A bug: constants that do not fit are not noticed.
NewMachineUnchecked ==
    /\ pc = "compiled" /\ driver = "none"
    /\ given' \in Inputs /\ input' = given'
    /\ promised' = Nothing
    /\ inst' = At(emitted.code, 0)
    /\ driver' = "running"
    /\ UNCHANGED <<compilervars, output, memory, ir, result>>

\* The cast to the machine's width, which panics if a constant does not fit, and Ram::new.
NewMachine ==
    /\ pc = "compiled" /\ driver = "none"
    /\ \E answers \in Inputs :
        /\ given' = answers
        /\ input' = answers
        /\ promised' = IF Supported THEN Language!Meaning(fn_locations, answers) ELSE Nothing
    /\ inst' = At(emitted.code, 0)
    /\ driver' = IF CastFits(emitted.code, MaxInt) THEN "running" ELSE "panicked"
    /\ UNCHANGED <<compilervars, output, memory, ir, result>>

RunMachine == UNCHANGED <<compilervars, given, promised>> /\ Machine!RunIteration

Next == Compile \/ NewMachine \/ RunMachine

\* run() loops without waiting for anything but its input, which answers: weak fairness of
\* RunMachine, which a running machine can always take (written without ENABLED, which TLC
\* takes too long to evaluate for it).
Fairness == []<>(driver # "running") \/ []<><<RunMachine>>_vars

Spec == Init /\ [][Next]_vars /\ Fairness

-----------------------------------------------------------------------------
(***************************************************************************)
(* Properties.                                                             *)
(***************************************************************************)

Ended == driver \in {"idle", "exited"}

CompilerTypeOK ==
    /\ pc \in {"open", "parse", "allocate", "generate", "compiled"}
    /\ status \in {"running", "exited", "internal", "undefined"}
    /\ emitted.dyn_jumps \in Seq(Nat) /\ emitted.err = "none"
    /\ driver \in {"none", "running", "idle", "exited", "panicked", "undefined"}
    /\ driver = "running" => emitted.code \in Seq(Instruction)


\* A text compiled after others gives the code that it gives alone: nothing that the compiler
\* keeps in global variables gets from one file of the test harness to the next.
FnsOf(locs) == [i \in DOMAIN locs |-> locs[i].fn]
RECURSIVE AllFns(_, _)
AllFns(locs, o) == IF locs = << >> THEN o
                   ELSE AllFns(Tail(locs), GenFn(Head(locs).fn, o,
                            [st |-> Head(locs).fn.st, fns |-> fn_locations, dyn |-> dyn_jump_adr]))
AloneFns == [i \in DOMAIN text.fns |-> FnNode(text.fns[i], EmptyTable)]
CodeAlone ==
    LET o == AllFns(fn_locations, Output(Prologue)) IN o.code \o DynJumpCode(o.dyn_jumps)
CompiledAsIfAlone ==
    pc = "compiled" /\ driver = "none" =>
        /\ { fn_locations[i].fn : i \in DOMAIN fn_locations } = { AloneFns[i] : i \in DOMAIN AloneFns }
        /\ emitted.code = CodeAlone

\* A compiled program does what its text says: temporaries never meet variables or each other,
\* jumps go where they should and every call comes back to where it was made.
DoesAsWritten ==
    Ended =>
        /\ promised.end = "stop" => driver = "idle" /\ result = "Ok" /\ output = promised.out
        /\ promised.end = "eof"  => driver = "exited" /\ result = "ReadEof" /\ output = promised.out

\* It does so in the end.
ProgramsEnd == driver = "running" /\ promised.end \in {"stop", "eof"} ~> Ended

\* The last instruction is never reached ("STOP ; UNREACHABLE"): the return address of every
\* call is in the list that is searched for it.
ReturnIsFound == promised.end \in {"stop", "eof"} => ir # Len(emitted.code) - 1

\* When main has run to its end, its frame is where it was and every temporary is free.
MainAtEnd == driver = "idle" /\ ir = fn_locations[1].adr + fn_locations[1].fn.ninst - 1
FrameIsRestored == MainAtEnd => memory[1] = 4 /\ memory[2] = 4 + fn_locations[1].fn.st.mem_offset
SupportedFrameIsRestored == MainAtEnd /\ Supported => FrameIsRestored
=============================================================================
