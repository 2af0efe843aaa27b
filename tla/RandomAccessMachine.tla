------------------------ MODULE RandomAccessMachine ------------------------
(***************************************************************************)
(* What an emulator of the random-access machine promises, whatever way it *)
(* stores its memory and in whatever order it evaluates operands: an       *)
(* instruction has its whole effect on a file of registers, those that a   *)
(* memory can reach, or the machine faults and nothing but the fault is    *)
(* seen.                                                                   *)
(***************************************************************************)
EXTENDS RamModel

CONSTANTS Uninit, None, Programs, Inputs, MaxCells

VARIABLES prog, pc, regs, in, out, faulted

\* The addresses of the registers.
File == 0..(MaxCells - 1)

avars == <<prog, pc, regs, in, out, faulted>>

Init ==
    /\ prog \in Programs
    /\ pc = 0
    /\ regs = [a \in File |-> Uninit]
    /\ in \in Inputs
    /\ out = << >>
    /\ faulted = FALSE

\* The instruction to execute, and the values that it can be executed with: none
\* where a register it needs was never written or an address does not exist.
inst == At(prog, pc)

Pointers(arg) == { regs[a] : a \in { arg.n } \cap File }

Places(arg) ==
    (IF arg.mode = "ind" THEN Pointers(arg) ELSE { arg.n }) \cap File

Operands(arg) ==
    IF arg.mode = "const" THEN { arg.n } ELSE { regs[a] : a \in Places(arg) } \ { Uninit }

ACC == { regs[0] } \ { Uninit }

Received == { in[i] : i \in {1} \cap DOMAIN in } \ { None }

Destinations(arg) ==
    (IF arg.mode = "reg" THEN Pointers(arg) \cap Usize ELSE { arg.n })
        \cap 0..(Len(prog) - 1)

Taken(op, acc) ==
    \/ op = "JUMP"
    \/ op = "JUMZ" /\ acc = 0
    \/ op = "JUML" /\ acc < 0
    \/ op = "JUMG" /\ acc > 0

\* What an instruction does besides going on to the next one: new registers.
Write(a, v) == [regs EXCEPT ![a] = v]

NewRegisters ==
    CASE inst.op = "LOAD"       -> { Write(0, v) : v \in Operands(inst) }
      [] inst.op = "STORE"      -> { Write(a, v) : a \in Places(inst), v \in ACC }
      [] inst.op \in UnaryOps   -> UNION { { Write(a, r) : r \in Checked(inst.op, regs[a], 1) } :
                                           a \in { p \in Places(inst) : regs[p] # Uninit } }
      [] inst.op \in BinaryOps  -> { Write(0, r) : r \in
                                     UNION { Checked(inst.op, acc, v) :
                                             acc \in ACC, v \in Operands(inst) } }
      [] OTHER                  -> {}

\* Running off the end is a fault, after the effect of the last instruction.
GoTo(to) ==
    /\ pc' = to
    /\ faulted' = (to = Len(prog))

Compute ==
    /\ \E r \in NewRegisters : regs' = r
    /\ GoTo(pc + 1)
    /\ UNCHANGED <<in, out>>

\* An input that refused once is over.
Input ==
    /\ inst.op = "READ"
    /\ \E v \in Received : regs' = Write(0, v)
    /\ in' = Tail(in)
    /\ GoTo(pc + 1)
    /\ UNCHANGED out

Output ==
    /\ inst.op = "WRITE"
    /\ \E v \in ACC : out' = Append(out, v)
    /\ GoTo(pc + 1)
    /\ UNCHANGED <<regs, in>>

GoOn ==
    /\ \/ inst.op = "NOP"
       \/ inst.op \in ConditionalJumps /\ \E acc \in ACC : ~Taken(inst.op, acc)
    /\ GoTo(pc + 1)
    /\ UNCHANGED <<regs, in, out>>

Branch ==
    /\ inst.op \in JumpOps
    /\ inst.op = "JUMP" \/ \E acc \in ACC : Taken(inst.op, acc)
    /\ \E to \in Destinations(inst) : GoTo(to)
    /\ UNCHANGED <<regs, in, out>>

Effect == Compute \/ Input \/ Output \/ GoOn \/ Branch

\* The instruction cannot have its effect.
Stuck ==
    \/ inst.op = "READ" /\ Received = {}
    \/ inst.op \in {"WRITE"} \cup ConditionalJumps /\ ACC = {}
    \/ inst.op \in {"LOAD", "STORE"} \cup UnaryOps \cup BinaryOps /\ NewRegisters = {}
    \/ inst.op \in ConditionalJumps /\ (\E acc \in ACC : Taken(inst.op, acc)) /\ Destinations(inst) = {}
    \/ inst.op = "JUMP" /\ Destinations(inst) = {}

Fault ==
    /\ Stuck
    /\ faulted' = TRUE
    /\ in' = IF inst.op = "READ" THEN << >> ELSE in
    /\ UNCHANGED <<pc, regs, out>>

\* At STOP no step is possible, and none after a fault.
Next == prog # << >> /\ ~faulted /\ UNCHANGED prog /\ (Effect \/ Fault)

Spec == Init /\ [][Next]_avars
=============================================================================
