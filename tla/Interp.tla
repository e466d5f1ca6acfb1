------------------------------- MODULE Interp -------------------------------
(***************************************************************************)
(* The JSPP virtual machine: the fetch/execute loop _interp, static calls, *)
(* frames, blocks, break/continue and exceptions (interpinner.c), entered  *)
(* through qinterpRun (interp.c).                                          *)
(*                                                                         *)
(* One action is one turn of the loop in _interp, except MethodExit, which *)
(* is the end of _interp, the end of callStaticMethod and the rest of the  *)
(* OP_SCALL case in the caller: no other code runs in between.             *)
(*                                                                         *)
(* The model is of the release build: an ASSERT of the source is not a     *)
(* guard but a claim, stated among the properties.  An access the code     *)
(* makes outside of its operand stack or its code array ends the run with  *)
(* a "fault".                                                              *)
(***************************************************************************)
EXTENDS Variant, Sequences

CONSTANTS Programs,  \* the programs qinterpPrepare may have loaded
          Answers,   \* what a native method may answer
          MaxAnswers,\* how many answers are free; later ones are Silent
          MaxRuns    \* how often the embedding application calls qinterpRun

VARIABLES
  prog,     \* the loaded program: its methods and the constant table
  answers,  \* what the native methods have answered so far
  stack,    \* qip->stack, the operand stack all frames share
  frames,   \* qip->frames; the last one is qip->curframe
  out,      \* the native calls made so far, with their arguments
  results,  \* what each finished qinterpRun returned
  fault     \* "none", or how the process went wrong

vars == <<prog, answers, stack, frames, out, results, fault>>

-----------------------------------------------------------------------------
(* Instructions.  arg is an address, a slot, a count, a constant or the    *)
(* number of a method, as the opcode has it; arg = 0 in an SCALL is a      *)
(* signature that no class answers.                                        *)

NoArg == {"NOP", "NULL", "POP", "ROT", "ROT3", "DUP", "ASSIGN", "RVALUE",
          "LEAVE", "RET", "VRET", "BREAK", "CONTINUE", "THROW",
          "INC", "DEC", "PINC", "PDEC"} \cup BinOps \cup UnOps
OneArg == {"LINE", "PUSH", "LVALUE", "ENTER", "SETBREAK", "TRY", "SCALL",
           "JMP", "JMPZ", "JMPNZ"}
Ops == NoArg \cup OneArg

Instr == [op : Ops, mode : {"IM", "CONST", "BLOCK"}, arg : Int]

(* An instruction is one 16-bit word, its 32-bit argument two more.        *)
Width(i) == IF i.op \in OneArg THEN 3 ELSE 1

Errors == {"NONE", "RETURN", "EXCEPTION", "TYPE_MISMATCH", "BAD_BREAK",
           "BAD_CONTINUE", "UNKNOWN_METHOD"}

(* What a program must be to be loaded: code is defined at the words where *)
(* an instruction starts, and the entry method takes no argument.  Every   *)
(* parameter is a value: parameters declared with & (isptr) are left out.  *)
IsMethod(m) ==
  /\ m.len \in Nat
  /\ DOMAIN m.code \subseteq 0 .. m.len - 1
  /\ \A pc \in DOMAIN m.code : m.code[pc] \in Instr
  /\ m.args \in Nat
  /\ m.hasretval \in BOOLEAN
  /\ m.isnative \in BOOLEAN

IsProgram(p) ==
  /\ Len(p.methods) \in Nat \ {0}
  /\ DOMAIN p.methods = 1 .. Len(p.methods)
  /\ \A k \in DOMAIN p.methods : IsMethod(p.methods[k])
  /\ p.methods[1].args = 0 /\ ~p.methods[1].isnative
  /\ \A c \in DOMAIN p.consts : p.consts[c] \in Plain
  /\ \A k \in DOMAIN p.methods : \A pc \in DOMAIN p.methods[k].code :
       LET i == p.methods[k].code[pc]
       IN  /\ i.op = "SCALL" => i.arg \in 0 .. Len(p.methods)
           /\ i.op = "PUSH" /\ i.mode = "CONST" => i.arg \in DOMAIN p.consts
           /\ i.op = "PUSH" => i.mode # "BLOCK"
           /\ i.op \in {"ENTER", "LVALUE"} => i.arg \in Nat

(* A native method reports an error code and a return value.               *)
NativeAnswer == [err : {"NONE", "TYPE_MISMATCH"},
                 val : Plain]
Silent == [err |-> "NONE", val |-> BoolV(FALSE)]

ASSUME ProgramsAssumption == \A p \in Programs : IsProgram(p)
ASSUME AnswersAssumption == /\ Answers \subseteq NativeAnswer
                            /\ MaxAnswers \in Nat
ASSUME MaxRunsAssumption == MaxRuns \in Nat \ {0}

-----------------------------------------------------------------------------
(* The current frame and the instruction at its pc.                        *)

curframe  == frames[Len(frames)]
curmethod == prog.methods[curframe.meth]
instr     == curmethod.code[curframe.pc]
nextpc    == curframe.pc + Width(instr)

BlockFrame == [floor : Nat, breakpc : Int, blockcount : Nat, catchpc : Int]

Frame == [meth : Nat, pc : Int, base : Nat, locals : Seq(Value),
          blocks : Seq(BlockFrame), retval : Value, err : Errors]

SetTop(f) == [frames EXCEPT ![Len(frames)] = f]

(* The frame after the instruction, when only the pc moves.                *)
Advanced == [curframe EXCEPT !.pc = nextpc]
Failed(e) == [Advanced EXCEPT !.err = e]

Peek(n)  == stack[Len(stack) - n]
Drop(n)  == SubSeq(stack, 1, Len(stack) - n)

(* varDeref.  The slot of a block that was left has been cleared in place. *)
DerefIn(fs, x) ==
  IF x.t # "PTR" THEN x
  ELSE IF x.f \in DOMAIN fs /\ x.v \in DOMAIN fs[x.f].locals
       THEN fs[x.f].locals[x.v]
       ELSE Void

Deref(x) == DerefIn(frames, x)

(* varAssign through a pointer; a write to a slot that was left is lost.   *)
StoreIn(fs, p, x) ==
  IF p.f \in DOMAIN fs /\ p.v \in DOMAIN fs[p.f].locals
  THEN [fs EXCEPT ![p.f].locals[p.v] = x]
  ELSE fs

-----------------------------------------------------------------------------
(* Blocks.  A block frame keeps the number of locals below it (the source  *)
(* keeps the number of its own locals, which is the difference: locals     *)
(* only grow in enterBlock and only shrink in leaveBlock).                 *)

getBreak(f) == IF f.blocks = << >> THEN -1 ELSE f.blocks[Len(f.blocks)].breakpc
getBreakBlockCount(f) ==
  IF f.blocks = << >> THEN 0 ELSE f.blocks[Len(f.blocks)].blockcount

(* Mutant: an inner block does not inherit the break target.               *)
enterBlockForgets(f, n) ==
  [f EXCEPT !.locals = @ \o [i \in 1 .. n |-> Void],
            !.blocks = Append(@, [floor |-> Len(f.locals), breakpc |-> -1,
                                  blockcount |-> 0, catchpc |-> -1])]

enterBlock(f, n) ==
  [f EXCEPT !.locals = @ \o [i \in 1 .. n |-> Void],
            !.blocks = Append(@, [floor      |-> Len(f.locals),
                                  breakpc    |-> getBreak(f),
                                  blockcount |-> getBreakBlockCount(f),
                                  catchpc    |-> -1])]

(* Mutant: one local too many is popped (x <= localcount).                 *)
leaveToOneMore(f, k) ==
  IF k >= Len(f.blocks) THEN f
  ELSE [f EXCEPT !.locals = SubSeq(@, 1, f.blocks[k + 1].floor - 1),
                 !.blocks = SubSeq(@, 1, k)]

(* Leave the blocks above the k-th.                                        *)
leaveTo(f, k) ==
  IF k >= Len(f.blocks) THEN f
  ELSE [f EXCEPT !.locals = SubSeq(@, 1, f.blocks[k + 1].floor),
                 !.blocks = SubSeq(@, 1, k)]

leaveBlock(f) == IF f.blocks = << >> THEN f ELSE leaveTo(f, Len(f.blocks) - 1)

(* Mutant: the block count is that after another block is entered.         *)
setBreakOneMore(f, target) ==
  [f EXCEPT !.blocks[Len(f.blocks)].breakpc = target,
            !.blocks[Len(f.blocks)].blockcount = Len(f.blocks) + 1]

setBreak(f, target) ==
  [f EXCEPT !.blocks[Len(f.blocks)].breakpc = target,
            !.blocks[Len(f.blocks)].blockcount = Len(f.blocks)]

setTry(f, target) == [f EXCEPT !.blocks[Len(f.blocks)].catchpc = target]

(* breakBlock only leaves blocks while blockcount > the number of blocks,   *)
(* and leaving one cannot end that loop: the model has no step when it is   *)
(* entered.                                                                *)
breakEnds(f) == getBreakBlockCount(f) <= Len(f.blocks)

(* getCatch leaves blocks until one has a handler and continues there; pc  *)
(* is -1 when none has.  The handler stays set.                            *)
Handlers(f) == {k \in 1 .. Len(f.blocks) : f.blocks[k].catchpc # -1}

getCatch(f) ==
  IF Handlers(f) = {} THEN [leaveTo(f, 0) EXCEPT !.pc = -1]
  ELSE LET k == CHOOSE k \in Handlers(f) : \A j \in Handlers(f) : j <= k
       IN  [leaveTo(f, k) EXCEPT !.pc = f.blocks[k].catchpc]

-----------------------------------------------------------------------------
(* Operands an instruction reads from the stack.                           *)

Operands(i) ==
  CASE i.op \in BinOps \cup {"ASSIGN", "ROT"} -> 2
    [] i.op = "ROT3" -> 3
    [] i.op \in UnOps \cup {"POP", "DUP", "RVALUE", "RET", "JMPZ", "JMPNZ",
                            "INC", "DEC", "PINC", "PDEC"} -> 1
    [] i.op = "SCALL" -> IF i.arg = 0 THEN 0 ELSE prog.methods[i.arg].args
    [] i.op = "THROW" -> IF Handlers(curframe) = {} THEN 1 ELSE 0
    [] OTHER -> 0

(* The loop of _interp goes on: no error is pending and pc < codelen.      *)
Looping == /\ fault = "none"
           /\ frames # << >>
           /\ curframe.err = "NONE"
           /\ curframe.pc < curmethod.len

Fetches == Looping /\ curframe.pc \in DOMAIN curmethod.code

Exec(ops) == /\ Fetches
             /\ instr.op \in ops
             /\ Operands(instr) <= Len(stack)

Inner == <<answers, out, results, fault>>   \* untouched by most instructions

-----------------------------------------------------------------------------
(* Straight-line instructions.                                             *)

(* Opcodes that only move the pc (OP_LINE notes a line number).            *)
DoNop == /\ Exec({"NOP", "LINE"})
         /\ frames' = SetTop(Advanced)
         /\ UNCHANGED <<stack, Inner>>

DoPush == /\ Exec({"NULL", "PUSH"})
          /\ stack' = Append(stack,
                        IF instr.op = "NULL" THEN Null
                        ELSE IF instr.mode = "IM" THEN IntV(instr.arg)
                        ELSE prog.consts[instr.arg])
          /\ frames' = SetTop(Advanced)
          /\ UNCHANGED Inner

DoDup == /\ Exec({"DUP"})
         /\ stack' = Append(stack, Peek(0))
         /\ frames' = SetTop(Advanced)
         /\ UNCHANGED Inner

DoPop == /\ Exec({"POP"})
         /\ stack' = Drop(1)
         /\ frames' = SetTop(Advanced)
         /\ UNCHANGED Inner

(* ROT exchanges the top with the operand below, ROT3 with the one below   *)
(* that.                                                                   *)
DoRot == /\ Exec({"ROT", "ROT3"})
         /\ LET d == IF instr.op = "ROT" THEN 1 ELSE 2
            IN  stack' = [stack EXCEPT ![Len(stack)] = Peek(d),
                                       ![Len(stack) - d] = Peek(0)]
         /\ frames' = SetTop(Advanced)
         /\ UNCHANGED Inner

(* A PTR to a local; qinterpResolve has no such element when arg is past   *)
(* the end of the locals.                                                  *)
DoLvalue == /\ Exec({"LVALUE"})
            /\ IF instr.arg < Len(curframe.locals)
               THEN /\ stack' = Append(stack, PtrV(Len(frames), instr.arg + 1))
                    /\ frames' = SetTop(Advanced)
                    /\ UNCHANGED fault
               ELSE /\ fault' = "wild"
                    /\ UNCHANGED <<stack, frames>>
            /\ UNCHANGED <<answers, out, results>>

DoRvalue == /\ Exec({"RVALUE"})
            /\ stack' = [stack EXCEPT ![Len(stack)] = Deref(@)]
            /\ frames' = SetTop(Advanced)
            /\ UNCHANGED Inner

DoAssign == /\ Exec({"ASSIGN"})
            /\ IF Peek(1).t = "PTR"
               THEN /\ frames' = StoreIn(SetTop(Advanced), Peek(1), Deref(Peek(0)))
                    /\ stack' = Drop(2)
                    /\ UNCHANGED fault
               ELSE /\ fault' = "wild"
                    /\ UNCHANGED <<stack, frames>>
            /\ UNCHANGED <<answers, out, results>>

(* A failed operator leaves its operands on the stack.                     *)
DoBinOp == /\ Exec(BinOps)
           /\ LET res == VarBinOp(instr.op, Deref(Peek(1)), Deref(Peek(0)))
              IN  /\ stack' = IF res.r = "ok" THEN Append(Drop(2), res.val) ELSE stack
                  /\ frames' = SetTop(IF res.r = "mismatch"
                                      THEN Failed("TYPE_MISMATCH") ELSE Advanced)
                  /\ fault' = IF res.r = "trap" THEN "trap" ELSE fault
           /\ UNCHANGED <<answers, out, results>>

(* varNegate, varLogNot and varComp write through a pointer operand: the   *)
(* variable changes and the pointer stays on the stack.                    *)
DoUnOp == /\ Exec(UnOps)
          /\ LET res == VarUnOp(instr.op, Deref(Peek(0)))
             IN  IF res.r # "ok"
                 THEN frames' = SetTop(Failed("TYPE_MISMATCH")) /\ UNCHANGED stack
                 ELSE IF Peek(0).t = "PTR"
                 THEN frames' = StoreIn(SetTop(Advanced), Peek(0), res.val)
                      /\ UNCHANGED stack
                 ELSE /\ stack' = Append(Drop(1), res.val)
                      /\ frames' = SetTop(Advanced)
          /\ UNCHANGED Inner

(* ++ and --.  The prefix forms leave the new value, the postfix forms the *)
(* old one.  A postfix form has replaced the pointer by the value before   *)
(* it finds out that the variable is no number.                            *)
DoIncDec ==
  /\ Exec({"INC", "DEC", "PINC", "PDEC"})
  /\ LET old == Deref(Peek(0))
         new == [old EXCEPT !.v = Wrap(IF instr.op \in {"INC", "PINC"}
                                       THEN @ + 1 ELSE @ - 1)]
         postfix == instr.op \in {"PINC", "PDEC"}
     IN  IF Peek(0).t # "PTR"
         THEN fault' = "wild" /\ UNCHANGED <<stack, frames>>
         ELSE IF old.t \in {"INT", "CHAR"}
         THEN /\ frames' = StoreIn(SetTop(Advanced), Peek(0), new)
              /\ stack' = Append(Drop(1), IF postfix THEN old ELSE new)
              /\ UNCHANGED fault
         ELSE /\ frames' = SetTop(Failed("TYPE_MISMATCH"))
              /\ stack' = IF postfix THEN Append(Drop(1), old) ELSE stack
              /\ UNCHANGED fault
  /\ UNCHANGED <<answers, out, results>>

-----------------------------------------------------------------------------
(* Blocks and jumps.                                                       *)

DoEnter == /\ Exec({"ENTER"})
           /\ frames' = SetTop(enterBlock(Advanced, instr.arg))
           /\ UNCHANGED <<stack, Inner>>

DoLeave == /\ Exec({"LEAVE"})
           /\ frames' = SetTop(leaveBlock(Advanced))
           /\ UNCHANGED <<stack, Inner>>

DoSetBreak == /\ Exec({"SETBREAK"})
              /\ IF curframe.blocks = << >>
                 THEN fault' = "wild" /\ UNCHANGED frames
                 ELSE /\ frames' = SetTop(setBreak(Advanced, instr.arg))
                      /\ UNCHANGED fault
              /\ UNCHANGED <<stack, answers, out, results>>

DoTry == /\ Exec({"TRY"})
         /\ IF curframe.blocks = << >>
            THEN fault' = "wild" /\ UNCHANGED frames
            ELSE /\ frames' = SetTop(setTry(Advanced, instr.arg))
                 /\ UNCHANGED fault
         /\ UNCHANGED <<stack, answers, out, results>>

(* Mutant: the pc is not set by a continue.                                *)
DoBreakContinueStays ==
  /\ Exec({"BREAK", "CONTINUE"})
  /\ LET target == getBreak(curframe)
     IN  frames' = SetTop(IF target # -1
                          THEN [curframe EXCEPT !.pc = IF instr.op = "BREAK" THEN target ELSE @]
                          ELSE Failed("BAD_BREAK"))
  /\ UNCHANGED <<stack, Inner>>

(* continue jumps three words before the break target, where the JMP back  *)
(* to the head of the loop is expected to be.                              *)
DoBreak ==
  /\ Exec({"BREAK", "CONTINUE"})
  /\ breakEnds(curframe)
  /\ LET target == getBreak(curframe)
         isbreak == instr.op = "BREAK"
     IN  frames' = SetTop(IF target # -1
                          THEN [curframe EXCEPT !.pc = IF isbreak THEN target ELSE target - 3]
                          ELSE IF isbreak
                          THEN [curframe EXCEPT !.pc = -1, !.err = "BAD_BREAK"]
                          ELSE Failed("BAD_CONTINUE"))
  /\ UNCHANGED <<stack, Inner>>

DoJmp == /\ Exec({"JMP"})
         /\ frames' = SetTop([curframe EXCEPT !.pc = instr.arg])
         /\ UNCHANGED <<stack, Inner>>

(* VARBOOL followed by a test of data.i.  On a pointer, varCast converts   *)
(* the variable itself, and the data tested is the pointer, never zero.    *)
VarBool(x) == [ok  |-> x.t # "INST" /\ x.t # "NULL", val |-> BoolV(x.v # 0)]

(* Nothing ever sets the data of a VOID: it tests either way.              *)
Nonzero(x) == CASE x.t = "PTR"  -> {TRUE}
                [] x.t = "VOID" -> BOOLEAN
                [] OTHER        -> {x.v # 0}

DoJmpIf ==
  /\ Exec({"JMPZ", "JMPNZ"})
  /\ LET top   == Peek(0)
         isptr == top.t = "PTR"
         cast  == VarBool(Deref(top))
         castable == IF isptr THEN cast.ok ELSE top.t # "INST"
     IN  IF ~castable
         THEN frames' = SetTop(Failed("TYPE_MISMATCH")) /\ UNCHANGED stack
         ELSE \E nonzero \in Nonzero(top) :
              LET jumps  == nonzero = (instr.op = "JMPNZ")
                  target == [curframe EXCEPT !.pc = IF jumps THEN instr.arg ELSE nextpc]
              IN  /\ stack' = Drop(1)
                  /\ frames' = IF isptr THEN StoreIn(SetTop(target), top, cast.val)
                                        ELSE SetTop(target)
  /\ UNCHANGED Inner

-----------------------------------------------------------------------------
(* Calls, returns and exceptions.                                          *)

Callee == prog.methods[instr.arg]

(* Mutant: the VARDEREF of the arguments is missing.                       *)
CallArgsByRef(n) == [i \in 1 .. n |-> stack[Len(stack) - n + i]]

(* The arguments move from the stack to the new frame, dereferenced.       *)
CallArgs(n) == [i \in 1 .. n |-> Deref(stack[Len(stack) - n + i])]

(* enterFrame, and the block callStaticMethod enters around the arguments. *)
NewFrame(m, n, args, depth) ==
  [meth |-> m, pc |-> 0, base |-> depth, locals |-> args,
   blocks |-> <<[floor |-> n, breakpc |-> -1, blockcount |-> 0, catchpc |-> -1]>>,
   retval |-> Void, err |-> "NONE"]

DoScall == /\ Exec({"SCALL"})
           /\ instr.arg # 0 /\ ~Callee.isnative
           /\ LET n == Callee.args
              IN  /\ stack' = Drop(n)
                  /\ frames' = Append(SetTop(Advanced),
                                 NewFrame(instr.arg, n, CallArgs(n), Len(stack) - n))
           /\ UNCHANGED Inner

(* A native method runs within its frame and answers at once.  The return  *)
(* value is pushed even when it reports an error, since the error is only  *)
(* in the caller's hands.                                                  *)
DoNative ==
  /\ Exec({"SCALL"})
  /\ instr.arg # 0 /\ Callee.isnative
  /\ out' = Append(out, [meth |-> instr.arg, args |-> CallArgs(Callee.args)])
  /\ IF Callee.hasretval
     THEN \E answer \in IF Len(answers) < MaxAnswers THEN Answers ELSE {Silent} :
            /\ answers' = Append(answers, answer)
            /\ stack' = Append(Drop(Callee.args), answer.val)
            /\ frames' = SetTop(Failed(answer.err))
     ELSE /\ stack' = Drop(Callee.args)
          /\ frames' = SetTop(Advanced)
          /\ UNCHANGED answers
  /\ UNCHANGED <<results, fault>>

(* No such method: callStaticMethod takes nothing from the stack.          *)
DoUnknown == /\ Exec({"SCALL"})
             /\ instr.arg = 0
             /\ frames' = SetTop(Failed("UNKNOWN_METHOD"))
             /\ UNCHANGED <<stack, Inner>>

DoVret == /\ Exec({"VRET"})
          /\ frames' = SetTop(Failed("RETURN"))
          /\ UNCHANGED <<stack, Inner>>

DoRet == /\ Exec({"RET"})
         /\ frames' = SetTop([leaveBlock(Failed("RETURN")) EXCEPT !.retval = Deref(Peek(0))])
         /\ stack' = Drop(1)
         /\ UNCHANGED Inner

(* The thrown value is read after the blocks are left; when a handler is   *)
(* found the operand stays as it is.                                       *)
DoThrow ==
  /\ Exec({"THROW"})
  /\ LET f == getCatch(curframe)
     IN  IF Handlers(curframe) # {}
         THEN frames' = SetTop(f) /\ UNCHANGED stack
         ELSE LET thrown == DerefIn(SetTop(f), Peek(0))
              IN  /\ frames' = SetTop([f EXCEPT !.retval = thrown, !.err = "EXCEPTION"])
                  /\ stack' = [stack EXCEPT ![Len(stack)] = thrown]
  /\ UNCHANGED Inner

(* The end of _interp and leaveFrame: the operands of the frame go, the    *)
(* return value or the exception comes.                                    *)
ExitErr == IF curframe.err = "RETURN" THEN "NONE" ELSE curframe.err

(* Mutants: the operands of the frame are not popped, or one too many is.  *)
KeptAll == stack
KeptOneLess == IF Len(stack) >= curframe.base /\ curframe.base > 0
               THEN SubSeq(stack, 1, curframe.base - 1) ELSE << >>

Kept == IF Len(stack) > curframe.base THEN SubSeq(stack, 1, curframe.base) ELSE stack

(* Mutant: the test of hasretval is missing.                               *)
ExitStackAlways ==
  IF ExitErr \in {"NONE", "EXCEPTION"} THEN Append(Kept, curframe.retval) ELSE Kept

ExitStack ==
  IF \/ ExitErr = "EXCEPTION"
     \/ ExitErr = "NONE" /\ curmethod.hasretval
  THEN Append(Kept, curframe.retval) ELSE Kept

Exits == /\ fault = "none"
         /\ frames # << >>
         /\ curframe.err # "NONE" \/ curframe.pc >= curmethod.len

caller == frames[Len(frames) - 1]
Below  == SubSeq(frames, 1, Len(frames) - 2)

(* Back in the caller's OP_SCALL.                                          *)
MethodExit ==
  /\ Exits
  /\ Len(frames) > 1
  /\ IF ExitErr # "EXCEPTION"
     THEN /\ frames' = Append(Below, [caller EXCEPT !.err = ExitErr])
          /\ stack' = ExitStack
     ELSE LET f == getCatch(caller)
          IN  IF Handlers(caller) # {}
              THEN /\ frames' = Append(Below, f)
                   /\ stack' = ExitStack
              ELSE /\ frames' = Append(Below, [f EXCEPT !.retval = curframe.retval,
                                                        !.err = "EXCEPTION"])
                   /\ stack' = Kept
  /\ UNCHANGED Inner

(* Back in qinterpRun, which hands the top of the stack to its caller.     *)
RunExit ==
  /\ Exits
  /\ Len(frames) = 1
  /\ frames' = << >>
  /\ IF ExitStack = << >>
     THEN /\ results' = Append(results, [err |-> ExitErr, val |-> Void])
          /\ stack' = << >>
     ELSE /\ results' = Append(results, [err |-> ExitErr, val |-> ExitStack[Len(ExitStack)]])
          /\ stack' = SubSeq(ExitStack, 1, Len(ExitStack) - 1)
  /\ UNCHANGED <<answers, out, fault>>

(* qinterpRun: callStaticMethod on the entry method.                       *)
Run == /\ fault = "none"
       /\ frames = << >>
       /\ Len(results) < MaxRuns
       /\ frames' = <<NewFrame(1, 0, << >>, Len(stack))>>
       /\ UNCHANGED <<stack, Inner>>

-----------------------------------------------------------------------------
(* Where the process goes wrong: an operand that is not there, or a pc     *)
(* that is no instruction.                                                 *)

Underflow == /\ Fetches
             /\ Operands(instr) > Len(stack)
             /\ fault' = "underflow"
             /\ UNCHANGED <<answers, stack, frames, out, results>>

WildFetch == /\ Looping
             /\ curframe.pc \notin DOMAIN curmethod.code
             /\ fault' = "wild"
             /\ UNCHANGED <<answers, stack, frames, out, results>>

Stopped == \/ fault # "none"
           \/ frames = << >> /\ Len(results) = MaxRuns

-----------------------------------------------------------------------------
Init == /\ prog \in Programs
        /\ answers = << >>
        /\ stack = << >>
        /\ frames = << >>
        /\ out = << >>
        /\ results = << >>
        /\ fault = "none"

Step == \/ DoNop \/ DoPush \/ DoDup \/ DoPop \/ DoRot
        \/ DoLvalue \/ DoRvalue \/ DoAssign
        \/ DoBinOp \/ DoUnOp \/ DoIncDec
        \/ DoEnter \/ DoLeave \/ DoSetBreak \/ DoTry \/ DoBreak
        \/ DoJmp \/ DoJmpIf
        \/ DoScall \/ DoNative \/ DoUnknown
        \/ DoVret \/ DoRet \/ DoThrow
        \/ MethodExit \/ RunExit \/ Run
        \/ Underflow \/ WildFetch

Done == Stopped /\ UNCHANGED <<answers, stack, frames, out, results, fault>>

Next == UNCHANGED prog /\ (Step \/ Done)

Spec == Init /\ [][Next]_vars

(* A single thread runs the machine: as long as it can step, it does.      *)
FairSpec == Spec /\ WF_vars(Next)

-----------------------------------------------------------------------------
(* Properties of the machine, whatever it runs.                            *)

(* The types of the state; a frame runs a bytecode method of the program.  *)
TypeOK ==
  /\ answers \in Seq(NativeAnswer)
  /\ stack \in Seq(Value)
  /\ frames \in Seq(Frame)
  /\ out \in Seq([meth : Nat, args : Seq(Value)])
  /\ results \in Seq([err : Errors, val : Value])
  /\ fault \in {"none", "underflow", "wild", "trap"}
  /\ \A k \in DOMAIN frames : /\ frames[k].meth \in DOMAIN prog.methods
                              /\ ~prog.methods[frames[k].meth].isnative

(* The blocks of every frame are nested regions of its locals: each starts *)
(* no lower than the one around it and within the locals there are.        *)
(* leaveBlock, break, catch and return rely on it to give back the right   *)
(* number of locals.                                                       *)
BlocksNested ==
  \A k \in DOMAIN frames :
    LET f == frames[k]
    IN  \A b \in DOMAIN f.blocks :
          /\ f.blocks[b].floor <= Len(f.locals)
          /\ \A c \in DOMAIN f.blocks : b <= c => f.blocks[b].floor <= f.blocks[c].floor

(* The loop of breakBlock, which cannot end once it is entered, never is:  *)
(* the block a break leads to is one of those the frame still has.         *)
BreakTerminates ==
  \A k \in DOMAIN frames : \A b \in DOMAIN frames[k].blocks :
    frames[k].blocks[b].blockcount <= b

(* A reference to a local never leaves the operand stack: no variable,     *)
(* return value, argument of a native or result of a run is one            *)
(* (the ASSERTs of varDeref and OP_LVALUE that a local is no TYPE_PTR).    *)
NoPtrEscapes ==
  /\ \A k \in DOMAIN frames : /\ \A i \in DOMAIN frames[k].locals : frames[k].locals[i] \in Plain
                              /\ frames[k].retval \in Plain
  /\ \A k \in DOMAIN out : \A i \in DOMAIN out[k].args : out[k].args[i] \in Plain

(* Between two runs the operand stack is empty, so that a run starts from  *)
(* the same state as the first (qinterpRun).                               *)
IdleClean == frames = << >> => stack = << >>

-----------------------------------------------------------------------------
(* Properties of the machine when it runs what the compiler emits.         *)

(* No operand is missing, no pc is wild and no instruction traps.          *)
NoFault == fault = "none"

(* What an instruction is about to use is its frame's own: an operand the  *)
(* frame pushed, not one that a caller left on the shared stack, and, when *)
(* it is a reference, one to a local that the frame still has.             *)
OperandsOwned ==
  Fetches =>
    \A n \in 0 .. Operands(instr) - 1 :
      /\ curframe.base < Len(stack) - n
      /\ Peek(n).t = "PTR" => /\ Peek(n).f = Len(frames)
                              /\ Peek(n).v \in DOMAIN curframe.locals

(* A called method neither takes nor changes the operands that its callers *)
(* left on the stack, whatever way it ends.                                *)
CallerOperandsKept ==
  [][frames # << >> => /\ curframe.base <= Len(stack')
                       /\ \A p \in 1 .. curframe.base : stack'[p] = stack[p]]_vars

(* A call that ends leaves one value when the method returns one, or the   *)
(* exception for a handler of the caller, and otherwise nothing            *)
(* (callStaticMethod's ASSERTs on stackcount and OP_SCALL).                *)
CallBalance ==
  [][MethodExit /\ ExitErr \in {"NONE", "EXCEPTION"} =>
       Len(stack') = curframe.base +
         (IF ExitErr = "NONE" THEN (IF curmethod.hasretval THEN 1 ELSE 0)
                              ELSE (IF Handlers(caller) # {} THEN 1 ELSE 0))]_vars

(* Every run ends: qinterpRun returns to the embedding application.        *)
Terminates == (frames # << >>) ~> (frames = << >>)
=============================================================================
