----------------------------- MODULE Processor -----------------------------
(***************************************************************************)
(* NEMU's processor executing guest code: the integer instructions over    *)
(* Alu, the floating-point stack over Float, and what an interrupt or a    *)
(* system call does to a program that is in the middle of a computation:   *)
(* raise_intr, the kernel's entry code (do_irq.S) and iret, instruction by *)
(* instruction, handlers interrupting handlers included.                   *)
(*                                                                         *)
(* A job is a program with its inputs.  The programs are what a compiler   *)
(* makes of the C in testcase/src: 64-bit sums, differences and products   *)
(* (add-, sub-, mul-longlong.c), comparisons used as values (mov-jcc.c),   *)
(* expressions on floats (test-float.c), recursion (fact.c), a loop of     *)
(* divisions (prime.c), single bits and shifts (bit.c).                    *)
(* Operands are named: a register, an immediate ($n), a variable, or a     *)
(* word of the function's frame on the stack.                              *)
(***************************************************************************)
EXTENDS Alu, Float, SequencesExt

CONSTANTS
  Jobs,       \* the jobs: [program, in, irqs] and what the program needs
  Left,       \* what C code may leave in the registers it does not keep
  MaxDepth    \* bound: interrupted contexts at a time

INSTANCE I8259 WITH Irqs <- {0}

ASSUME JobsAssumption == \A j \in Jobs :
  /\ j.program \in {"sum", "difference", "negation", "product", "set", "move",
                    "branch", "wide_compare", "float", "float_compare",
                    "factorial", "prime", "bit", "shift", "quotient",
                    "wide_quotient", "system_call"}
  /\ j.program \in {"set", "move", "branch"} =>
       /\ j.cmp \in {"cmpl", "cmpb", "movz", "movs"}
       /\ j.cc \in {"e", "ne", "a", "ae", "b", "be", "c", "na", "g", "ge", "l", "le"}
  /\ j.program = "float_compare" => j.cc \in {"a", "ae", "b", "e", "ne"}
  /\ j.program = "float" => j.op \in {"fadds", "fsubs", "fmuls", "fdivs"}
  /\ j.program = "bit"   => j.op \in {"get", "set", "clear", "flip"}
  /\ j.program = "shift" => j.op \in {"shl", "shr", "sar"}

VARIABLES
  job,        \* the job that is running
  eip,        \* [code, at]: which code, and the next instruction in it
  gpr,        \* the general registers, without esp
  stack,      \* the words on the stack, the last one at esp
  flags,      \* EFLAGS
  mem,        \* the program's variables
  fpu,        \* [top, regStack]
  irqs,       \* interrupts the devices still raise
  contexts    \* history: what was interrupted, as it was

vars == <<job, eip, gpr, stack, flags, mem, fpu, irqs, contexts>>

Regs == {"eax", "ecx", "edx", "ebx", "ebp", "esi", "edi"}
Immediates == [x \in {"$0", "$1", "$2", "$128", "$1000"} |->
                 CASE x = "$0" -> 0 [] x = "$1" -> 1 [] x = "$2" -> 2
                   [] x = "$128" -> 128 [] x = "$1000" -> 1000]
OnStack == [arg |-> -2, local |-> 1]         \* 8(%ebp), -4(%ebp), in words
Variables == {"a", "A", "b", "B", "r", "R", "c"}   \* A: the high half of a

SYS_brk == 1       \* 45: any number but that of add_irq_handle, 0

Codes == 0 .. 2 * (MaxExp + 1) * Hidden - 1

(* A job's inputs are words of the size its instructions take.             *)
ASSUME InputsAssumption == \A j \in Jobs :
  /\ DOMAIN j.in \subseteq {"a", "A", "b", "B"}
  /\ j.program \in {"sum", "difference", "product"} =>
       j.in \in [{"a", "A", "b", "B"} -> Longs]
  /\ j.program = "negation" => j.in \in [{"a", "A"} -> Longs]
  /\ j.program \in {"set", "move", "branch"} => j.in \in [{"a", "b"} -> Longs]
  /\ j.program = "float_compare" => j.in \in [{"a", "b"} -> Codes]

-----------------------------------------------------------------------------
(* Code.                                                                   *)

(* A comparison of longs or of bytes; bytes may be widened first.          *)
Compare(cmp) ==
  IF cmp \in {"movz", "movs"}
  THEN << <<cmp, "a", "eax">>, <<cmp, "b", "edx">>, <<"cmpl", "edx", "eax">> >>
  ELSE << <<"mov", "a", "eax">>, <<cmp, "b", "eax">> >>

(* int fact(int n): n - 1 is the argument of the call inside.              *)
Factorial ==
  << <<"push", "a">>, <<"call", 3>>, <<"drop", 1>>, <<"mov", "eax", "r">>,
     <<"jmp", 16>>,
     <<"push", "ebp">>, <<"mov", "esp", "ebp">>, <<"push", "ebx">>,
     <<"mov", "arg", "ebx">>, <<"mov", "$1", "eax">>, <<"cmpl", "$1", "ebx">>,
     <<"j", "le", 6>>,
     <<"mov", "ebx", "eax">>, <<"dec", "eax">>, <<"push", "eax">>,
     <<"call", -11>>, <<"drop", 1>>, <<"imul", "ebx", "eax">>,
     <<"mov", "local", "ebx">>, <<"leave">>, <<"ret">> >>

(* int is_prime(int n)                                                     *)
Prime ==
  << <<"mov", "$0", "r">>, <<"cmpl", "$1", "a">>, <<"j", "le", 11>>,
     <<"mov", "$2", "ecx">>, <<"jmp", 6>>,
     <<"mov", "a", "eax">>, <<"cltd">>, <<"idiv", "ecx">>,
     <<"test", "edx", "edx">>, <<"j", "e", 4>>, <<"inc", "ecx">>,
     <<"cmpl", "a", "ecx">>, <<"j", "l", -8>>, <<"mov", "$1", "r">> >>

(* One bit of a: read, set, cleared, flipped.                              *)
OneBit(op) ==
  << <<"mov", "$1", "eax">>, <<"mov", "b", "ecx">>, <<"shl", "ecx", "eax">>,
     <<"mov", "a", "edx">> >>
  \o CASE op = "get"   -> << <<"test", "eax", "edx">>, <<"set", "ne", "r">> >>
       [] op = "set"   -> << <<"or", "eax", "edx">>, <<"mov", "edx", "r">> >>
       [] op = "flip"  -> << <<"xor", "eax", "edx">>, <<"mov", "edx", "r">> >>
       [] op = "clear" -> << <<"not", "eax">>, <<"and", "eax", "edx">>,
                             <<"mov", "edx", "r">> >>

Wide(low, high) ==
  << <<"mov", "a", "eax">>, <<low, "b", "eax">>, <<"mov", "eax", "r">>,
     <<"mov", "A", "edx">>, <<high, "B", "edx">>, <<"mov", "edx", "R">>,
     <<"set", "c", "c">> >>

Expression(op) ==
  << <<"flds", "A">>, <<"flds", "a">>, <<op, "b">>, <<"fstps", "r">>,
     <<"fstps", "R">> >>

Program(j) ==
  CASE j.program = "sum"        -> Wide("add", "adc")
    [] j.program = "difference" -> Wide("sub", "sbb")
    [] j.program = "negation" ->
         << <<"mov", "a", "eax">>, <<"neg", "eax">>, <<"mov", "A", "edx">>,
            <<"adc", "$0", "edx">>, <<"neg", "edx">>, <<"mov", "eax", "r">>,
            <<"mov", "edx", "R">> >>
    [] j.program = "product" ->
         << <<"push", "ebx">>, <<"mov", "A", "ecx">>, <<"imul", "b", "ecx">>,
            <<"mov", "B", "ebx">>, <<"imul", "a", "ebx">>, <<"add", "ebx", "ecx">>,
            <<"mov", "a", "eax">>, <<"mul", "b">>, <<"add", "ecx", "edx">>,
            <<"mov", "eax", "r">>, <<"mov", "edx", "R">>, <<"pop", "ebx">> >>
    [] j.program = "set" -> Compare(j.cmp) \o << <<"set", j.cc, "r">> >>
    [] j.program = "move" ->
         Compare(j.cmp)
         \o << <<"mov", "$0", "ecx">>, <<"mov", "$1", "edx">>,
               <<"cmov", j.cc, "edx", "ecx">>, <<"mov", "ecx", "r">> >>
    [] j.program = "branch" ->
         << <<"mov", "$1", "r">> >> \o Compare(j.cmp)
         \o << <<"j", j.cc, 1>>, <<"mov", "$0", "r">> >>
    [] j.program = "wide_compare" ->
         << <<"mov", "$1", "r">>, <<"mov", "a", "eax">>, <<"cmpl", "b", "eax">>,
            <<"mov", "A", "edx">>, <<"sbb", "B", "edx">>, <<"j", j.cc, 1>>,
            <<"mov", "$0", "r">> >>
    [] j.program = "float" -> Expression(j.op)
    [] j.program = "float_compare" ->
         << <<"flds", "a">>, <<"flds", "b">>, <<"fxch", 1>>, <<"fucomip", 1>>,
            <<"set", j.cc, "r">>, <<"fstps", "R">> >>
    [] j.program = "factorial" -> Factorial
    [] j.program = "prime"     -> Prime
    [] j.program = "bit"       -> OneBit(j.op)
    [] j.program = "shift" ->
         << <<"mov", "a", "eax">>, <<"mov", "b", "ecx">>, <<j.op, "ecx", "eax">>,
            <<"set", "c", "c">>, <<"mov", "eax", "r">> >>
    [] j.program = "quotient" ->
         << <<"mov", "a", "eax">>, <<"cltd">>, <<"idiv", "b">>,
            <<"mov", "eax", "r">>, <<"mov", "edx", "R">> >>
    [] j.program = "wide_quotient" ->
         << <<"mov", "a", "eax">>, <<"mov", "A", "edx">>, <<"div", "b">>,
            <<"mov", "eax", "r">>, <<"mov", "edx", "R">> >>
    [] j.program = "system_call" ->
         << <<"mov", "a", "eax">>, <<"mov", "b", "ebx">>, <<"int">>,
            <<"mov", "eax", "r">> >>

(* The stub of a vector and asm_do_irq.                                    *)
Entry(no) ==
  << <<"push", "$0">>, <<"push", no>>, <<"pusha">>, <<"push", "esp">>,
     <<"irq_handle">>, <<"drop", 1>>, <<"popa">>, <<"drop", 2>>,
     <<"iret">> >>

CodeOf(name) ==
  CASE name = "guest"  -> Append(Program(job), <<"nemu_trap">>)
    [] name = "irq"    -> Entry("$1000")
    [] name = "vecsys" -> Entry("$128")

Instruction == CodeOf(eip.code)[eip.at]
Op == Instruction[1]

Init ==
  /\ job \in Jobs
  /\ eip = [code |-> "guest", at |-> 1]
  /\ gpr = [x \in Regs |-> CASE x = "ebp" -> 1 [] x = "esi" -> 2
                             [] x = "edi" -> 3 [] OTHER -> 0]
  /\ stack = <<>>
  /\ flags = [CF |-> 0, PF |-> 0, ZF |-> 0, SF |-> 0, OF |-> 0, IF_ |-> 1]
  /\ mem = [x \in Variables |-> IF x \in DOMAIN job.in THEN job.in[x] ELSE 0]
  /\ fpu = [top |-> 0, regStack |-> [i \in 0..7 |-> 0]]
  /\ irqs = job.irqs
  /\ contexts = <<>>

-----------------------------------------------------------------------------
(* Instructions: cpu/instr/*.c.                                            *)

ValueOf(x) ==
  CASE x \in Regs              -> gpr[x]
    [] x = "esp"              -> Len(stack)
    [] x \in DOMAIN Immediates -> Immediates[x]
    [] x \in DOMAIN OnStack    -> stack[gpr["ebp"] + OnStack[x]]
    [] x \in Variables         -> mem[x]

(* operand_write                                                           *)
Put(x, val) ==
  IF x \in Regs
  THEN gpr' = [gpr EXCEPT ![x] = val] /\ UNCHANGED mem
  ELSE mem' = [mem EXCEPT ![x] = val] /\ UNCHANGED gpr

(* A displacement counts from the instruction that follows.                *)
From(displacement) == [code |-> eip.code, at |-> eip.at + 1 + displacement]

Advance == eip' = From(0)

Mov ==
  /\ Op = "mov"
  /\ Put(Instruction[3], ValueOf(Instruction[2]))
  /\ Advance /\ UNCHANGED <<stack, flags, fpu, contexts>>

(* A byte, zero-extended or sign-extended to a long.                       *)
MovExtend ==
  /\ Op \in {"movz", "movs"}
  /\ LET byte == ValueOf(Instruction[2]) % (2 * ByteHalf)
     IN  Put(Instruction[3], IF Op = "movz" THEN byte ELSE sign_ext(byte))
  /\ Advance /\ UNCHANGED <<stack, flags, fpu, contexts>>

AddSub ==
  /\ Op \in {"add", "adc", "sub", "sbb"}
  /\ LET src == ValueOf(Instruction[2])
         dest == ValueOf(Instruction[3])
         res == CASE Op = "add" -> alu_add(src, dest, flags)
                  [] Op = "adc" -> alu_adc(src, dest, flags)
                  [] Op = "sub" -> alu_sub(src, dest, flags)
                  [] Op = "sbb" -> alu_sbb(src, dest, flags)
     IN  Put(Instruction[3], res.val) /\ flags' = res.flags
  /\ Advance /\ UNCHANGED <<stack, fpu, contexts>>

(* cmp of longs, and of bytes, whose operands are sign-extended first.     *)
Cmp ==
  /\ Op \in {"cmpl", "cmpb"}
  /\ LET Read(x) == IF Op = "cmpl" THEN ValueOf(x)
                    ELSE sign_ext(ValueOf(x) % (2 * ByteHalf))
     IN  flags' = alu_sub(Read(Instruction[2]), Read(Instruction[3]), flags).flags
  /\ Advance /\ UNCHANGED <<gpr, mem, stack, fpu, contexts>>

Neg ==
  /\ Op = "neg"
  /\ LET res == neg(ValueOf(Instruction[2]), flags)
     IN  Put(Instruction[2], res.val) /\ flags' = res.flags
  /\ Advance /\ UNCHANGED <<stack, fpu, contexts>>

Imul ==
  /\ Op = "imul"
  /\ LET res == alu_imul(ValueOf(Instruction[2]), ValueOf(Instruction[3]), flags)
     IN  Put(Instruction[3], res.val) /\ flags' = res.flags
  /\ Advance /\ UNCHANGED <<stack, fpu, contexts>>

Mul ==
  /\ Op = "mul"
  /\ LET res == alu_mul(ValueOf(Instruction[2]), gpr["eax"], flags)
     IN  /\ gpr' = [gpr EXCEPT !["eax"] = res.low, !["edx"] = res.high]
         /\ flags' = res.flags
  /\ Advance /\ UNCHANGED <<mem, stack, fpu, contexts>>

(* inc and dec set CF too, unlike the processor's.                         *)
IncDec ==
  /\ Op \in {"inc", "dec"}
  /\ LET val == ValueOf(Instruction[2])
         res == IF Op = "inc" THEN alu_add(1, val, flags) ELSE alu_sub(1, val, flags)
     IN  Put(Instruction[2], res.val) /\ flags' = res.flags
  /\ Advance /\ UNCHANGED <<stack, fpu, contexts>>

Logic ==
  /\ Op \in {"and", "or", "xor"}
  /\ LET src == ValueOf(Instruction[2])
         dest == ValueOf(Instruction[3])
         res == CASE Op = "and" -> alu_and(src, dest, flags)
                  [] Op = "or"  -> alu_or(src, dest, flags)
                  [] Op = "xor" -> alu_xor(src, dest, flags)
     IN  Put(Instruction[3], res.val) /\ flags' = res.flags
  /\ Advance /\ UNCHANGED <<stack, fpu, contexts>>

Test ==
  /\ Op = "test"
  /\ flags' = alu_and(ValueOf(Instruction[2]), ValueOf(Instruction[3]), flags).flags
  /\ Advance /\ UNCHANGED <<gpr, mem, stack, fpu, contexts>>

Not ==
  /\ Op = "not"
  /\ Put(Instruction[2], 2 * LongHalf - 1 - ValueOf(Instruction[2]))
  /\ Advance /\ UNCHANGED <<stack, flags, fpu, contexts>>

Shift ==
  /\ Op \in {"shl", "shr", "sar"}
  /\ \E any \in Bit :
       LET src == ValueOf(Instruction[2])
           dest == ValueOf(Instruction[3])
           res == CASE Op = "shl" -> alu_shl(src, dest, flags, any)
                    [] Op = "shr" -> alu_shr(src, dest, flags, any)
                    [] Op = "sar" -> alu_sar(src, dest, flags, any)
       IN  Put(Instruction[3], res.val) /\ flags' = res.flags
  /\ Advance /\ UNCHANGED <<stack, fpu, contexts>>

Cltd ==
  /\ Op = "cltd"
  /\ Put("edx", IF sign(gpr["eax"]) = 1 THEN 2 * LongHalf - 1 ELSE 0)
  /\ Advance /\ UNCHANGED <<stack, flags, fpu, contexts>>

(* The dividend is edx:eax.  A divisor of 0 would end NEMU itself.         *)
Div ==
  /\ Op \in {"div", "idiv"}
  /\ LET src == ValueOf(Instruction[2])
         wide(high) == gpr["eax"] + 2 * LongHalf * high
     IN  /\ src # 0
         /\ gpr' = IF Op = "div"
                   THEN [gpr EXCEPT !["eax"] = alu_div(src, wide(gpr["edx"])),
                                    !["edx"] = alu_mod(src, wide(gpr["edx"]))]
                   ELSE [gpr EXCEPT
                           !["eax"] = alu_idiv(Signed(src), wide(Signed(gpr["edx"]))),
                           !["edx"] = alu_imod(Signed(src), wide(Signed(gpr["edx"])))]
  /\ Advance /\ UNCHANGED <<mem, stack, flags, fpu, contexts>>

Setcc ==
  /\ Op = "set"
  /\ Put(Instruction[3], B(Condition(Instruction[2], flags)))
  /\ Advance /\ UNCHANGED <<stack, flags, fpu, contexts>>

Cmovcc ==
  /\ Op = "cmov"
  /\ IF Condition(Instruction[2], flags)
     THEN Put(Instruction[4], ValueOf(Instruction[3]))
     ELSE UNCHANGED <<gpr, mem>>
  /\ Advance /\ UNCHANGED <<stack, flags, fpu, contexts>>

Jcc ==
  /\ Op = "j"
  /\ eip' = From(IF Condition(Instruction[2], flags) THEN Instruction[3] ELSE 0)
  /\ UNCHANGED <<gpr, mem, stack, flags, fpu, contexts>>

IntegerInst ==
  \/ Mov \/ MovExtend \/ AddSub \/ Cmp \/ Neg \/ Imul \/ Mul \/ IncDec \/ Logic
  \/ Test \/ Not \/ Shift \/ Cltd \/ Div \/ Setcc \/ Cmovcc \/ Jcc

Jmp ==
  /\ Op = "jmp"
  /\ eip' = From(Instruction[2])
  /\ UNCHANGED <<gpr, mem, stack, flags, fpu, contexts>>

Push ==
  /\ Op = "push"
  /\ stack' = Append(stack, ValueOf(Instruction[2]))
  /\ Advance /\ UNCHANGED <<gpr, mem, flags, fpu, contexts>>

Pop ==
  /\ Op = "pop"
  /\ Put(Instruction[2], Last(stack))
  /\ stack' = Front(stack)
  /\ Advance /\ UNCHANGED <<flags, fpu, contexts>>

(* addl $4n, %esp.  Of the flags only those of an address are open.        *)
Drop ==
  /\ Op = "drop"
  /\ stack' = SubSeq(stack, 1, Len(stack) - Instruction[2])
  /\ \E SF, PF \in Bit :
       flags' = [flags EXCEPT !.CF = 0, !.OF = 0, !.ZF = 0, !.SF = SF, !.PF = PF]
  /\ Advance /\ UNCHANGED <<gpr, mem, fpu, contexts>>

Call ==
  /\ Op = "call"
  /\ stack' = Append(stack, From(0))
  /\ eip' = From(Instruction[2])
  /\ UNCHANGED <<gpr, mem, flags, fpu, contexts>>

Ret ==
  /\ Op = "ret"
  /\ eip' = Last(stack)
  /\ stack' = Front(stack)
  /\ UNCHANGED <<gpr, mem, flags, fpu, contexts>>

(* Mutant: ebp is dropped with the frame, not popped.                      *)
Leave_KeepsEbp ==
  /\ Op = "leave"
  /\ stack' = SubSeq(stack, 1, gpr["ebp"] - 1)
  /\ Advance /\ UNCHANGED <<gpr, mem, flags, fpu, contexts>>
Leave ==
  /\ Op = "leave"
  /\ gpr' = [gpr EXCEPT !["ebp"] = stack[gpr["ebp"]]]
  /\ stack' = SubSeq(stack, 1, gpr["ebp"] - 1)
  /\ Advance /\ UNCHANGED <<mem, flags, fpu, contexts>>

StackInst == Jmp \/ Push \/ Pop \/ Drop \/ Call \/ Ret \/ Leave

ST(i) == fpu.regStack[(fpu.top + i) % 8]

fpu_load(val) ==
  LET top == IF fpu.top = 0 THEN 7 ELSE fpu.top - 1
  IN  [top |-> top, regStack |-> [fpu.regStack EXCEPT ![top] = val]]

fpu_store == [fpu EXCEPT !.top = (@ + 1) % 8]

SetST(i, val) == [fpu EXCEPT !.regStack[(fpu.top + i) % 8] = val]

Flds ==
  /\ Op = "flds"
  /\ fpu' = fpu_load(ValueOf(Instruction[2]))
  /\ Advance /\ UNCHANGED <<gpr, mem, stack, flags, contexts>>

FloatOp ==
  /\ Op \in {"fadds", "fsubs", "fmuls", "fdivs"}
  /\ LET val == ValueOf(Instruction[2])
     IN  fpu' = SetST(0, CASE Op = "fadds" -> internal_float_add(val, ST(0))
                           [] Op = "fsubs" -> internal_float_sub(val, ST(0))
                           [] Op = "fmuls" -> internal_float_mul(val, ST(0))
                           [] Op = "fdivs" -> internal_float_div(val, ST(0)))
  /\ Advance /\ UNCHANGED <<gpr, mem, stack, flags, contexts>>

Fstps ==
  /\ Op = "fstps"
  /\ Put(Instruction[2], ST(0))
  /\ fpu' = fpu_store
  /\ Advance /\ UNCHANGED <<stack, flags, contexts>>

Fxch ==
  /\ Op = "fxch"
  /\ LET i == (fpu.top + Instruction[2]) % 8
     IN  fpu' = [fpu EXCEPT !.regStack[fpu.top] = fpu.regStack[i],
                            !.regStack[i] = fpu.regStack[fpu.top]]
  /\ Advance /\ UNCHANGED <<gpr, mem, stack, flags, contexts>>

(* fpu_cmpi: what is neither greater nor less counts as equal.             *)
Fucomip ==
  /\ Op = "fucomip"
  /\ LET a == ST(0)
         b == ST(Instruction[2])
     IN  flags' = [flags EXCEPT !.PF = 0, !.CF = B(Greater(b, a)),
                     !.ZF = B(~Greater(a, b) /\ ~Greater(b, a))]
  /\ fpu' = fpu_store
  /\ Advance /\ UNCHANGED <<gpr, mem, stack, contexts>>

FloatInst == Flds \/ FloatOp \/ Fstps \/ Fxch \/ Fucomip

-----------------------------------------------------------------------------
(* Interrupts and system calls.                                            *)

(* raise_intr: EFLAGS, CS and EIP are pushed, and IF is cleared if the     *)
(* gate has type 15.                                                       *)
RaiseIntr(code, no, from) ==
  /\ stack' = stack \o <<flags, "cs", from>>
  /\ flags' = [flags EXCEPT !.IF_ = IF GateType(no) = 15 THEN 0 ELSE @]
  /\ eip' = [code |-> code, at |-> 1]
  /\ contexts' = Append(contexts, [gpr |-> gpr, flags |-> flags, eip |-> from,
                                   stack |-> stack, call |-> code = "vecsys"])
  /\ UNCHANGED <<gpr, mem, fpu>>

(* int $0x80: eip is moved past the instruction first.                     *)
IntInst ==
  /\ Op = "int"
  /\ RaiseIntr("vecsys", 128, From(0))

(* do_intr, after an instruction: a device's interrupt.                    *)
DoIntr ==
  /\ irqs > 0 /\ flags.IF_ = 1 /\ Len(contexts) < MaxDepth
  /\ RaiseIntr("irq", IRQ_BASE + TIMER_IRQ, eip)
  /\ irqs' = irqs - 1
  /\ UNCHANGED job

Pusha ==
  /\ Op = "pusha"
  /\ stack' = stack \o <<gpr["eax"], gpr["ecx"], gpr["edx"], gpr["ebx"],
                         Len(stack), gpr["ebp"], gpr["esi"], gpr["edi"]>>
  /\ Advance /\ UNCHANGED <<gpr, mem, flags, fpu, contexts>>

(* How far below the last register that pusha pushes each one is: the      *)
(* TrapFrame, which a pointer to that last word names.                     *)
Saved == [edi |-> 0, esi |-> 1, ebp |-> 2, ebx |-> 4, edx |-> 5, ecx |-> 6,
          eax |-> 7]

(* irq_handle(tf): tf is the word on top of the stack.  The device         *)
(* handlers, and do_syscall, are C code: they keep ebx, ebp, esi and edi   *)
(* only.  add_irq_handle, call 0, ends with sti; any other call than the   *)
(* two modelled is a panic.                                                *)
IrqHandle ==
  /\ Op = "irq_handle"
  /\ LET tf == Last(stack)
         eax == tf - Saved["eax"]
         call == stack[tf - 8] = 128
     IN  /\ call => stack[eax] \in {0, SYS_brk}
         /\ stack' = IF call THEN [stack EXCEPT ![eax] = 0] ELSE stack
         /\ \E x \in Left :
              /\ gpr' = [gpr EXCEPT !["eax"] = x, !["ecx"] = x, !["edx"] = x]
              /\ flags' = [CF |-> B(x # 0), PF |-> B(x # 0), ZF |-> B(x = 0),
                           SF |-> B(x # 0), OF |-> B(x = 0),
                           IF_ |-> IF call /\ stack[eax] = 0 THEN 1
                                   ELSE flags.IF_]
  /\ Advance /\ UNCHANGED <<mem, fpu, contexts>>

(* Mutant: the registers come back in the order they were pushed in.       *)
Popa_PushOrder ==
  /\ Op = "popa"
  /\ gpr' = [x \in Regs |-> stack[Len(stack) - 7 + Saved[x]]]
  /\ stack' = SubSeq(stack, 1, Len(stack) - 8)
  /\ Advance /\ UNCHANGED <<mem, flags, fpu, contexts>>
Popa ==
  /\ Op = "popa"
  /\ gpr' = [x \in Regs |-> stack[Len(stack) - Saved[x]]]
  /\ stack' = SubSeq(stack, 1, Len(stack) - 8)
  /\ Advance /\ UNCHANGED <<mem, flags, fpu, contexts>>

Iret ==
  /\ Op = "iret"
  /\ LET n == Len(stack)
     IN  /\ eip' = stack[n] /\ flags' = stack[n-2]
         /\ stack' = SubSeq(stack, 1, n - 3)
  /\ contexts' = Front(contexts)
  /\ UNCHANGED <<gpr, mem, fpu>>

EntryInst == Push \/ Pusha \/ IrqHandle \/ Drop \/ Popa \/ Iret

(* nemu_trap ends the program: there is no step after it.                  *)
ExecInst ==
  /\ IF eip.code = "guest" THEN IntegerInst \/ StackInst \/ FloatInst \/ IntInst
     ELSE EntryInst
  /\ UNCHANGED <<job, irqs>>

Next == ExecInst \/ DoIntr

Spec == Init /\ [][Next]_vars

-----------------------------------------------------------------------------
(* What the programs are to compute.                                       *)

Finished == Op = "nemu_trap" /\ contexts = <<>>

(* A number of two longs.                                                  *)
WideOf(low, high) == low + 2 * LongHalf * high
WideSigned(x) ==
  IF x >= 2 * LongHalf * LongHalf THEN x - 4 * LongHalf * LongHalf ELSE x

WideExpected(j) ==
  LET a == WideOf(j.in.a, j.in.A)
      b == WideOf(j.in.b, j.in.B)
  IN  CASE j.program = "sum" -> a + b
        [] j.program = "difference" -> a - b
        [] j.program = "product" -> a * b
        [] j.program = "negation" -> -a

Abs(x) == IF x < 0 THEN -x ELSE x

(* What a condition is to say of the operands of cmp b, a.  A byte is not  *)
(* extended here: this is its own order.                                   *)
Relation(j) ==
  LET half == IF j.cmp = "cmpl" THEN LongHalf ELSE ByteHalf
      a == j.in.a % (2 * half)
      b == j.in.b % (2 * half)
      S(x) == IF x >= half /\ j.cmp # "movz" THEN x - 2 * half ELSE x
  IN  [e |-> a = b, ne |-> a # b, a |-> a > b, ae |-> a >= b, b |-> a < b,
       be |-> a <= b, c |-> a < b, na |-> a <= b, g |-> S(a) > S(b),
       ge |-> S(a) >= S(b), l |-> S(a) < S(b), le |-> S(a) <= S(b)][j.cc]

Fact[n \in Nat] == IF n < 2 THEN 1 ELSE n * Fact[n - 1]

IsPrime(n) == n > 1 /\ \A d \in 2 .. n - 1 : n % d # 0

BitOf(x, i) == (x \div 2^i) % 2

(* What the routines on longs are to leave in r (and R), the operands a    *)
(* and b (and A) taken as the C type has it.                               *)
RoutineRight(j, r, R) ==
  LET a == j.in.a
  IN  CASE j.program = "factorial" -> r = Fact[a]
        [] j.program = "prime" -> r = B(IsPrime(Signed(a)))
        [] j.program = "bit" ->
             IF j.op = "get" THEN r = BitOf(a, j.in.b)
             ELSE \A i \in {k \in 0 .. LongHalf : 2^k <= LongHalf} :
                    BitOf(r, i) =
                      IF i # j.in.b THEN BitOf(a, i)
                      ELSE [set |-> 1, clear |-> 0, flip |-> 1 - BitOf(a, i)][j.op]
        [] j.program = "shift" ->
             LET n == j.in.b
                 x == IF j.op = "sar" THEN Signed(a) ELSE a
             IN  /\ r = (IF j.op = "shl" THEN x * 2^n ELSE x \div 2^n) % (2 * LongHalf)
                 /\ n # 0 => mem["c"] = IF j.op = "shl"
                                        THEN ((x * 2^n) \div (2 * LongHalf)) % 2
                                        ELSE BitOf(x, n - 1)
        [] j.program = "quotient" ->
             LET rest == Signed(R)
             IN  /\ Signed(a) = Signed(j.in.b) * Signed(r) + rest
                 /\ rest # 0 => sign(R) = sign(a)
                 /\ Signed(j.in.b) \notin -Abs(rest) .. Abs(rest)
        [] j.program = "wide_quotient" ->
             WideOf(a, j.in.A) = j.in.b * r + R /\ R < j.in.b

Routines == {"factorial", "prime", "bit", "shift", "quotient", "wide_quotient"}

(* A finite float's magnitude, in units of the smallest denormal.          *)
Magnitude2(f) == Significand(f) * 2^(ExpOf(f) - 1)
ValueOfFloat(f) == IF Sign(f) = 1 THEN -Magnitude2(f) ELSE Magnitude2(f)

(* f, of positive sign, is num / den rounded to nearest, ties to even; the *)
(* infinity stands where the next float would.                             *)
IsNearest(f, num, den) ==
  /\ f \in 0 .. P_INF
  /\ \A g \in {f - 1, f + 1} \cap (0 .. P_INF) :
       LET off(x) == Abs(Magnitude2(x) * den - num)
       IN  off(f) < off(g) \/ (off(f) = off(g) /\ f % 2 = 0)

(* The result r of a + b where both are finite.                            *)
SumRounded(r, a, b) ==
  LET sum == ValueOfFloat(a) + ValueOfFloat(b)
  IN  /\ sum # 0 => Sign(r) = B(sum < 0)
      /\ IsNearest(WithSign(0, r), Abs(sum), 1)

(* The unit in which a product of magnitudes is counted.                   *)
Unit == 2^(Bias + FracBits - 1)

(* A result at least as large as the smallest normal.                      *)
Normal(num, den) == num >= Hidden * den

ProductRounded(r, a, b) ==
  /\ Sign(r) = (Sign(a) + Sign(b)) % 2
  /\ LET num == Magnitude2(a) * Magnitude2(b)
     IN  Normal(num, Unit) => IsNearest(WithSign(0, r), num, Unit)

QuotientRounded(r, a, b) ==
  /\ Sign(r) = (Sign(a) + Sign(b)) % 2
  /\ LET num == Magnitude2(a) * Unit
     IN  Normal(num, Magnitude2(b)) =>
           \E f \in {-1, 0, 1} :
             IsNearest(WithSign(0, r) + f, num, Magnitude2(b))

Finite(f) == Exponent(f) # MaxExp

FloatRounded(j, r) ==
  LET a == j.in.a
      b == j.in.b
  IN  Finite(a) /\ Finite(b) =>
        CASE j.op = "fadds" -> SumRounded(r, a, b)
          [] j.op = "fsubs" -> SumRounded(r, a, WithSign(1 - Sign(b), b))
          [] j.op = "fmuls" -> ProductRounded(r, a, b)
          [] j.op = "fdivs" -> b \notin Zeros => QuotientRounded(r, a, b)

-----------------------------------------------------------------------------
(* Properties.                                                             *)

TypeOK ==
  /\ job \in Jobs
  /\ gpr \in [Regs -> Nat] /\ \A x \in Regs \ {"ebp"} : gpr[x] \in Longs
  /\ flags \in Flags
  /\ mem \in [Variables -> Longs \cup Codes]
  /\ fpu.top \in 0..7 /\ fpu.regStack \in [0..7 -> Codes]
  /\ irqs \in 0..job.irqs
  /\ Len(contexts) <= MaxDepth + 1
  /\ eip.at \in 1..Len(CodeOf(eip.code))

(* A 64-bit sum, difference, negation or product put together from 32-bit  *)
(* instructions is the exact one modulo 2^64, and the carry or borrow that *)
(* is left is the one a wider sum or difference goes on with: what each    *)
(* instruction leaves in CF is what the next one needs, whatever is        *)
(* between them, interrupts included (alu.c, add.c to neg.c).              *)
WideExact ==
  /\ Finished /\ job.program \in {"sum", "difference", "negation", "product"} =>
       WideOf(mem["r"], mem["R"]) = WideExpected(job) % (4 * LongHalf * LongHalf)
  /\ Finished /\ job.program \in {"sum", "difference"} =>
       (mem["c"] = 1 <=> WideExpected(job) \notin 0 .. 4 * LongHalf * LongHalf - 1)

(* A routine returns what its C source says, with the stack, and the       *)
(* registers a function keeps for its caller, as it found them: recursion, *)
(* frames, loops, divisions, shifts and bits work together, interrupts     *)
(* included (call.c, ret.c, leave.c, idiv.c, alu.c).                       *)
RoutinesRight ==
  /\ TypeOK
  /\ Finished =>
       /\ job.program \in Routines => RoutineRight(job, mem["r"], mem["R"])
       /\ stack = <<>>
       /\ job.program # "system_call" =>
            <<gpr["ebx"], gpr["ebp"], gpr["esi"], gpr["edi"]>> = <<0, 1, 2, 3>>

(* A comparison of longs, of bytes or of floats, used through a jump, a    *)
(* set or a conditional move, says what the relation is, signed and        *)
(* unsigned, and a NaN is neither above nor below anything (alu_sub,       *)
(* condition_*, fpu_cmpi).                                                 *)
ComparesRight ==
  /\ Finished /\ job.program \in {"set", "move", "branch"} =>
       (mem["r"] = 1 <=> Relation(job))
  /\ Finished /\ job.program = "float_compare"
     /\ (IsNaN(job.in.a) \/ IsNaN(job.in.b)) /\ job.cc \in {"a", "b"} =>
       mem["r"] # 1
  /\ Finished /\ job.program = "float_compare"
     /\ ~IsNaN(job.in.a) /\ ~IsNaN(job.in.b) =>
       LET a == Ordered(job.in.a)
           b == Ordered(job.in.b)
       IN  mem["r"] = 1 <=> [a |-> a > b, ae |-> a >= b, b |-> a < b, e |-> a = b,
                             ne |-> a # b][job.cc]

(* Float sums and differences are rounded as IEEE 754 says, products too   *)
(* if they do not underflow, quotients to one unit in the last place; and  *)
(* what lay below on the register stack is there afterwards (fpu.c).       *)
FloatsRounded ==
  Finished /\ job.program = "float" =>
    /\ FloatRounded(job, mem["r"])
    /\ mem["R"] = job.in.A

(* When a handler or a system call has returned, the program goes on with  *)
(* the registers, flags, stack and instruction it had, a call's result in  *)
(* eax apart: however handlers have interrupted one another meanwhile      *)
(* (raise_intr, do_irq.S, pusha, popa, iret).                              *)
ContextRestored ==
  [][Len(contexts') < Len(contexts) =>
       LET c == Last(contexts)
       IN  /\ gpr' = IF c.call THEN [c.gpr EXCEPT !["eax"] = 0] ELSE c.gpr
           /\ flags' = c.flags /\ eip' = c.eip /\ stack' = c.stack]_vars

(* A 64-bit comparison, cmp of the low halves and sbb of the high ones,    *)
(* decides as JB (CF=1) and JL (SF!=OF) are documented to                  *)
(* (ch_appendix_A_i386_correction.md:57,61).                               *)
WideCompareRight ==
  Finished /\ job.program = "wide_compare" =>
    LET a == WideOf(job.in.a, job.in.A)
        b == WideOf(job.in.b, job.in.B)
    IN  mem["r"] = 1 <=> IF job.cc = "b" THEN a < b
                         ELSE WideSigned(a) < WideSigned(b)
=============================================================================
