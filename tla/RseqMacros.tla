----------------------------- MODULE RseqMacros -----------------------------
(***************************************************************************)
(* The RSEQ_ASM_OP macros of aarch64.h, riscv.h and ppc.h, and the         *)
(* byte-wise copy and the comparison of the index on every architecture,   *)
(* instruction by instruction on registers.  RseqAsm takes each of them as *)
(* one instruction: here a macro runs on its own, the kernel may interrupt *)
(* it anywhere, and what it leaves in memory, in the registers and as the  *)
(* branch it takes is compared with what RseqAsm says it does.             *)
(*                                                                         *)
(* A long has four bits and an int two; a location holds a byte or a word. *)
(***************************************************************************)
EXTENDS Integers, Sequences, FiniteSets, TLC

CONSTANTS
    Values,     \* of the word compared
    Cpus,       \* indexes, as int
    Lens,       \* of a copy
    Sources     \* where it may start; its destination is four locations on

LONG == 16
INT == 4
Add(a, b) == (a + b) % LONG
SignExtend(x) == IF x % INT >= INT \div 2 THEN (x % INT) + LONG - INT ELSE x % INT

\* The operands in memory; the last three are rseq_local or rseq_scratch.
Operand == [v |-> 8, load |-> 9, current_cpu_id |-> 10, m_src |-> 11, m_dst |-> 12, m_len |-> 13]

VARIABLES arch, macro, reg0, mem0,      \* what runs, and on what
          reg, mem, phase, pc, taken, accesses

vars == <<arch, macro, reg0, mem0, reg, mem, phase, pc, taken, accesses>>

\* One instruction.  A location is an operand, or the sum of two registers; "#n" is
\* a register that holds n.  A branch goes to an instruction, or to 0: the label of
\* the macro.
Insn(op, d, a, b, to) == [op |-> op, d |-> d, a |-> a, b |-> b, to |-> to]
ld(d, var) == Insn("ld", d, var, "", 0)
ldw(d, var) == Insn("ldw", d, var, "", 0)
lw(d, var) == Insn("lw", d, var, "", 0)
st(s, var) == Insn("st", s, var, "", 0)
ldx(d, a, b) == Insn("ld", d, a, b, 0)
stx(s, a, b) == Insn("st", s, a, b, 0)
add(d, a, b) == Insn("add", d, a, b, 0)
sub(d, a, b) == Insn("sub", d, a, b, 0)
subw(d, a, b) == Insn("subw", d, a, b, 0)
cmp(a, b) == Insn("cmp", "cc", a, b, 0)
cmpw(a, b) == Insn("cmpw", "cc", a, b, 0)
beq(a, b, to) == Insn("beq", "", a, b, to)
bne(a, b, to) == Insn("bne", "", a, b, to)
je(to) == Insn("bne", "", "cc", "#0", to)
jne(to) == Insn("beq", "", "cc", "#0", to)

\* What runs before the critical section, in it, after it, and after an abort.
In(body) == [pre |-> << >>, body |-> body, post |-> << >>, abort |-> << >>]
Save == <<st("src", "m_src"), st("dst", "m_dst"), st("len", "m_len")>>
Restore == <<ld("len", "m_len"), ld("dst", "m_dst"), ld("src", "m_src")>>
Saved(body) == [pre |-> Save, body |-> body, post |-> Restore, abort |-> Restore]

aarch64_CBNE_CPU_ID ==
    In(<<ldw("tmp", "current_cpu_id"), subw("tmp", "tmp", "cpu"), bne("tmp", "#0", 0)>>)
aarch64_BYTEWISE_MEMCPY ==
    In(<<beq("len", "#0", 7), add("t2", "len", "#0"),
         sub("t2", "t2", "#1"), ldx("tmp", "src", "t2"), stx("tmp", "dst", "t2"),
         bne("t2", "#0", 3)>>)

aarch64(m) ==
    CASE m = "cbne" -> In(<<ld("tmp", "v"), sub("tmp", "tmp", "expect"), bne("tmp", "#0", 0)>>)
      [] m = "cbeq" -> In(<<ld("tmp", "v"), sub("tmp", "tmp", "expect"), beq("tmp", "#0", 0)>>)
      [] m = "cbne_cpu_id" -> aarch64_CBNE_CPU_ID
      [] m = "store" -> In(<<st("newv", "v")>>)
      [] m = "r_load" -> In(<<ld("tmp", "v")>>)
      [] m = "r_store" -> In(<<st("tmp", "load")>>)
      [] m = "r_load_off" -> In(<<ldx("tmp", "tmp", "voffp")>>)
      [] m = "r_add" -> In(<<add("tmp", "tmp", "count")>>)
      [] m = "memcpy" -> aarch64_BYTEWISE_MEMCPY


riscv_BYTEWISE_MEMCPY ==
    In(<<beq("len", "#0", 11),
         add("tmp", "len", "#0"), add("t2", "src", "#0"), add("t3", "dst", "#0"),
         ldx("t4", "t2", "#0"), stx("t4", "t3", "#0"),
         add("tmp", "tmp", "#-1"), add("t2", "t2", "#1"), add("t3", "t3", "#1"),
         bne("tmp", "#0", 5)>>)

riscv(m) ==
    CASE m = "cbne" -> In(<<ld("tmp", "v"), bne("tmp", "expect", 0)>>)
      [] m = "cbeq" -> In(<<ld("tmp", "v"), beq("tmp", "expect", 0)>>)
      [] m = "cbne_cpu_id" -> In(<<lw("tmp", "current_cpu_id"), bne("tmp", "cpu", 0)>>)
      [] m = "store" -> In(<<st("newv", "v")>>)
      [] m = "r_load" -> In(<<ld("tmp", "v")>>)
      [] m = "r_store" -> In(<<st("tmp", "load")>>)
      [] m = "r_load_off" -> In(<<add("tmp", "voffp", "tmp"), ldx("tmp", "tmp", "#0")>>)
      [] m = "r_add" -> In(<<add("tmp", "tmp", "count")>>)
      [] m = "memcpy" -> riscv_BYTEWISE_MEMCPY

\* r17 is tmp; r19, r20, r21 and r18 are t2 to t5.  lbzu and stbu move their pointer.
ppc_BYTEWISE_MEMCPY ==
    [In(<<cmp("t2", "#0"), je(12), add("t3", "t3", "#-1"), add("t4", "t4", "#-1"),
          ldx("t5", "t3", "#1"), add("t3", "t3", "#1"),
          stx("t5", "t4", "#1"), add("t4", "t4", "#1"),
          add("t2", "t2", "#-1"), cmp("t2", "#0"), jne(5)>>)
      EXCEPT !.pre = <<add("t2", "len", "#0"), add("t3", "src", "#0"), add("t4", "dst", "#0")>>]

ppc(m) ==
    CASE m = "cbne" -> In(<<ld("tmp", "v"), cmp("tmp", "expect"), jne(0)>>)
      [] m = "cbeq" -> In(<<ld("tmp", "v"), cmp("tmp", "expect"), je(0)>>)
      [] m = "cbne_cpu_id" -> In(<<ldw("tmp", "current_cpu_id"), cmpw("cpu", "tmp"), jne(0)>>)
      [] m = "store" -> In(<<st("newv", "v")>>)
      [] m = "r_load" -> In(<<ld("tmp", "v")>>)
      [] m = "r_store" -> In(<<st("tmp", "load")>>)
      [] m = "r_load_off" -> In(<<ldx("tmp", "voffp", "tmp")>>)
      [] m = "r_add" -> In(<<add("tmp", "count", "tmp")>>)
      [] m = "memcpy" -> ppc_BYTEWISE_MEMCPY

\* The copy on the input registers, and on three registers loaded from the stack.
CopyInPlace ==
    <<cmp("len", "#0"), je(10), ldx("tmp", "src", "#0"), stx("tmp", "dst", "#0"),
      add("src", "src", "#1"), add("dst", "dst", "#1"), add("len", "len", "#-1"),
      cmp("len", "#0"), jne(3)>>
CopyFromStack ==
    <<ld("t2", "m_dst"), ld("t3", "m_src"), ld("t4", "m_len"), cmp("t4", "#0"), je(13),
      ldx("tmp", "t3", "#0"), stx("tmp", "t2", "#0"),
      add("t3", "t3", "#1"), add("t2", "t2", "#1"), add("t4", "t4", "#-1"),
      cmp("t4", "#0"), jne(6)>>

\* x86 and s390 compare with the operand in memory.
x86_CBNE_CPU_ID == In(<<ldw("operand", "current_cpu_id"), cmpw("cpu", "operand"), jne(0)>>)
s390_CBNE_CPU_ID == In(<<ldw("operand", "current_cpu_id"), cmpw("cpu", "operand"), jne(0)>>)
arm_CBNE_CPU_ID == In(<<ld("tmp", "current_cpu_id"), cmp("cpu", "tmp"), jne(0)>>)
mips_CBNE_CPU_ID == In(<<lw("tmp", "current_cpu_id"), bne("tmp", "cpu", 0)>>)

x86_64(m) == IF m = "memcpy" THEN Saved(CopyInPlace) ELSE x86_CBNE_CPU_ID
i386(m) == IF m = "memcpy" THEN In(CopyFromStack) ELSE x86_CBNE_CPU_ID
s390(m) == IF m = "memcpy" THEN Saved(CopyInPlace) ELSE s390_CBNE_CPU_ID
arm(m) == IF m = "memcpy" THEN In(CopyFromStack) ELSE arm_CBNE_CPU_ID
mips(m) ==
    IF m = "memcpy"
      THEN Saved(<<beq("len", "#0", 8), ldx("tmp", "src", "#0"), stx("tmp", "dst", "#0"),
                   add("src", "src", "#1"), add("dst", "dst", "#1"), add("len", "len", "#-1"),
                   bne("len", "#0", 2)>>)
      ELSE mips_CBNE_CPU_ID

Program ==
    CASE arch = "aarch64" -> aarch64(macro) [] arch = "riscv" -> riscv(macro)
      [] arch = "ppc" -> ppc(macro)         [] arch = "x86_64" -> x86_64(macro)
      [] arch = "s390" -> s390(macro)       [] arch = "i386" -> i386(macro)
      [] arch = "arm" -> arm(macro)         [] arch = "mips" -> mips(macro)

\* The registers a helper tells the compiler it changes.
Clobbers ==
    {"cc", "operand"} \cup
    CASE arch = "aarch64" -> IF macro = "memcpy" THEN {"tmp", "t2"} ELSE {"tmp"}
      [] arch = "riscv" -> IF macro = "memcpy" THEN {"tmp", "t2", "t3", "t4"} ELSE {"tmp"}
      [] arch = "ppc" -> IF macro = "memcpy" THEN {"tmp", "t2", "t3", "t4", "t5"} ELSE {"tmp"}
      [] arch \in {"x86_64", "s390", "mips"} -> {"tmp"}
      [] arch \in {"i386", "arm"} ->
            IF macro = "memcpy" THEN {"tmp", "t2", "t3", "t4"} ELSE {"tmp"}

-----------------------------------------------------------------------------
WithOps == {"aarch64", "riscv", "ppc"}
Arch == WithOps \cup {"x86_64", "s390", "i386", "arm", "mips"}
Macro(a) ==
    {"cbne_cpu_id", "memcpy"}
    \cup IF a \in WithOps THEN {"cbne", "cbeq", "store", "r_load", "r_store", "r_load_off", "r_add"}
         ELSE {}

\* An int in a register: sign-extended where the calling convention says so, above
\* its width anything where it does not.
AsRegister(a, x) ==
    IF a \in {"riscv", "mips"} THEN {SignExtend(x)}
    ELSE IF a \in {"i386", "arm"} THEN {x} ELSE {x + INT * h : h \in 0 .. INT - 1}

Constants == "#0" :> 0 @@ "#1" :> 1 @@ "#-1" :> LONG - 1

Init ==
    /\ arch \in Arch /\ macro \in Macro(arch)
    /\ \E v \in Values, expect \in Values, cpu \in Cpus, current \in Cpus, len \in Lens, src \in Sources :
         /\ macro \notin {"cbne", "cbeq"} => v = expect
         /\ macro # "cbne_cpu_id" => cpu = current
         /\ macro # "memcpy" => len = 0 /\ src = 0
         /\ \E c \in AsRegister(arch, cpu) :
              reg0 = [tmp |-> v, t2 |-> 9, t3 |-> 9, t4 |-> 9, t5 |-> 9, operand |-> 9, cc |-> 0,
                      cpu |-> c, expect |-> expect, newv |-> 7, count |-> 13, voffp |-> 14,
                      src |-> src, dst |-> src + 4, len |-> len] @@ Constants
         /\ LET onStack == arch \in {"i386", "arm"}
                memory == [l \in 0 .. LONG - 1 |-> IF l < 8 THEN l + 1 ELSE 0]
            IN  mem0 = [memory EXCEPT ![Operand.v] = v,
                                      ![Operand.current_cpu_id] = current,
                                      ![Operand.m_src] = IF onStack THEN src ELSE 0,
                                      ![Operand.m_dst] = IF onStack THEN src + 4 ELSE 0,
                                      ![Operand.m_len] = IF onStack THEN len ELSE 0]
    /\ reg = reg0 /\ mem = mem0
    /\ phase = "pre" /\ pc = 1
    /\ taken = FALSE /\ accesses = {}

-----------------------------------------------------------------------------
Running == phase # "done" /\ pc <= Len(Program[phase])
This == Program[phase][pc]
Location == IF This.b = "" THEN Operand[This.a] ELSE Add(reg[This.a], reg[This.b])
Goes(to) == pc' = to /\ UNCHANGED <<phase, taken>>

Load ==
    /\ Running /\ This.op \in {"ld", "ldw", "lw"}
    /\ reg' = [reg EXCEPT ![This.d] =
                 CASE This.op = "ld" -> mem[Location]
                   [] This.op = "ldw" -> mem[Location] % INT
                   [] This.op = "lw" -> SignExtend(mem[Location])]
    /\ accesses' = accesses \cup {[pc |-> pc, phase |-> phase, at |-> Location, write |-> FALSE]}
    /\ Goes(pc + 1)
    /\ UNCHANGED <<arch, macro, reg0, mem0, mem>>

Store ==
    /\ Running /\ This.op = "st"
    /\ mem' = [mem EXCEPT ![Location] = reg[This.d]]
    /\ accesses' = accesses \cup {[pc |-> pc, phase |-> phase, at |-> Location, write |-> TRUE]}
    /\ Goes(pc + 1)
    /\ UNCHANGED <<arch, macro, reg0, mem0, reg>>

\* The condition code is 1 when the last comparison found equal values.
Compute ==
    /\ Running /\ This.op \in {"add", "sub", "subw", "cmp", "cmpw"}
    /\ LET a == reg[This.a]
           b == reg[This.b]
       IN  reg' = [reg EXCEPT ![This.d] =
                     CASE This.op = "add" -> Add(a, b)
                       [] This.op = "sub" -> Add(a, LONG - b)
                       [] This.op = "subw" -> (a + LONG - b) % INT
                       [] This.op = "cmp" -> IF a = b THEN 1 ELSE 0
                       [] This.op = "cmpw" -> IF a % INT = b % INT THEN 1 ELSE 0]
    /\ Goes(pc + 1)
    /\ UNCHANGED <<arch, macro, reg0, mem0, mem, accesses>>

Branch ==
    /\ Running /\ This.op \in {"beq", "bne"}
    /\ LET jumps == (reg[This.a] = reg[This.b]) <=> (This.op = "beq")
       IN  IF jumps /\ This.to = 0
             THEN phase' = "done" /\ taken' = TRUE /\ UNCHANGED pc
             ELSE Goes(IF jumps THEN This.to ELSE pc + 1)
    /\ UNCHANGED <<arch, macro, reg0, mem0, reg, mem, accesses>>

NextPhase ==
    /\ phase # "done" /\ pc > Len(Program[phase])
    /\ phase' = [pre |-> "body", body |-> "post", post |-> "done", abort |-> "done"][phase]
    /\ pc' = 1
    /\ UNCHANGED <<arch, macro, reg0, mem0, reg, mem, taken, accesses>>

\* The kernel moves the thread to the abort handler; it keeps the registers.
Interrupt ==
    /\ phase = "body" /\ Running
    /\ phase' = "abort" /\ pc' = 1
    /\ UNCHANGED <<arch, macro, reg0, mem0, reg, mem, taken, accesses>>

Finished == phase = "done" /\ UNCHANGED vars

Next == Load \/ Store \/ Compute \/ Branch \/ NextPhase \/ Interrupt \/ Finished

Spec == Init /\ [][Next]_vars

-----------------------------------------------------------------------------
\* What RseqAsm says a macro does to memory and to the temporary register, and when
\* it branches.
Copied(l) == l - reg0.dst \in 0 .. reg0.len - 1
MeantMem ==
    CASE macro = "store" -> [mem0 EXCEPT ![Operand.v] = reg0.newv]
      [] macro = "r_store" -> [mem0 EXCEPT ![Operand.load] = reg0.tmp]
      [] macro = "memcpy" -> [l \in DOMAIN mem0 |-> IF Copied(l) THEN mem0[l - 4] ELSE mem0[l]]
      [] OTHER -> mem0
MeantTmp ==
    CASE macro = "r_load" -> mem0[Operand.v]
      [] macro = "r_load_off" -> mem0[Add(reg0.tmp, reg0.voffp)]
      [] macro = "r_add" -> Add(reg0.tmp, reg0.count)
      [] OTHER -> reg.tmp
MeantTaken ==
    CASE macro = "cbne" -> mem0[Operand.v] # reg0.expect
      [] macro = "cbeq" -> mem0[Operand.v] = reg0.expect
      [] macro = "cbne_cpu_id" -> mem0[Operand.current_cpu_id] # reg0.cpu % INT
      [] OTHER -> FALSE

Stack == {Operand.m_src, Operand.m_dst, Operand.m_len}

\* A macro that is not interrupted does what the one instruction of RseqAsm does, in
\* memory and in the temporary register, and branches when it does.
EndsAsMeant ==
    /\ taken => MeantTaken /\ mem = mem0
    /\ phase = "post" =>
          /\ \A l \in DOMAIN mem \ Stack : mem[l] = MeantMem[l]
          /\ reg.tmp = MeantTmp
          /\ ~MeantTaken

\* Wherever it is interrupted: a copy has touched its source, its destination and its
\* own stack only, and every other macro has accessed memory at most once, so that
\* no thread can tell it from one instruction.
AccessesOwn ==
    IF macro = "memcpy"
      THEN \A x \in accesses :
              \/ x.at \in Stack
              \/ IF x.write THEN Copied(x.at) ELSE Copied(x.at + 4)
      ELSE Cardinality(accesses) <= 1

\* Whether it ends, branches or is interrupted, the registers it has not declared as
\* clobbered hold what the compiler left in them.
OnlyClobbers ==
    phase = "done" => \A r \in DOMAIN reg \ Clobbers : reg[r] = reg0[r]

=============================================================================
