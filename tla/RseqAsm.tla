------------------------------ MODULE RseqAsm ------------------------------
(***************************************************************************)
(* The assembler macros of include/rseq/arch/ as instructions.             *)
(*                                                                         *)
(* A critical-section helper is a sequence of instructions built from      *)
(* these macros, one instruction per macro: what a macro does besides one  *)
(* access to shared memory happens in registers, where no other context    *)
(* can see it.  An instruction names its operands (the asm operands of     *)
(* the helper) and, for a branch, the label it jumps to.                   *)
(***************************************************************************)
EXTENDS Naturals, Sequences

CONSTANT CompareTwice   \* RSEQ_COMPARE_TWICE is defined (tests/Makefile.am)

Insn(op, a, b, to) == [op |-> op, a |-> a, b |-> b, to |-> to]

RSEQ_ASM_STORE_RSEQ_CS == Insn("store_rseq_cs", "", "", "")
RSEQ_ASM_CBNE_CPU_ID(label) == Insn("cbne_cpu_id", "", "", label)

RSEQ_ASM_OP_CBNE(var, expect, label) == Insn("cbne", var, expect, label)
RSEQ_ASM_OP_CBEQ(var, expect, label) == Insn("cbeq", var, expect, label)

RSEQ_ASM_OP_STORE(value, var) == Insn("store", value, var, "")
RSEQ_ASM_OP_R_LOAD(var) == Insn("r_load", var, "", "")
RSEQ_ASM_OP_R_STORE(var) == Insn("r_store", var, "", "")
RSEQ_ASM_OP_R_ADD(count) == Insn("r_add", count, "", "")
RSEQ_ASM_OP_R_LOAD_OFF(offset) == Insn("r_load_off", offset, "", "")

\* The value already in the register compared with an operand, and the load
\* through the register: x86, arm, mips and s390 write these two out by hand.
R_CBEQ(expect, label) == Insn("r_cbeq", expect, "", label)
R_LOAD_IND == Insn("r_load_ind", "", "", "")

\* Read-modify-write of memory in one x86 instruction, on an operand or
\* through the register.
MEM_ADD(var, count) == Insn("mem_add", var, count, "")
R_MEM_ADD(count) == Insn("r_mem_add", count, "", "")

\* A barrier that orders the stores before it with the stores after it, and
\* a store with release semantic.
FENCE == Insn("fence", "", "", "")
RSEQ_ASM_OP_STORE_RELEASE(value, var) == Insn("store_release", value, var, "")

\* The byte-wise copy, upwards through three working registers or downwards
\* through one index register, and what prepares its registers.
MEMCPY_UP == Insn("memcpy_up", "", "", "")
MEMCPY_DOWN == Insn("memcpy_down", "", "", "")
SAVE_INPUTS == Insn("save_inputs", "", "", "")
MOVE_INPUTS == Insn("move_inputs", "", "", "")

\* Instructions that only the RSEQ_COMPARE_TWICE build contains.
Twice(insns) == IF CompareTwice THEN insns ELSE << >>

IfRelease(mo, insns) == IF mo = "release" THEN insns ELSE << >>

ErrorLabel == {"error1", "error2", "error3"}
Label == {"commit", "abort", "ne", "eq"} \cup ErrorLabel

(***************************************************************************)
(* A helper: the instructions before the descriptor is published, the      *)
(* store of the descriptor, the critical section [start_ip, post_commit_ip)*)
(* and the labels whose handler reloads the input registers from           *)
(* rseq_scratch.  "inplace" helpers change their input registers.          *)
(***************************************************************************)
RSEQ_ASM_DEFINE_TABLE(pre, body, teardown, inplace) ==
    [code |-> pre \o <<RSEQ_ASM_STORE_RSEQ_CS>> \o body,
     start_ip |-> Len(pre) + 2,
     post_commit_ip |-> Len(pre) + Len(body) + 2,
     teardown |-> teardown,
     inplace |-> inplace]

Plain(body) == RSEQ_ASM_DEFINE_TABLE(<< >>, body, {}, FALSE)

Branches == {"cbne_cpu_id", "cbne", "cbeq", "r_cbeq"}

\* What every helper keeps to: it publishes its descriptor once, right before
\* the critical section; the critical section starts with the comparison of
\* the index and ends with the last instruction, after which alone it has
\* committed: branches go to the other labels.
WellFormed(p) ==
    /\ Len(p.code) \in Nat
    /\ p.start_ip \in 2 .. Len(p.code)
    /\ p.post_commit_ip = Len(p.code) + 1
    /\ p.inplace \in BOOLEAN
    /\ p.code[p.start_ip].op = "cbne_cpu_id"
    /\ \A i \in 1 .. Len(p.code) :
          /\ p.code[i].op = "store_rseq_cs" <=> i = p.start_ip - 1
          /\ p.code[i].op \in Branches => p.code[i].to \in Label \ {"commit"}

\* What the helpers that copy with their input registers keep to: the inputs are
\* saved first, and once a copy may have begun every label that returns reloads
\* them, the ones the commit and the abort handler lead to included.
Copies == {"memcpy_up", "memcpy_down"}
RestoresInputs(p) ==
    p.inplace =>
      /\ p.code[1].op = "save_inputs"
      /\ \A i \in 2 .. Len(p.code) : p.code[i].op \notin {"save_inputs", "move_inputs"}
      /\ \A i \in 1 .. Len(p.code) : p.code[i].op \in Copies =>
            /\ {"commit", "abort"} \subseteq p.teardown
            /\ \A j \in i .. Len(p.code) :
                  p.code[j].op \in Branches => p.code[j].to \in p.teardown \cup ErrorLabel

\* The operands each instruction reads, the index among them, are all among the
\* arguments a.
UsesA == {"cbne", "cbeq", "r_cbeq", "store", "store_release", "r_load", "r_store",
          "r_add", "r_load_off", "mem_add", "r_mem_add"}
UsesB == {"cbne", "cbeq", "store", "store_release", "mem_add"}
UsesInputs == {"move_inputs", "memcpy_down"}
HasOperands(p, a) ==
    /\ "cpu" \in DOMAIN a
    /\ \A i \in 1 .. Len(p.code) :
          /\ p.code[i].op \in UsesA => p.code[i].a \in DOMAIN a
          /\ p.code[i].op \in UsesB => p.code[i].b \in DOMAIN a
          /\ p.code[i].op \in UsesInputs => {"src", "dst", "len"} \subseteq DOMAIN a
    /\ p.inplace => {"src", "dst", "len"} \subseteq DOMAIN a

=============================================================================
