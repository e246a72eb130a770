-------------------------- MODULE RseqMachineProofs --------------------------
(***************************************************************************)
(* Theorems about the machine, for any number of threads and CPUs, any     *)
(* well-formed helpers, either index and any bounds: what a critical       *)
(* section keeps to itself, what it leaves of the inputs of its caller,    *)
(* and that it commits nothing for a thread that is not registered.        *)
(***************************************************************************)
EXTENDS RseqMachine, TLAPS

\* Words are closed under the addition of the machine.
LEMMA AddWord ==
    ASSUME NEW x \in Word, NEW y \in Word
    PROVE  Add(x, y) \in Word
BY ConstantsAssumption DEF Add, Word

\* What is known of a context that runs: the helper is well formed and its
\* operands are words.
LEMMA RunningHelper ==
    ASSUME TypeOK, NEW k \in Ctx, st[k] = "run"
    PROVE  /\ k[1] \in Thread
           /\ fn[k] \in DOMAIN code
           /\ WellFormed(Prog(k))
           /\ pc[k] \in 1 .. Len(Prog(k).code)
           /\ Words(fn[k], arg[k])
           /\ I(k).op \in UsesA => A(k) \in Word
           /\ I(k).op \in UsesB => B(k) \in Word
           /\ I(k).op \in UsesInputs
                => arg[k].src \in Word /\ arg[k].dst \in Word /\ arg[k].len \in Word
<1>1. k[1] \in Thread
  BY Zenon, ConstantsAssumption DEF Ctx
<1>2. /\ fn[k] \in DOMAIN code
      /\ pc[k] \in 1 .. Len(Prog(k).code)
      /\ Words(fn[k], arg[k])
      /\ code \in Code
  BY Zenon DEF TypeOK, InHelper
<1>3. WellFormed(Prog(k))
  BY Zenon, <1>2, CodeAssumption DEF Prog
<1>5. HasOperands(Prog(k), arg[k]) /\ \A x \in DOMAIN arg[k] : arg[k][x] \in Word
  BY Zenon, <1>2 DEF Words, Prog
<1>6. /\ I(k).op \in UsesA => I(k).a \in DOMAIN arg[k]
      /\ I(k).op \in UsesB => I(k).b \in DOMAIN arg[k]
      /\ I(k).op \in UsesInputs => {"src", "dst", "len"} \subseteq DOMAIN arg[k]
  BY Zenon, <1>2, <1>5 DEF HasOperands, I
<1> QED
  BY Zenon, <1>1, <1>2, <1>3, <1>5, <1>6 DEF A, B

-----------------------------------------------------------------------------
(* Type correctness.                                                       *)

\* The initial state, with the thread-local __rseq_abi of rseq.c, has its types.
LEMMA TypeInit == Init => TypeOK
<1> SUFFICES ASSUME Init PROVE TypeOK
  OBVIOUS
<1>1. 0 \in Cpu /\ 0 \in Word
  BY ConstantsAssumption DEF Cpu, Word
<1>2. abi \in [Thread -> AbiType]
  BY Zenon, <1>1 DEF Init, AbiType
<1>3. reg \in [Ctx -> [Reg -> Word]]
  BY Zenon, <1>1 DEF Init, NoReg
<1>4. \A k \in Ctx : InHelper(k)
  BY Zenon DEF Init, InHelper, Label, ErrorLabel
<1> QED
  BY <1>1, <1>2, <1>3, <1>4, ConstantsAssumption, MemoryAssumption
  DEF Init, TypeOK, Status

\* The updates of struct rseq_abi keep its type.
LEMMA AbiUpdate ==
    ASSUME NEW r \in AbiType, NEW c \in Cpu, NEW i \in Cpu,
           NEW u \in Cpu \cup {RSEQ_ABI_CPU_ID_UNINITIALIZED},
           NEW d \in DOMAIN code \cup {NULL}
    PROVE  /\ [r EXCEPT !.rseq_cs = d] \in AbiType
           /\ [r EXCEPT !.cpu_id_start = c, !.cpu_id = u, !.mm_cid = i] \in AbiType
           /\ [r EXCEPT !.cpu_id_start = c, !.mm_cid = i, !.cpu_id = u] \in AbiType
BY Zenon DEF AbiType

\* The kernel's steps change no helper but to send one to its abort label.
LEMMA TypeKernel ==
    ASSUME TypeOK, NEW t \in Thread, Kernel(t)
    PROVE  TypeOK'
<1> USE DEF TypeOK
<1>1. ASSUME st' \in [Ctx -> Status],
             \A k \in Ctx : st'[k] \in {st[k], "abort"} /\ (st[k] \in {"idle", "done"} => st'[k] = st[k]),
             UNCHANGED <<code, fn, pc, arg>>
      PROVE  \A k \in Ctx : InHelper(k)'
  BY <1>1 DEF InHelper, Words, Prog, Status, Label, ErrorLabel
<1>2. ASSUME Fixup(t)
      PROVE  /\ st' \in [Ctx -> Status]
             /\ \A k \in Ctx : /\ st'[k] \in {st[k], "abort"}
                               /\ st[k] \in {"idle", "done"} => st'[k] = st[k]
  BY <1>2, Zenon DEF Fixup, InCs, Status, Label
<1>3. CASE Preempt(t)
  BY Zenon, <1>1, <1>3 DEF Preempt, uvars, AbiType
<1>4. ASSUME NEW c \in Cpu, NEW i \in Cids(c), Resume(t, c, i)
      PROVE  TypeOK'
  <2>1. i \in Cpu
    BY Zenon DEF Cids
  <2>2. abi' \in [Thread -> AbiType]
    BY Zenon, <1>4, <2>1 DEF Resume, AbiType
  <2> QED
    BY Zenon, <1>1, <1>2, <1>4, <2>1, <2>2 DEF Resume, uvars, AbiType
<1>5. CASE Signal(t)
  <2>1. abi[t] \in AbiType
    OBVIOUS
  <2>2. abi' \in [Thread -> AbiType]
    BY <1>5, <2>1, AbiUpdate, ConstantsAssumption, Zenon DEF Signal, Cpu
  <2>3. AbiType' = AbiType /\ \A k \in Ctx : InHelper(k)'
    BY Zenon, <1>1, <1>2, <1>5 DEF Signal, uvars, AbiType
  <2>4. signals' \in 0 .. MaxSignals /\ act' \in [Thread -> {"main", "sig"}]
    BY <1>5, ConstantsAssumption DEF Signal
  <2> QED
    BY Zenon, <1>2, <1>5, <2>2, <2>3, <2>4 DEF Signal, uvars
<1>6. CASE SigReturn(t)
  BY Zenon, <1>1, <1>6 DEF SigReturn, uvars, AbiType
<1>7. CASE Register(t)
  <2>1. abi[t] \in AbiType /\ on[t] \in Cpu /\ cid[t] \in Cpu
    BY Zenon, <1>7 DEF Register
  <2>2. abi' \in [Thread -> AbiType]
    BY <1>7, <2>1, AbiUpdate, Zenon DEF Register
  <2>3. AbiType' = AbiType /\ \A k \in Ctx : InHelper(k)'
    BY Zenon, <1>1, <1>7 DEF Register, uvars, AbiType
  <2>4. syscalls' \in 0 .. MaxSyscalls
    BY <1>7, ConstantsAssumption DEF Register
  <2> QED
    BY Zenon, <1>7, <2>2, <2>3, <2>4 DEF Register, uvars
<1>8. CASE Unregister(t)
  <2>1. abi[t] \in AbiType /\ 0 \in Cpu
    BY ConstantsAssumption DEF Cpu
  <2>2. abi' \in [Thread -> AbiType]
    BY <1>8, <2>1, AbiUpdate, Zenon DEF Unregister
  <2>3. AbiType' = AbiType /\ \A k \in Ctx : InHelper(k)'
    BY Zenon, <1>1, <1>8 DEF Unregister, uvars, AbiType
  <2>4. syscalls' \in 0 .. MaxSyscalls
    BY <1>8, ConstantsAssumption DEF Unregister
  <2> QED
    BY Zenon, <1>8, <2>2, <2>3, <2>4 DEF Unregister, uvars
<1> QED
  BY Zenon, <1>3, <1>4, <1>5, <1>6, <1>7, <1>8 DEF Kernel

\* Calling a helper through the dispatchers of rseq.h, leaving it at an exit
\* label and returning from it keep the types.
LEMMA TypeCaller ==
    ASSUME TypeOK, NEW k \in Ctx,
           (\E f \in DOMAIN code \cup Unsupported : Call(k, f)) \/ Exit(k) \/ Return(k)
    PROVE  TypeOK'
<1> USE DEF TypeOK
<1>1. ASSUME NEW f \in DOMAIN code \cup Unsupported, Call(k, f)
      PROVE  TypeOK'
  <2>1. PICK p \in Prep(f, Index(k[1]), k, mem) :
            /\ p.mem \in [Word -> Word] /\ Words(f, p.arg)
            /\ mem' = p.mem
            /\ arg' = [arg EXCEPT ![k] = p.arg]
            /\ reg' = [reg EXCEPT ![k] =
                          IF f \in DOMAIN code /\ code[f].inplace
                            THEN [NoReg EXCEPT !.src = p.arg.src, !.dst = p.arg.dst,
                                               !.len = p.arg.len]
                            ELSE NoReg]
    BY <1>1, Zenon DEF Call
  <2>2. NoReg \in [Reg -> Word]
    BY ConstantsAssumption DEF NoReg, Word
  <2>3. reg'[k] \in [Reg -> Word]
    <3>1. CASE f \in DOMAIN code /\ code[f].inplace
      <4>1. p.arg.src \in Word /\ p.arg.dst \in Word /\ p.arg.len \in Word
        BY Zenon, <2>1, <3>1 DEF Words, HasOperands
      <4> QED
        BY <2>1, <2>2, <3>1, <4>1, Zenon DEF Reg
    <3> QED
      BY Zenon, <2>1, <2>2, <3>1
  <2>4. reg' \in [Ctx -> [Reg -> Word]]
    BY Zenon, <2>1, <2>3
  <2>5. /\ f \in DOMAIN code => st' = [st EXCEPT ![k] = "run"] /\ ret' = ret
        /\ f \notin DOMAIN code => st' = [st EXCEPT ![k] = "done"] /\ ret' = [ret EXCEPT ![k] = -1]
        /\ fn' = [fn EXCEPT ![k] = f]
        /\ pc' = [pc EXCEPT ![k] = 1]
        /\ code' = code /\ calls' = [calls EXCEPT ![k] = @ + 1] /\ calls[k] < MaxCalls
        /\ UNCHANGED <<abi, kvars>>
    BY <1>1, Zenon DEF Call
  <2>6. calls' \in [Ctx -> 0 .. MaxCalls]
    BY <2>5, ConstantsAssumption
  <2>7. InHelper(k)'
    <3>1. CASE f \in DOMAIN code
      <4>1. WellFormed(code[f])
        BY Zenon, <3>1, CodeAssumption
      <4>2. 1 \in 1 .. Len(code[f].code)
        BY <4>1 DEF WellFormed
      <4>3. fn'[k] = f /\ arg'[k] = p.arg /\ pc'[k] = 1 /\ st'[k] = "run"
        BY Zenon, <2>1, <2>5, <3>1
      <4> QED
        BY Zenon, <2>1, <2>5, <3>1, <4>2, <4>3 DEF InHelper, Words, Prog
    <3>2. CASE f \notin DOMAIN code
      BY Zenon, <2>5, <3>2 DEF InHelper, Label, ErrorLabel
    <3> QED
      BY Zenon, <3>1, <3>2
  <2>8. \A j \in Ctx : InHelper(j)'
    <3>1. ASSUME NEW j \in Ctx, j # k PROVE InHelper(j)'
      <4>1. st'[j] = st[j] /\ fn'[j] = fn[j] /\ arg'[j] = arg[j] /\ pc'[j] = pc[j]
        BY Zenon, <2>1, <2>5, <3>1
      <4> QED
        BY Zenon, <2>5, <3>1, <4>1 DEF InHelper, Words, Prog
    <3> QED
      BY Zenon, <2>7, <3>1
  <2>9. st' \in [Ctx -> Status] /\ ret' \in [Ctx -> {-1, 0, 1}]
    BY <2>5, Zenon DEF Status
  <2>10. AbiType' = AbiType
    BY Zenon, <2>5 DEF AbiType
  <2> QED
    BY Zenon, <2>1, <2>4, <2>5, <2>6, <2>8, <2>9, <2>10 DEF kvars
<1>2. CASE Exit(k)
  <2>1. reg' \in [Ctx -> [Reg -> Word]]
    <3>0. reg[k] \in [Reg -> Word]
      BY Zenon
    <3>1. reg[k].s0 \in Word /\ reg[k].s1 \in Word /\ reg[k].s2 \in Word
      BY <3>0 DEF Reg
    <3> QED
      BY <1>2, <3>1, Zenon DEF Exit, Reg
  <2>2. st' \in [Ctx -> Status] /\ ret' \in [Ctx -> {-1, 0, 1}]
    BY Zenon, <1>2 DEF Exit, Status
  <2>3. AbiType' = AbiType /\ \A j \in Ctx : InHelper(j)'
    BY Zenon, <1>2 DEF Exit, kvars, AbiType, InHelper, Words, Prog, Label, ErrorLabel
  <2> QED
    BY Zenon, <1>2, <2>1, <2>2, <2>3 DEF Exit, kvars
<1>3. CASE Return(k)
  <2>1. NoReg \in [Reg -> Word]
    BY ConstantsAssumption DEF NoReg, Word
  <2>2. AbiType' = AbiType /\ \A j \in Ctx : InHelper(j)'
    BY Zenon, <1>3 DEF Return, kvars, AbiType, InHelper, Words, Prog, Label, ErrorLabel
  <2>3. st' \in [Ctx -> Status] /\ pc' \in [Ctx -> Nat]
    BY Zenon, <1>3 DEF Return, Status
  <2> QED
    BY Zenon, <1>3, <2>1, <2>2, <2>3 DEF Return, kvars
<1> QED
  BY Zenon, <1>1, <1>2, <1>3

\* The three forms an instruction takes keep the types: it branches, changes
\* registers, or changes memory, and goes on to the next instruction.
LEMMA TypeAdvance ==
    ASSUME TypeOK, NEW k \in Ctx, st[k] = "run",
           \/ Advance(k)
           \/ UNCHANGED <<st, pc>>
           \/ I(k).to \in Label /\ st' = [st EXCEPT ![k] = I(k).to] /\ UNCHANGED pc,
           UNCHANGED <<code, fn, arg>>
    PROVE  /\ st' \in [Ctx -> Status]
           /\ pc' \in [Ctx -> Nat]
           /\ \A j \in Ctx : InHelper(j)'
<1>1. /\ fn[k] \in DOMAIN code /\ Words(fn[k], arg[k])
      /\ pc[k] \in 1 .. Len(Prog(k).code)
      /\ Len(Prog(k).code) \in Nat
      /\ Prog(k).post_commit_ip = Len(Prog(k).code) + 1
  BY Zenon, RunningHelper DEF WellFormed
<1>2. /\ st \in [Ctx -> Status] /\ pc \in [Ctx -> Nat]
      /\ \A j \in Ctx : InHelper(j)
  BY Zenon DEF TypeOK
<1>3. /\ st' \in [Ctx -> Status] /\ pc' \in [Ctx -> Nat]
      /\ st'[k] = "run" => pc'[k] \in 1 .. Len(Prog(k).code)
  <2>1. CASE Advance(k)
    <3>1. pc' = [pc EXCEPT ![k] = pc[k] + 1] /\ pc[k] \in Nat
      BY Zenon, <1>2, <2>1 DEF Advance
    <3>2. CASE pc[k] = Len(Prog(k).code)
      <4>1. st' = [st EXCEPT ![k] = "commit"]
        BY Zenon, <1>1, <2>1, <3>2 DEF Advance
      <4> QED
        BY <1>2, <3>1, <4>1 DEF Status, Label
    <3>3. CASE pc[k] # Len(Prog(k).code)
      <4>1. st' = st
        BY <1>1, <2>1, <3>3 DEF Advance
      <4>2. pc[k] + 1 \in 1 .. Len(Prog(k).code)
        BY <1>1, <3>3
      <4> QED
        BY <1>2, <3>1, <4>1, <4>2
    <3> QED
      BY Zenon, <3>2, <3>3
  <2>2. CASE UNCHANGED <<st, pc>>
    BY Zenon, <1>1, <1>2, <2>2
  <2>3. CASE I(k).to \in Label /\ st' = [st EXCEPT ![k] = I(k).to] /\ UNCHANGED pc
    BY Zenon, <1>2, <2>3 DEF Status, Label, ErrorLabel
  <2> QED
    BY Zenon, <2>1, <2>2, <2>3
<1>4. ASSUME NEW j \in Ctx PROVE InHelper(j)'
  <2>1. CASE j = k
    BY Zenon, <1>1, <1>3, <2>1 DEF InHelper, Words, Prog
  <2>2. CASE j # k
    <3>1. st'[j] = st[j] /\ pc'[j] = pc[j]
      BY Zenon, <1>2, <2>2 DEF Advance
    <3> QED
      BY Zenon, <1>2, <3>1 DEF InHelper, Words, Prog
  <2> QED
    BY Zenon, <2>1, <2>2
<1> QED
  BY Zenon, <1>3, <1>4

\* A compare-and-branch goes to one of its helper's labels or on.
LEMMA TypeBranch ==
    ASSUME TypeOK, NEW k \in Ctx, st[k] = "run", NEW b \in BOOLEAN, Branch(k, b),
           I(k).to \in Label \/ ~b
    PROVE  TypeOK'
<1>1. /\ st' \in [Ctx -> Status] /\ pc' \in [Ctx -> Nat]
      /\ \A j \in Ctx : InHelper(j)'
  BY Zenon, TypeAdvance DEF Branch, uvars
<1> QED
  BY Zenon, <1>1 DEF TypeOK, AbiType, Branch, uvars, kvars

\* An instruction that loads or computes a register keeps the types.
LEMMA TypeSetReg ==
    ASSUME TypeOK, NEW k \in Ctx, st[k] = "run",
           NEW r \in [Reg -> Word], SetReg(k, r)
    PROVE  TypeOK'
<1>1. /\ st' \in [Ctx -> Status] /\ pc' \in [Ctx -> Nat]
      /\ \A j \in Ctx : InHelper(j)'
  BY Zenon, TypeAdvance DEF SetReg, uvars
<1>2. reg' \in [Ctx -> [Reg -> Word]]
  BY Zenon DEF SetReg, TypeOK
<1> QED
  BY Zenon, <1>1, <1>2 DEF TypeOK, AbiType, SetReg, uvars, kvars

\* A store of a word to a word of memory keeps the types.
LEMMA TypeStore ==
    ASSUME TypeOK, NEW k \in Ctx, st[k] = "run",
           NEW a \in Word, NEW x \in Word, Store(k, a, x)
    PROVE  TypeOK'
<1>1. /\ st' \in [Ctx -> Status] /\ pc' \in [Ctx -> Nat]
      /\ \A j \in Ctx : InHelper(j)'
  BY Zenon, TypeAdvance DEF Store, uvars
<1>2. mem' \in [Word -> Word]
  BY Zenon DEF Store, TypeOK
<1> QED
  BY Zenon, <1>1, <1>2 DEF TypeOK, AbiType, Store, uvars, kvars

\* Every instruction of a helper, the loops that copy bytes included, keeps the
\* types.
LEMMA TypeStep ==
    ASSUME TypeOK, NEW k \in Ctx, Step(k)
    PROVE  TypeOK'
<1>1. st[k] = "run"
  BY Zenon DEF Step, At, StoreRseqCs, CbneCpuId, OpCbne, OpCbeq, OpRCbeq, OpRLoad, OpRAdd,
         OpRLoadInd, OpRLoadOff, OpStore, OpStoreRelease, OpRStore, OpMemAdd, OpRMemAdd,
         OpFence, SaveInputs, MoveInputs, MemcpyUp, MemcpyDown
<1>2. /\ k[1] \in Thread /\ fn[k] \in DOMAIN code
      /\ I(k).op \in {"cbne_cpu_id", "cbne", "cbeq", "r_cbeq"} => I(k).to \in Label
      /\ I(k).op \in UsesA => A(k) \in Word
      /\ I(k).op \in UsesB => B(k) \in Word
      /\ I(k).op \in UsesInputs
           => arg[k].src \in Word /\ arg[k].dst \in Word /\ arg[k].len \in Word
  BY Zenon, <1>1, RunningHelper DEF WellFormed, Branches, I
<1>3. /\ reg[k] \in [Reg -> Word] /\ mem \in [Word -> Word]
      /\ \A x \in Reg : reg[k][x] \in Word
      /\ \A x \in Word : mem[x] \in Word
  BY Zenon DEF TypeOK
<1>4. /\ reg[k].r \in Word /\ reg[k].src \in Word /\ reg[k].dst \in Word /\ reg[k].len \in Word
      /\ reg[k].s0 \in Word /\ reg[k].s1 \in Word /\ reg[k].s2 \in Word
  BY Zenon, <1>3 DEF Reg
<1>5. CASE StoreRseqCs(k)
  <2>1. /\ st' \in [Ctx -> Status] /\ pc' \in [Ctx -> Nat]
        /\ \A j \in Ctx : InHelper(j)'
    BY Zenon, <1>1, <1>5, TypeAdvance DEF StoreRseqCs, uvars
  <2>2. abi[k[1]] \in AbiType /\ 0 \in Cpu
    BY <1>2, ConstantsAssumption DEF TypeOK, Cpu
  <2>3. [abi[k[1]] EXCEPT !.rseq_cs = fn[k]] \in AbiType
    BY <1>2, <2>2, AbiUpdate, Zenon
  <2>4. abi' \in [Thread -> AbiType]
    BY <1>5, <2>3, Zenon DEF StoreRseqCs, TypeOK
  <2>5. AbiType' = AbiType
    BY Zenon, <1>5 DEF StoreRseqCs, AbiType
  <2> QED
    BY Zenon, <1>5, <2>1, <2>4, <2>5 DEF TypeOK, StoreRseqCs, uvars, kvars
<1>6. CASE CbneCpuId(k) \/ OpCbne(k) \/ OpCbeq(k) \/ OpRCbeq(k)
  BY <1>1, <1>2, <1>6, TypeBranch, Zenon DEF CbneCpuId, OpCbne, OpCbeq, OpRCbeq, At
<1>7. CASE OpFence(k)
  BY <1>1, <1>7, TypeBranch, Zenon DEF OpFence
<1>8. CASE OpRLoad(k) \/ OpRAdd(k) \/ OpRLoadInd(k) \/ OpRLoadOff(k)
  <2>1. ASSUME NEW x \in Word PROVE [reg[k] EXCEPT !.r = x] \in [Reg -> Word]
    BY Zenon, <1>3
  <2>2. CASE OpRLoad(k)
    BY Zenon, <1>1, <1>2, <1>3, <2>1, <2>2, TypeSetReg DEF OpRLoad, At, UsesA
  <2>3. CASE OpRAdd(k)
    <3>1. Add(reg[k].r, A(k)) \in Word
      BY Zenon, <1>2, <1>4, <2>3, AddWord DEF OpRAdd, At, UsesA
    <3> QED
      BY Zenon, <1>1, <2>1, <2>3, <3>1, TypeSetReg DEF OpRAdd
  <2>4. CASE OpRLoadInd(k)
    BY Zenon, <1>1, <1>3, <1>4, <2>1, <2>4, TypeSetReg DEF OpRLoadInd
  <2>5. CASE OpRLoadOff(k)
    <3>1. mem[Add(reg[k].r, A(k))] \in Word
      BY Zenon, <1>2, <1>3, <1>4, <2>5, AddWord DEF OpRLoadOff, At, UsesA
    <3> QED
      BY Zenon, <1>1, <2>1, <2>5, <3>1, TypeSetReg DEF OpRLoadOff
  <2> QED
    BY Zenon, <1>8, <2>2, <2>3, <2>4, <2>5
<1>9. CASE OpStore(k) \/ OpStoreRelease(k) \/ OpRStore(k)
  BY Zenon, <1>1, <1>2, <1>4, <1>9, TypeStore DEF OpStore, OpStoreRelease, OpRStore, At, UsesA, UsesB
<1>10. CASE OpMemAdd(k)
  <2>1. A(k) \in Word /\ Add(mem[A(k)], B(k)) \in Word
    BY Zenon, <1>2, <1>3, <1>10, AddWord DEF OpMemAdd, At, UsesA, UsesB
  <2> QED
    BY Zenon, <1>1, <1>10, <2>1, TypeStore DEF OpMemAdd
<1>11. CASE OpRMemAdd(k)
  <2>1. Add(mem[reg[k].r], A(k)) \in Word
    BY Zenon, <1>2, <1>3, <1>4, <1>11, AddWord DEF OpRMemAdd, At, UsesA
  <2> QED
    BY Zenon, <1>1, <1>4, <1>11, <2>1, TypeStore DEF OpRMemAdd
<1>12. CASE SaveInputs(k)
  <2>1. [reg[k] EXCEPT !.s0 = reg[k].src, !.s1 = reg[k].dst, !.s2 = reg[k].len] \in [Reg -> Word]
    BY <1>3, <1>4, Zenon
  <2> QED
    BY <1>1, <1>12, <2>1, TypeSetReg, Zenon DEF SaveInputs
<1>13. CASE MoveInputs(k)
  <2>1. arg[k].src \in Word /\ arg[k].dst \in Word /\ arg[k].len \in Word
    BY Zenon, <1>2, <1>13 DEF MoveInputs, At, UsesInputs
  <2>2. [reg[k] EXCEPT !.src = arg[k].src, !.dst = arg[k].dst, !.len = arg[k].len] \in [Reg -> Word]
    BY <1>3, <2>1, Zenon
  <2> QED
    BY <1>1, <1>13, <2>2, TypeSetReg, Zenon DEF MoveInputs
<1>14. CASE MemcpyUp(k) \/ MemcpyDown(k)
  <2>1. CASE reg[k].len = 0
    <3>1. Branch(k, FALSE)
      BY <1>14, <2>1, Zenon DEF MemcpyUp, MemcpyDown
    <3> QED
      BY <1>1, <3>1, TypeBranch, Zenon
  <2>2. CASE reg[k].len # 0
    <3>1. UNCHANGED <<code, abi, st, pc, uvars, kvars>>
      BY Zenon, <1>14, <2>2 DEF MemcpyUp, MemcpyDown
    <3>2. \A j \in Ctx : InHelper(j)'
      BY Zenon, <1>1, <3>1, TypeAdvance DEF uvars
    <3>3. reg[k].len - 1 \in Word
      BY <1>4, <2>2, ConstantsAssumption DEF Word
    <3>4. mem' \in [Word -> Word]
      <4>1. CASE MemcpyUp(k)
        BY Zenon, <1>3, <1>4, <2>2, <4>1 DEF MemcpyUp
      <4>2. CASE MemcpyDown(k)
        <5>1. mem[Add(arg[k].src, reg[k].len - 1)] \in Word
          BY Zenon, <1>2, <1>3, <3>3, <4>2, AddWord DEF MemcpyDown, At, UsesInputs
        <5> QED
          BY Zenon, <1>3, <2>2, <4>2, <5>1 DEF MemcpyDown
      <4> QED
        BY Zenon, <1>14, <4>1, <4>2
    <3>5. reg' \in [Ctx -> [Reg -> Word]]
      <4>1. reg \in [Ctx -> [Reg -> Word]]
        BY Zenon DEF TypeOK
      <4>2. CASE MemcpyUp(k)
        <5>1. 1 \in Word
          BY <1>4, <2>2, ConstantsAssumption DEF Word
        <5>2. Add(reg[k].src, 1) \in Word /\ Add(reg[k].dst, 1) \in Word
          BY Zenon, <1>4, <5>1, AddWord
        <5> QED
          BY <2>2, <3>3, <4>1, <4>2, <5>2 DEF MemcpyUp
      <4>3. CASE MemcpyDown(k)
        BY <2>2, <3>3, <4>1, <4>3 DEF MemcpyDown
      <4> QED
        BY Zenon, <1>14, <4>2, <4>3
    <3> QED
      BY Zenon, <3>1, <3>2, <3>4, <3>5 DEF TypeOK, AbiType, uvars, kvars
  <2> QED
    BY Zenon, <2>1, <2>2
<1> QED
  BY Zenon, <1>5, <1>6, <1>7, <1>8, <1>9, <1>10, <1>11, <1>12, <1>13, <1>14 DEF Step

\* The machine keeps its types: no helper runs off its last instruction, and
\* every address and value a helper computes from words is a word.
THEOREM TypeCorrect == Spec => []TypeOK
<1>1. Init => TypeOK
  BY Zenon, TypeInit
<1>2. TypeOK /\ [Next]_vars => TypeOK'
  <2> SUFFICES ASSUME TypeOK, [Next]_vars PROVE TypeOK'
    OBVIOUS
  <2>1. CASE \E t \in Thread : Kernel(t)
    BY Zenon, <2>1, TypeKernel
  <2>2. CASE \E k \in Ctx : User(k)
    BY Zenon, <2>2, TypeCaller, TypeStep DEF User
  <2>3. CASE UNCHANGED vars
    BY Zenon, <2>3 DEF vars, TypeOK, AbiType, InHelper, Words, Prog
  <2> QED
    BY Zenon, <2>1, <2>2, <2>3 DEF Next
<1> QED
  BY <1>1, <1>2, PTL DEF Spec

-----------------------------------------------------------------------------
(* Mutual exclusion on the data of a CPU.                                  *)

\* No context is in a helper at the start.
LEMMA ProtectedInit == Init => Protected
<1> SUFFICES ASSUME Init PROVE Protected
  OBVIOUS
<1>1. /\ \A k \in Ctx : st[k] = "idle"
      /\ \A t \in Thread : on[t] = Off
      /\ registered \subseteq Thread
  BY Zenon, ConstantsAssumption DEF Init
<1>2. \A t \in Handler : <<t, "sig">> \in Ctx
  BY Zenon DEF Ctx
<1>3. CallersRegistered /\ HandlersIdle /\ DescriptorSet /\ IndexOwned
  BY Zenon, <1>1, <1>2 DEF CallersRegistered, HandlersIdle, DescriptorSet, IndexOwned, InCs, Checked
<1>4. AbiCurrent /\ CpusDistinct
  BY Zenon, <1>1 DEF AbiCurrent, CpusDistinct
<1> QED
  BY Zenon, <1>3, <1>4 DEF Protected

\* What one instruction of context k does to the state the invariant is about.
LEMMA StepForm ==
    ASSUME TypeOK, NEW k \in Ctx, Step(k)
    PROVE  /\ Active(k) /\ st[k] = "run" /\ st'[k] # "idle"
           /\ UNCHANGED <<code, fn, arg, kvars>>
           /\ \A j \in Ctx : j # k => st'[j] = st[j] /\ pc'[j] = pc[j]
           /\ st'[k] = "run" => pc'[k] \in {pc[k], pc[k] + 1}
           /\ I(k).op = "store_rseq_cs" => abi' = [abi EXCEPT ![k[1]].rseq_cs = fn[k]]
           /\ I(k).op # "store_rseq_cs" => abi' = abi
           /\ I(k).op = "cbne_cpu_id" /\ st'[k] = "run" => arg[k].cpu = abi[k[1]][Mode]
           /\ I(k).op = "store_rseq_cs" /\ st'[k] = "run" => pc'[k] = pc[k] + 1
<1>1. /\ st \in [Ctx -> Status] /\ pc \in [Ctx -> Nat]
  BY Zenon DEF TypeOK
<1>2. st[k] = "run" /\ Active(k)
  BY Zenon DEF Step, At, StoreRseqCs, CbneCpuId, OpCbne, OpCbeq, OpRCbeq, OpRLoad, OpRAdd,
         OpRLoadInd, OpRLoadOff, OpStore, OpStoreRelease, OpRStore, OpMemAdd, OpRMemAdd,
         OpFence, SaveInputs, MoveInputs, MemcpyUp, MemcpyDown
<1>3. I(k).op \in {"cbne_cpu_id", "cbne", "cbeq", "r_cbeq"} => I(k).to \in Label
  BY <1>2, RunningHelper, Zenon DEF WellFormed, Branches, I
<1>4. ASSUME Advance(k)
      PROVE  /\ st'[k] # "idle"
             /\ \A j \in Ctx : j # k => st'[j] = st[j] /\ pc'[j] = pc[j]
             /\ pc'[k] = pc[k] + 1
  BY Zenon, <1>1, <1>2, <1>4 DEF Advance
<1>5. ASSUME NEW b \in BOOLEAN, Branch(k, b), b => I(k).to \in Label
      PROVE  /\ st'[k] # "idle"
             /\ \A j \in Ctx : j # k => st'[j] = st[j] /\ pc'[j] = pc[j]
             /\ st'[k] = "run" => ~b /\ pc'[k] = pc[k] + 1
             /\ UNCHANGED <<code, fn, arg, kvars, abi>>
  BY Zenon, <1>1, <1>4, <1>5 DEF Branch, uvars, Label, ErrorLabel
<1>6. CASE StoreRseqCs(k)
  BY Zenon, <1>2, <1>4, <1>6 DEF StoreRseqCs, At, uvars
<1>7. CASE CbneCpuId(k)
  BY <1>2, <1>3, <1>5, <1>7, Zenon DEF CbneCpuId, At
<1>8. CASE OpCbne(k) \/ OpCbeq(k) \/ OpRCbeq(k) \/ OpFence(k)
  BY <1>2, <1>3, <1>5, <1>8, Zenon DEF OpCbne, OpCbeq, OpRCbeq, OpFence, At
<1>9. CASE OpRLoad(k) \/ OpRAdd(k) \/ OpRLoadInd(k) \/ OpRLoadOff(k)
           \/ SaveInputs(k) \/ MoveInputs(k)
  BY Zenon, <1>2, <1>4, <1>9 DEF OpRLoad, OpRAdd, OpRLoadInd, OpRLoadOff, SaveInputs, MoveInputs,
                          SetReg, At, uvars
<1>10. CASE OpStore(k) \/ OpStoreRelease(k) \/ OpRStore(k) \/ OpMemAdd(k) \/ OpRMemAdd(k)
  BY Zenon, <1>2, <1>4, <1>10 DEF OpStore, OpStoreRelease, OpRStore, OpMemAdd, OpRMemAdd,
                           Store, At, uvars
<1>11. CASE MemcpyUp(k) \/ MemcpyDown(k)
  <2>1. CASE Branch(k, FALSE)
    BY <1>2, <1>5, <1>11, <2>1, Zenon DEF MemcpyUp, MemcpyDown, At
  <2>2. CASE UNCHANGED <<code, abi, st, pc, uvars, kvars>>
    BY <1>1, <1>2, <1>11, <2>2, Zenon DEF MemcpyUp, MemcpyDown, At, uvars
  <2> QED
    BY <1>11, <2>1, <2>2, Zenon DEF MemcpyUp, MemcpyDown
<1> QED
  BY Zenon, <1>6, <1>7, <1>8, <1>9, <1>10, <1>11 DEF Step

\* The kernel's steps keep the invariant: a thread it takes off a CPU or gives a
\* signal is out of its critical section before it runs again.
LEMMA ProtectedKernel ==
    ASSUME TypeOK, RegisteredCalls, Protected, NEW t \in Thread, Kernel(t)
    PROVE  Protected'
<1> USE DEF Protected
<1>1. /\ \A k \in Ctx : k[1] \in Thread
      /\ \A k \in Ctx : k = <<k[1], k[2]>>
      /\ \A h \in Handler : <<h, "sig">> \in Ctx /\ h \in Thread
      /\ \A h \in Thread : <<h, "main">> \in Ctx
  BY ConstantsAssumption DEF Ctx
<1>2. /\ on \in [Thread -> Cpu \cup {Off}] /\ cid \in [Thread -> Cpu]
      /\ act \in [Thread -> {"main", "sig"}] /\ abi \in [Thread -> AbiType]
      /\ st \in [Ctx -> Status]
  BY Zenon DEF TypeOK
\* A fix-up takes the context that executes out of its critical section.
<1>3. ASSUME Fixup(t), UNCHANGED <<code, fn, pc, registered>>
      PROVE  /\ \A k \in Ctx : InCs(k)' => InCs(k) /\ k[1] # t
             /\ \A k \in Ctx : Checked(k)' => Checked(k)
             /\ \A k \in Ctx : st[k] = "idle" <=> st'[k] = "idle"
  <2>1. \A k \in Ctx : st'[k] \in {st[k], "abort"} /\ (st[k] = "idle" => st'[k] = "idle")
    BY Zenon, <1>2, <1>3 DEF Fixup, InCs
  <2>2. ASSUME NEW k \in Ctx, InCs(k)'
        PROVE  InCs(k) /\ k[1] # t
    <3>1. st'[k] = "run" /\ st[k] = "run" /\ InCs(k)
      BY Zenon, <1>3, <2>1, <2>2 DEF InCs, Prog
    <3>2. ASSUME k[1] = t PROVE FALSE
      <4>1. k = <<t, act[t]>> /\ abi[t].rseq_cs = fn[k] /\ t \in registered
        BY <1>1, <3>1, <3>2 DEF DescriptorSet, CallersRegistered
      <4>2. st' = [st EXCEPT ![k] = "abort"]
        BY Zenon, <1>3, <3>1, <4>1 DEF Fixup
      <4> QED
        BY Zenon, <1>2, <3>1, <4>2
    <3> QED
      BY Zenon, <3>1, <3>2
  <2>3. \A k \in Ctx : Checked(k)' => Checked(k)
    BY Zenon, <1>3, <2>2 DEF Checked, Prog
  <2> QED
    BY Zenon, <2>1, <2>2, <2>3
<1>4. CASE Preempt(t)
  <2>1. UNCHANGED <<code, cid, registered, abi, act, st, fn, pc, arg>> /\ on' = [on EXCEPT ![t] = Off]
    BY Zenon, <1>4 DEF Preempt, uvars
  <2>2. \A u \in Thread : on'[u] # Off => u # t /\ on'[u] = on[u]
    BY Zenon, <1>2, <2>1
  <2>3. \A k \in Ctx : (Active(k)' => Active(k) /\ k[1] # t) /\ (Checked(k)' <=> Checked(k)) /\ (InCs(k)' <=> InCs(k))
    BY Zenon, <1>1, <2>1, <2>2 DEF Active, Checked, InCs, Prog
  <2>4. CallersRegistered' /\ HandlersIdle' /\ DescriptorSet'
    BY <2>1, <2>3, Zenon DEF CallersRegistered, HandlersIdle, DescriptorSet
  <2>5. IndexOwned'
    BY Zenon, <1>1, <2>1, <2>2, <2>3 DEF IndexOwned, OwnIndex, Active
  <2>6. AbiCurrent' /\ CpusDistinct'
    BY <2>1, <2>2 DEF AbiCurrent, CpusDistinct, TypeOK
  <2> QED
    BY Zenon, <2>4, <2>5, <2>6
<1>5. ASSUME NEW c \in Cpu, NEW i \in Cids(c), Resume(t, c, i)
      PROVE  Protected'
  <2>1. /\ UNCHANGED <<code, registered, act, fn, pc, arg>> /\ Fixup(t)
        /\ on' = [on EXCEPT ![t] = c] /\ cid' = [cid EXCEPT ![t] = i]
        /\ \A u \in Thread : on[u] # Off => on[u] # c /\ cid[u] # i
        /\ \A u \in Thread : u # t => abi'[u] = abi[u]
        /\ t \in registered => abi'[t].cpu_id = c /\ abi'[t].mm_cid = i
    BY Zenon, <1>2, <1>5 DEF Resume, uvars
  <2>2. /\ \A k \in Ctx : InCs(k)' => InCs(k) /\ k[1] # t
        /\ \A k \in Ctx : Checked(k)' => Checked(k)
        /\ \A k \in Ctx : st[k] = "idle" <=> st'[k] = "idle"
    BY <1>3, <2>1, Zenon
  <2>3. on'[t] = c /\ cid'[t] = i /\ \A u \in Thread : u # t => on'[u] = on[u] /\ cid'[u] = cid[u]
    BY <1>2, <2>1, Zenon
  <2>4. CallersRegistered' /\ HandlersIdle' /\ DescriptorSet'
    BY Zenon, <1>1, <2>1, <2>2 DEF CallersRegistered, HandlersIdle, DescriptorSet
  <2>5. IndexOwned'
    BY <1>1, <2>1, <2>2, <2>3 DEF IndexOwned, OwnIndex, Active, Checked
  <2>6. AbiCurrent'
    <3>1. registered' \subseteq Thread
      BY <2>1, Zenon DEF TypeOK
    <3>2. ASSUME NEW u \in registered', on'[u] # Off
          PROVE  abi'[u].cpu_id = on'[u] /\ abi'[u].mm_cid = cid'[u]
      <4>1. CASE u = t
        BY <2>1, <2>3, <3>2, <4>1, Zenon
      <4>2. CASE u # t
        BY <2>1, <2>3, <3>1, <3>2, <4>2 DEF AbiCurrent
      <4> QED
        BY <4>1, <4>2, Zenon
    <3> QED
      BY Zenon, <3>2 DEF AbiCurrent
  <2>7. CpusDistinct'
    BY <2>1, <2>3 DEF CpusDistinct
  <2> QED
    BY Zenon, <2>4, <2>5, <2>6, <2>7
<1>6. CASE Signal(t)
  <2>1. /\ UNCHANGED <<code, on, cid, registered, fn, pc, arg>> /\ Fixup(t)
        /\ t \in Handler /\ act[t] = "main" /\ act' = [act EXCEPT ![t] = "sig"]
        /\ \A u \in Thread : u # t => abi'[u] = abi[u]
    BY Zenon, <1>2, <1>6 DEF Signal, uvars
  <2>2. abi'[t].cpu_id = abi[t].cpu_id /\ abi'[t].mm_cid = abi[t].mm_cid
    BY Zenon, <1>2, <1>6 DEF Signal, AbiType
  <2>3. /\ \A k \in Ctx : InCs(k)' => InCs(k) /\ k[1] # t
        /\ \A k \in Ctx : Checked(k)' => Checked(k)
        /\ \A k \in Ctx : st[k] = "idle" <=> st'[k] = "idle"
    BY <1>3, <2>1, Zenon
  <2>4. act'[t] = "sig" /\ \A u \in Thread : u # t => act'[u] = act[u]
    BY Zenon, <1>2, <2>1
  <2>5. CallersRegistered' /\ HandlersIdle' /\ DescriptorSet'
    BY <1>1, <2>1, <2>3, <2>4 DEF CallersRegistered, HandlersIdle, DescriptorSet
  <2>6. IndexOwned'
    BY <1>1, <2>1, <2>3, <2>4 DEF IndexOwned, OwnIndex, Active, Checked
  <2>7. AbiCurrent' /\ CpusDistinct'
    <3>1. registered \subseteq Thread
      BY Zenon DEF TypeOK
    <3>2. AbiCurrent'
      BY <2>1, <2>2, <3>1, Zenon DEF AbiCurrent
    <3>3. CpusDistinct'
      BY <2>1, Zenon DEF CpusDistinct
    <3> QED
      BY Zenon, <3>2, <3>3
  <2> QED
    BY Zenon, <2>5, <2>6, <2>7
<1>7. CASE SigReturn(t)
  <2>1. /\ UNCHANGED <<code, on, cid, registered, abi, st, fn, pc, arg>>
        /\ act[t] = "sig" /\ st[<<t, "sig">>] = "idle" /\ act' = [act EXCEPT ![t] = "main"]
    BY <1>7, Zenon DEF SigReturn, uvars
  <2>2. act'[t] = "main" /\ \A u \in Thread : u # t => act'[u] = act[u]
    BY Zenon, <1>2, <2>1
  <2>3. \A k \in Ctx : (Checked(k)' <=> Checked(k)) /\ (InCs(k)' <=> InCs(k))
    BY Zenon, <2>1 DEF Checked, InCs, Prog
  <2>4. \A k \in Ctx : InCs(k) => k[1] # t
    BY <1>1, <2>1 DEF DescriptorSet, InCs
  <2>5. CallersRegistered' /\ HandlersIdle' /\ DescriptorSet'
    BY <1>1, <2>1, <2>2, <2>3, <2>4 DEF CallersRegistered, HandlersIdle, DescriptorSet
  <2>6. IndexOwned'
    BY Zenon, <1>1, <2>1, <2>2, <2>3, <2>4 DEF IndexOwned, OwnIndex, Active, Checked
  <2>7. AbiCurrent' /\ CpusDistinct'
    BY Zenon, <2>1 DEF AbiCurrent, CpusDistinct
  <2> QED
    BY Zenon, <2>5, <2>6, <2>7
<1>8. CASE Register(t)
  <2>1. /\ UNCHANGED <<code, on, cid, act, st, fn, pc, arg>>
        /\ registered' = registered \cup {t}
        /\ \A u \in Thread : u # t => abi'[u] = abi[u]
    BY Zenon, <1>2, <1>8 DEF Register, uvars
  <2>2. abi'[t].cpu_id = on[t] /\ abi'[t].mm_cid = cid[t] /\ abi'[t].rseq_cs = abi[t].rseq_cs
    BY Zenon, <1>2, <1>8 DEF Register, AbiType
  <2>3. \A k \in Ctx : (Checked(k)' <=> Checked(k)) /\ (InCs(k)' <=> InCs(k)) /\ (Active(k)' <=> Active(k))
    BY <2>1, Zenon DEF Checked, InCs, Prog, Active
  <2>4. CallersRegistered' /\ HandlersIdle' /\ DescriptorSet'
    BY Zenon, <1>1, <2>1, <2>2, <2>3 DEF CallersRegistered, HandlersIdle, DescriptorSet
  <2>5. IndexOwned' /\ CpusDistinct'
    BY <2>1, <2>3, Zenon DEF IndexOwned, OwnIndex, CpusDistinct
  <2>6. AbiCurrent'
    BY <2>1, <2>2, Zenon DEF AbiCurrent, TypeOK
  <2> QED
    BY Zenon, <2>4, <2>5, <2>6
<1>9. CASE Unregister(t)
  <2>1. /\ UNCHANGED <<code, on, cid, act, st, fn, pc, arg>>
        /\ registered' = registered \ {t}
        /\ st[<<t, act[t]>>] = "idle" /\ st[<<t, "main">>] = "idle"
        /\ \A u \in Thread : u # t => abi'[u] = abi[u]
    BY Zenon, <1>2, <1>9 DEF Unregister, uvars
  <2>2. \A k \in Ctx : k[1] = t => st[k] = "idle"
    <3>1. ASSUME NEW k \in Ctx, k[1] = t PROVE st[k] = "idle"
      <4>1. CASE k[2] = "main"
        BY Zenon, <1>1, <2>1, <3>1, <4>1
      <4>2. CASE k[2] = "sig"
        <5>1. t \in Handler /\ k = <<t, "sig">>
          BY <3>1, <4>2 DEF Ctx
        <5> QED
          BY Zenon, <1>2, <2>1, <5>1 DEF HandlersIdle
      <4> QED
        BY Zenon, <4>1, <4>2 DEF Ctx
    <3> QED
      BY Zenon, <3>1
  <2>3. \A k \in Ctx : (Checked(k)' <=> Checked(k)) /\ (InCs(k)' <=> InCs(k)) /\ (Active(k)' <=> Active(k))
    BY <2>1, Zenon DEF Checked, InCs, Prog, Active
  <2>4. \A k \in Ctx : InCs(k) => k[1] # t
    BY Zenon, <2>2 DEF InCs
  <2>5. CallersRegistered' /\ HandlersIdle' /\ DescriptorSet'
    BY Zenon, <1>1, <2>1, <2>2, <2>3, <2>4 DEF CallersRegistered, HandlersIdle, DescriptorSet
  <2>6. IndexOwned' /\ CpusDistinct'
    BY <2>1, <2>3, Zenon DEF IndexOwned, OwnIndex, CpusDistinct
  <2>7. AbiCurrent'
    BY Zenon, <2>1 DEF AbiCurrent, TypeOK
  <2> QED
    BY Zenon, <2>5, <2>6, <2>7
<1> QED
  BY Zenon, <1>4, <1>5, <1>6, <1>7, <1>8, <1>9 DEF Kernel

\* Entering and leaving a helper keep the invariant: both happen outside of the
\* critical section.
LEMMA ProtectedCaller ==
    ASSUME TypeOK, RegisteredCalls, Protected, NEW k \in Ctx,
           (\E f \in DOMAIN code \cup Unsupported : Call(k, f)) \/ Exit(k) \/ Return(k)
    PROVE  Protected'
<1> USE DEF Protected
<1> DEFINE Others == \A j \in Ctx : j # k => /\ st'[j] = st[j] /\ fn'[j] = fn[j]
                                           /\ pc'[j] = pc[j] /\ arg'[j] = arg[j]
<1>1. /\ Active(k) /\ k[1] \in registered /\ Others
      /\ UNCHANGED <<code, abi, kvars>>
      /\ ~InCs(k)'
  <2>1. /\ st \in [Ctx -> Status] /\ DOMAIN fn = Ctx /\ DOMAIN arg = Ctx
        /\ fn \in [Ctx -> DOMAIN code \cup Unsupported \cup {NULL}]
        /\ pc \in [Ctx -> Nat] /\ code \in Code
    BY Zenon DEF TypeOK
  <2>2. ASSUME NEW f \in DOMAIN code \cup Unsupported, Call(k, f)
        PROVE  <1>1
    <3>1. /\ Active(k) /\ k[1] \in registered /\ UNCHANGED <<code, abi, kvars>>
          /\ pc' = [pc EXCEPT ![k] = 1] /\ fn' = [fn EXCEPT ![k] = f]
          /\ st' \in {[st EXCEPT ![k] = "run"], [st EXCEPT ![k] = "done"]}
          /\ st'[k] = "run" => f \in DOMAIN code
      BY <2>1, <2>2, Zenon DEF Call
    <3>2. \E a : arg' = [arg EXCEPT ![k] = a]
      BY <2>2, Zenon DEF Call
    <3>3. f \in DOMAIN code => code[f].start_ip > 1
      <4>1. f \in DOMAIN code => WellFormed(code[f])
        BY Zenon, <2>1, CodeAssumption
      <4> QED
        BY <4>1 DEF WellFormed
    <3>4. ~InCs(k)'
      <4>1. pc'[k] = 1 /\ fn'[k] = f /\ code' = code
        BY Zenon, <2>1, <3>1
      <4>2. f \in DOMAIN code => ~ (1 \in code[f].start_ip .. code[f].post_commit_ip - 1)
        <5>1. f \in DOMAIN code => WellFormed(code[f])
          BY Zenon, <2>1, CodeAssumption
        <5> QED
          BY <5>1 DEF WellFormed
      <4> QED
        BY Zenon, <3>1, <4>1, <4>2 DEF InCs, Prog
    <3> QED
      BY Zenon, <2>1, <3>1, <3>2, <3>4
  <2>3. CASE Exit(k)
    <3>1. k[1] \in registered
      BY Zenon, <2>3 DEF Exit, CallersRegistered, Label, ErrorLabel
    <3> QED
      BY Zenon, <2>1, <2>3, <3>1 DEF Exit, InCs
  <2>4. CASE Return(k)
    BY Zenon, <2>1, <2>4 DEF Return, InCs, CallersRegistered
  <2> QED
    BY <2>2, <2>3, <2>4, Zenon
<1>2. UNCHANGED <<on, cid, registered, act, abi, code>>
  BY <1>1, Zenon DEF kvars
<1>3. \A j \in Ctx : /\ InCs(j)' => InCs(j) /\ j # k
                    /\ Checked(j)' => Checked(j) /\ j # k
                    /\ Active(j)' <=> Active(j)
  BY <1>1, <1>2, Zenon DEF Checked, InCs, Prog, Active
<1>4. CallersRegistered'
  BY <1>1, <1>2, Zenon DEF CallersRegistered
<1>5. HandlersIdle'
  <2>1. ASSUME NEW h \in Handler, act[h] = "main" PROVE st'[<<h, "sig">>] = "idle"
    <3>1. <<h, "sig">> \in Ctx /\ <<h, "sig">> # k
      BY <1>1, <2>1 DEF Ctx, Active
    <3> QED
      BY <1>1, <2>1, <3>1, Zenon DEF HandlersIdle
  <2> QED
    BY Zenon, <1>2, <2>1 DEF HandlersIdle
<1>6. DescriptorSet'
  <2> SUFFICES ASSUME NEW j \in Ctx, InCs(j)'
               PROVE  act'[j[1]] = j[2] /\ abi'[j[1]].rseq_cs = fn'[j]
    BY Zenon DEF DescriptorSet
  <2>1. InCs(j) /\ j # k /\ fn'[j] = fn[j]
    BY <1>1, <1>3, Zenon DEF InCs, Prog
  <2> QED
    BY <1>2, <2>1, Zenon DEF DescriptorSet
<1>7. IndexOwned'
  <2> SUFFICES ASSUME NEW j \in Ctx, Active(j)', Checked(j)'
               PROVE  arg'[j].cpu = OwnIndex(j[1])'
    BY Zenon DEF IndexOwned
  <2>1. Active(j) /\ Checked(j) /\ j # k /\ arg'[j] = arg[j]
    BY <1>1, <1>3, Zenon DEF Active, Checked, InCs, Prog
  <2> QED
    BY Zenon, <1>2, <2>1 DEF IndexOwned, OwnIndex
<1>8. AbiCurrent' /\ CpusDistinct'
  BY <1>2, Zenon DEF AbiCurrent, CpusDistinct
<1> QED
  BY Zenon, <1>4, <1>5, <1>6, <1>7, <1>8

\* The instructions of a helper keep the invariant: RSEQ_ASM_STORE_RSEQ_CS
\* publishes the descriptor on the way into the critical section, and
\* RSEQ_ASM_CBNE_CPU_ID lets through only the index the thread has.
LEMMA ProtectedStep ==
    ASSUME TypeOK, RegisteredCalls, Protected, NEW k \in Ctx, Step(k)
    PROVE  Protected'
<1> USE DEF Protected
<1>1. /\ Active(k) /\ st[k] = "run" /\ st'[k] # "idle"
      /\ UNCHANGED <<code, fn, arg, on, cid, registered, act>>
      /\ \A j \in Ctx : j # k => st'[j] = st[j] /\ pc'[j] = pc[j]
      /\ st'[k] = "run" => pc'[k] \in {pc[k], pc[k] + 1}
      /\ I(k).op = "store_rseq_cs" => abi' = [abi EXCEPT ![k[1]].rseq_cs = fn[k]]
      /\ I(k).op # "store_rseq_cs" => abi' = abi
      /\ I(k).op = "cbne_cpu_id" /\ st'[k] = "run" => arg[k].cpu = abi[k[1]][Mode]
  BY Zenon, StepForm DEF kvars
<1>2. /\ k[1] \in Thread /\ WellFormed(Prog(k)) /\ pc[k] \in 1 .. Len(Prog(k).code)
      /\ k[1] \in registered /\ on[k[1]] # Off /\ act[k[1]] = k[2]
  BY Zenon, <1>1, RunningHelper DEF CallersRegistered, Active
<1>3. /\ Len(Prog(k).code) \in Nat /\ Prog(k).start_ip \in 2 .. Len(Prog(k).code)
      /\ Prog(k).post_commit_ip = Len(Prog(k).code) + 1
      /\ pc[k] = Prog(k).start_ip => I(k).op = "cbne_cpu_id"
      /\ I(k).op = "store_rseq_cs" <=> pc[k] = Prog(k).start_ip - 1
  BY Zenon, <1>2 DEF WellFormed, I
<1>4. Prog(k)' = Prog(k)
  BY Zenon, <1>1 DEF Prog
<1>5. abi \in [Thread -> AbiType]
  BY Zenon DEF TypeOK
<1>6. /\ \A t \in Thread : abi'[t].cpu_id = abi[t].cpu_id /\ abi'[t].mm_cid = abi[t].mm_cid
      /\ \A t \in Thread : t # k[1] => abi'[t] = abi[t]
      /\ I(k).op = "store_rseq_cs" => abi'[k[1]].rseq_cs = fn[k]
  BY <1>1, <1>2, <1>5 DEF AbiType
<1>7. CallersRegistered'
  BY Zenon, <1>1, <1>2 DEF CallersRegistered
<1>8. HandlersIdle'
  <2>1. ASSUME NEW h \in Handler, act[h] = "main" PROVE st'[<<h, "sig">>] = "idle"
    <3>1. <<h, "sig">> \in Ctx
      BY Zenon, <2>1 DEF Ctx
    <3>2. <<h, "sig">> # k
      BY <1>2, <2>1
    <3> QED
      BY Zenon, <1>1, <2>1, <3>1, <3>2 DEF HandlersIdle
  <2> QED
    BY Zenon, <1>1, <2>1 DEF HandlersIdle
<1>9. DescriptorSet'
  <2>1. ASSUME InCs(k)' PROVE abi'[k[1]].rseq_cs = fn[k]
    <3>1. st'[k] = "run" /\ pc'[k] \in Prog(k).start_ip .. Prog(k).post_commit_ip - 1
      BY Zenon, <1>4, <2>1 DEF InCs
    <3>2. CASE pc[k] = Prog(k).start_ip - 1
      BY Zenon, <1>3, <1>6, <3>2
    <3>3. CASE pc[k] # Prog(k).start_ip - 1
      <4>1. pc[k] \in Prog(k).start_ip .. Prog(k).post_commit_ip - 1
        BY <1>1, <1>2, <1>3, <3>1, <3>3
      <4>2. InCs(k) /\ abi' = abi
        BY Zenon, <1>1, <1>3, <3>3, <4>1 DEF InCs
      <4> QED
        BY Zenon, <4>2 DEF DescriptorSet
    <3> QED
      BY Zenon, <3>2, <3>3
  <2>2. ASSUME NEW j \in Ctx, j # k, InCs(j)
        PROVE  act[j[1]] = j[2] /\ abi'[j[1]].rseq_cs = fn[j]
    <3>1. act[j[1]] = j[2] /\ abi[j[1]].rseq_cs = fn[j]
      BY Zenon, <2>2 DEF DescriptorSet
    <3>2. j[1] \in Thread /\ j[1] # k[1]
      BY <1>2, <2>2, <3>1, ConstantsAssumption DEF Ctx
    <3> QED
      BY Zenon, <1>6, <3>1, <3>2
  <2>3. ASSUME NEW j \in Ctx, InCs(j)'
        PROVE  act'[j[1]] = j[2] /\ abi'[j[1]].rseq_cs = fn'[j]
    <3>1. act' = act /\ fn' = fn
      BY Zenon, <1>1
    <3>2. CASE j = k
      BY <1>2, <2>1, <2>3, <3>1, <3>2, Zenon
    <3>3. CASE j # k
      <4>1. st'[j] = st[j] /\ pc'[j] = pc[j] /\ code' = code
        BY Zenon, <1>1, <3>3
      <4>2. InCs(j)
        BY Zenon, <2>3, <3>1, <4>1 DEF InCs, Prog
      <4> QED
        BY Zenon, <2>2, <3>1, <3>3, <4>2
    <3> QED
      BY Zenon, <3>2, <3>3
  <2> QED
    BY Zenon, <2>3 DEF DescriptorSet
<1>10. IndexOwned'
  <2>1. ASSUME Checked(k)' PROVE arg[k].cpu = OwnIndex(k[1])
    <3>1. st'[k] = "run" /\ pc'[k] > Prog(k).start_ip
      BY Zenon, <1>4, <2>1 DEF Checked, InCs
    <3>2. CASE pc[k] = Prog(k).start_ip
      <4>1. arg[k].cpu = abi[k[1]][Mode]
        BY Zenon, <1>1, <1>3, <3>1, <3>2
      <4> QED
        BY Zenon, <1>2, <4>1, ConstantsAssumption DEF AbiCurrent, OwnIndex
    <3>3. CASE pc[k] # Prog(k).start_ip
      <4>1. pc[k] > Prog(k).start_ip
        BY <1>1, <1>2, <1>3, <3>1, <3>3
      <4>2. Checked(k)
        BY <1>1, <1>2, <1>3, <4>1 DEF Checked, InCs
      <4> QED
        BY Zenon, <1>1, <4>2 DEF IndexOwned
    <3> QED
      BY Zenon, <3>2, <3>3
  <2>2. ASSUME NEW j \in Ctx, Active(j)', Checked(j)'
        PROVE  arg'[j].cpu = OwnIndex(j[1])'
    <3>1. arg' = arg /\ OwnIndex(j[1])' = OwnIndex(j[1])
      BY Zenon, <1>1 DEF OwnIndex
    <3>2. CASE j = k
      BY Zenon, <2>1, <2>2, <3>1, <3>2
    <3>3. CASE j # k
      <4>1. Active(j) /\ Checked(j)
        <5>1. st'[j] = st[j] /\ pc'[j] = pc[j]
          BY Zenon, <1>1, <3>3
        <5> QED
          BY Zenon, <1>1, <2>2, <5>1 DEF Active, Checked, InCs, Prog
      <4> QED
        BY Zenon, <3>1, <4>1 DEF IndexOwned
    <3> QED
      BY Zenon, <3>2, <3>3
  <2> QED
    BY Zenon, <2>2 DEF IndexOwned
<1>11. AbiCurrent' /\ CpusDistinct'
  BY <1>1, <1>6 DEF AbiCurrent, CpusDistinct, TypeOK
<1> QED
  BY Zenon, <1>7, <1>8, <1>9, <1>10, <1>11

\* Every step of the machine keeps the invariant.
LEMMA ProtectedNext ==
    ASSUME TypeOK, RegisteredCalls, Protected, [Next]_vars
    PROVE  Protected'
<1>1. CASE \E t \in Thread : Kernel(t)
  BY Zenon, <1>1, ProtectedKernel
<1>2. CASE \E k \in Ctx : User(k)
  BY Zenon, <1>2, ProtectedCaller, ProtectedStep DEF User
<1>3. CASE UNCHANGED vars
  BY <1>3, Zenon DEF vars, Protected, CallersRegistered, HandlersIdle, DescriptorSet, IndexOwned,
              OwnIndex, AbiCurrent, CpusDistinct, InCs, Checked, Active, Prog
<1> QED
  BY Zenon, <1>1, <1>2, <1>3 DEF Next

\* The invariant behind the helpers' mutual exclusion: a thread past its index
\* comparison has its descriptor published and runs where it compared.
THEOREM AlwaysProtected ==
    ASSUME RegisteredCalls
    PROVE  Spec => []Protected
<1>1. TypeOK /\ Protected /\ [Next]_vars => Protected'
  BY Zenon, ProtectedNext
<1> QED
  BY <1>1, ProtectedInit, TypeCorrect, PTL DEF Spec

\* No two contexts are past the index comparison of RSEQ_ASM_CBNE_CPU_ID on
\* the data of one CPU or concurrency id, whatever helpers they run.
THEOREM Exclusion ==
    ASSUME RegisteredCalls
    PROVE  Spec => []CsExclusive
<1>1. Protected => CsExclusive
  <2> SUFFICES ASSUME Protected, NEW j \in Ctx, NEW k \in Ctx,
                      Active(j), Checked(j), Active(k), Checked(k), arg[j].cpu = arg[k].cpu
               PROVE  j = k
    BY Zenon DEF CsExclusive
  <2>1. OwnIndex(j[1]) = OwnIndex(k[1])
    BY Zenon DEF Protected, IndexOwned
  <2>2. j[1] \in Thread /\ k[1] \in Thread /\ j = <<j[1], j[2]>> /\ k = <<k[1], k[2]>>
    BY ConstantsAssumption DEF Ctx
  <2>3. j[1] = k[1]
    BY Zenon, <2>1, <2>2 DEF Protected, CpusDistinct, OwnIndex, Active
  <2> QED
    BY Zenon, <2>2, <2>3 DEF Active
<1> QED
  BY <1>1, AlwaysProtected, PTL

\* Whatever interrupts a critical section, its context never goes on inside it:
\* it executes again at RSEQ_ASM_DEFINE_ABORT.
THEOREM Restart ==
    ASSUME RegisteredCalls
    PROVE  Spec => SuspendedCsAborts
<1> DEFINE Aborts == \A k \in Ctx : InCs(k) /\ ~Active(k) /\ Active(k)' => st'[k] = "abort"
<1>1. TypeOK /\ Protected /\ [Next]_vars => [Aborts]_vars
  <2> SUFFICES ASSUME TypeOK, Protected, Next, NEW k \in Ctx,
                      InCs(k), ~Active(k), Active(k)'
               PROVE  st'[k] = "abort"
    BY Zenon DEF vars
  <2>1. /\ act[k[1]] = k[2] /\ abi[k[1]].rseq_cs = fn[k] /\ k[1] \in registered
        /\ k = <<k[1], act[k[1]]>> /\ k[1] \in Thread
    BY ConstantsAssumption DEF Protected, DescriptorSet, CallersRegistered, InCs, Ctx
  <2>2. on[k[1]] = Off /\ on'[k[1]] # Off
    BY Zenon, <2>1 DEF Active
  <2>3. ASSUME NEW t \in Thread, Kernel(t) PROVE st'[k] = "abort"
    <3>1. PICK c \in Cpu, i \in Cpu : Resume(t, c, i)
      <4>1. on' # on
        BY Zenon, <2>2
      <4>2. ~Preempt(t)
        BY Zenon, <2>1, <2>2 DEF Preempt, TypeOK
      <4> QED
        BY Zenon, <2>3, <4>1, <4>2 DEF Kernel, Signal, SigReturn, Register, Unregister, Cids
    <3>2. t = k[1]
      BY Zenon, <2>1, <2>2, <3>1 DEF Resume, TypeOK
    <3>3. st' = [st EXCEPT ![k] = "abort"]
      BY <2>1, <3>1, <3>2, Zenon DEF Resume, Fixup
    <3> QED
      BY Zenon, <3>3 DEF TypeOK
  <2>4. ASSUME NEW j \in Ctx, User(j) PROVE FALSE
    <3>1. UNCHANGED kvars
      <4>1. CASE Step(j)
        BY <4>1, StepForm, Zenon
      <4>2. CASE ~Step(j)
        BY <2>4, <4>2, Zenon DEF User, Call, Exit, Return
      <4> QED
        BY Zenon, <4>1, <4>2
    <3> QED
      BY Zenon, <2>2, <3>1 DEF kvars
  <2> QED
    BY Zenon, <2>3, <2>4 DEF Next
<1> QED
  BY <1>1, TypeCorrect, AlwaysProtected, PTL DEF Spec, SuspendedCsAborts

-----------------------------------------------------------------------------
(* The inputs of the asm goto.                                             *)

\* The saved inputs, and the input registers, have the values gcc passed.
Saved(k) == reg[k].s0 = arg[k].src /\ reg[k].s1 = arg[k].dst /\ reg[k].s2 = arg[k].len
Intact(k) == reg[k].src = arg[k].src /\ reg[k].dst = arg[k].dst /\ reg[k].len = arg[k].len

\* The registers are intact until a copy begins, saved from the second
\* instruction on, and at a label what its handler needs of the two holds.
Kept(k) ==
    /\ st[k] = "run" =>
          /\ pc[k] # 1 => Saved(k)
          /\ (\A i \in 1 .. pc[k] : Prog(k).code[i].op \notin Copies) => Intact(k)
    /\ st[k] \in Label \ ErrorLabel => IF st[k] \in Prog(k).teardown THEN Saved(k) ELSE Intact(k)
    /\ st[k] = "done" => Intact(k)
InputsKept == \A k \in Ctx : fn[k] \in DOMAIN code /\ Prog(k).inplace => Kept(k)

\* Nothing about a context changes what is known of its inputs but its own steps.
LEMMA KeptElsewhere ==
    ASSUME NEW j \in Ctx, InputsKept, code' = code, fn'[j] = fn[j], arg'[j] = arg[j],
           pc'[j] = pc[j], reg'[j] = reg[j], st'[j] = st[j]
    PROVE  (fn[j] \in DOMAIN code /\ Prog(j).inplace => Kept(j))'
<1>1. Prog(j)' = Prog(j) /\ (Saved(j) => Saved(j)') /\ (Intact(j) => Intact(j)')
  BY Zenon DEF Prog, Saved, Intact
<1>2. Kept(j) => Kept(j)'
  BY <1>1, Zenon DEF Kept
<1> QED
  BY <1>1, <1>2, Zenon DEF InputsKept

\* The kernel sends a context to its abort label from inside its critical
\* section, where the inputs are saved.
LEMMA InputsKernel ==
    ASSUME TypeOK, InputsKept, NEW t \in Thread, Kernel(t)
    PROVE  InputsKept'
<1>0. /\ st \in [Ctx -> Status] /\ code \in Code
  BY Zenon DEF TypeOK
<1>1. UNCHANGED <<code, fn, arg, pc, reg>>
  BY Zenon DEF Kernel, Preempt, Resume, Signal, SigReturn, Register, Unregister, uvars
<1>2. st' = st \/ Fixup(t)
  BY Zenon DEF Kernel, Preempt, Resume, Signal, SigReturn, Register, Unregister
<1>3. ASSUME NEW j \in Ctx PROVE st'[j] = st[j] \/ (InCs(j) /\ st'[j] = "abort")
  BY <1>0, <1>2, Zenon DEF Fixup
<1>4. SUFFICES ASSUME NEW k \in Ctx, fn[k] \in DOMAIN code, Prog(k).inplace, InCs(k), st'[k] = "abort"
               PROVE  Kept(k)'
  <2>1. ASSUME NEW k \in Ctx PROVE (fn[k] \in DOMAIN code /\ Prog(k).inplace => Kept(k))'
    <3>1. CASE st'[k] = st[k]
      BY <1>1, <3>1, KeptElsewhere, Zenon
    <3>2. CASE InCs(k) /\ st'[k] = "abort"
      BY <1>1, <1>4, <3>2, Zenon DEF Prog
    <3> QED
      BY <1>3, <3>1, <3>2, Zenon
  <2> QED
    BY <2>1, Zenon DEF InputsKept
<1>5. /\ st[k] = "run" /\ Kept(k) /\ RestoresInputs(Prog(k)) /\ WellFormed(Prog(k))
      /\ pc[k] \in Prog(k).start_ip .. Prog(k).post_commit_ip - 1
  BY <1>0, <1>4, InputsAssumption, CodeAssumption, Zenon DEF InCs, InputsKept, Prog
<1>6. pc[k] # 1 /\ pc[k] \in 1 .. Len(Prog(k).code) /\ Len(Prog(k).code) \in Nat
  BY <1>5 DEF WellFormed
<1>7. Saved(k)
  BY <1>5, <1>6, Zenon DEF Kept
<1>8. "abort" \notin Prog(k).teardown => Intact(k)
  <2>1. SUFFICES ASSUME "abort" \notin Prog(k).teardown
                 PROVE  \A i \in 1 .. pc[k] : Prog(k).code[i].op \notin Copies
    BY <1>5, Zenon DEF Kept
  <2>2. \A i \in 1 .. Len(Prog(k).code) : Prog(k).code[i].op \notin Copies
    BY <1>4, <1>5, <2>1, Zenon DEF RestoresInputs
  <2>3. \A i \in 1 .. pc[k] : i \in 1 .. Len(Prog(k).code)
    BY <1>6
  <2> QED
    BY <2>2, <2>3, Zenon
<1>9. Prog(k)' = Prog(k) /\ (Saved(k) => Saved(k)') /\ (Intact(k) => Intact(k)')
  BY <1>1, Zenon DEF Prog, Saved, Intact
<1> QED
  BY <1>4, <1>7, <1>8, <1>9, Zenon DEF Kept

\* A call passes the inputs, a label's handler reloads them where it has to, and
\* a return ends them.
LEMMA InputsCaller ==
    ASSUME TypeOK, InputsKept, NEW k \in Ctx,
           (\E f \in DOMAIN code \cup Unsupported : Call(k, f)) \/ Exit(k) \/ Return(k)
    PROVE  InputsKept'
<1>0. /\ st \in [Ctx -> Status] /\ code \in Code /\ pc \in [Ctx -> Nat] /\ DOMAIN arg = Ctx
      /\ reg \in [Ctx -> [Reg -> Word]] /\ fn \in [Ctx -> DOMAIN code \cup Unsupported \cup {NULL}]
  BY Zenon DEF TypeOK
<1>1. /\ code' = code
      /\ \A j \in Ctx : j # k => /\ fn'[j] = fn[j] /\ arg'[j] = arg[j] /\ pc'[j] = pc[j]
                                 /\ reg'[j] = reg[j] /\ st'[j] = st[j]
  <2>1. ASSUME NEW f \in DOMAIN code \cup Unsupported, Call(k, f) PROVE <1>1
    <3>1. /\ code' = code /\ pc' = [pc EXCEPT ![k] = 1] /\ fn' = [fn EXCEPT ![k] = f]
          /\ st' \in {[st EXCEPT ![k] = "run"], [st EXCEPT ![k] = "done"]}
      BY <2>1, Zenon DEF Call
    <3>2. \E a : arg' = [arg EXCEPT ![k] = a]
      BY <2>1, Zenon DEF Call
    <3>3. \E r : reg' = [reg EXCEPT ![k] = r]
      BY <2>1, Zenon DEF Call
    <3> QED
      BY <1>0, <3>1, <3>2, <3>3, Zenon
  <2>2. CASE Exit(k)
    <3>1. /\ code' = code /\ pc' = pc /\ fn' = fn /\ arg' = arg /\ st' = [st EXCEPT ![k] = "done"]
      BY <2>2, Zenon DEF Exit
    <3>2. \A j \in Ctx : j # k => reg'[j] = reg[j]
      BY <1>0, <2>2, Zenon DEF Exit
    <3> QED
      BY <1>0, <3>1, <3>2, Zenon
  <2>3. CASE Return(k)
    BY <1>0, <2>3, Zenon DEF Return
  <2> QED
    BY <2>1, <2>2, <2>3, Zenon
<1>2. ASSUME (fn[k] \in DOMAIN code /\ Prog(k).inplace => Kept(k))' PROVE InputsKept'
  BY <1>1, <1>2, KeptElsewhere, Zenon DEF InputsKept
<1>3. ASSUME NEW f \in DOMAIN code \cup Unsupported, Call(k, f) PROVE InputsKept'
  <2>1. fn'[k] = f /\ pc'[k] = 1 /\ (f \in DOMAIN code => st'[k] = "run")
    BY <1>0, <1>3, Zenon DEF Call
  <2>2. CASE f \in DOMAIN code /\ code[f].inplace
    <3>1. PICK p \in Prep(f, Index(k[1]), k, mem) :
              /\ arg' = [arg EXCEPT ![k] = p.arg]
              /\ reg' = [reg EXCEPT ![k] = [NoReg EXCEPT !.src = p.arg.src, !.dst = p.arg.dst,
                                                         !.len = p.arg.len]]
      BY <1>3, <2>2, Zenon DEF Call
    <3>2. arg'[k] = p.arg /\ reg'[k] = [NoReg EXCEPT !.src = p.arg.src, !.dst = p.arg.dst, !.len = p.arg.len]
      BY <1>0, <3>1, Zenon
    <3>3. reg'[k].src = p.arg.src /\ reg'[k].dst = p.arg.dst /\ reg'[k].len = p.arg.len
      BY <3>2 DEF NoReg, Reg
    <3>4. Intact(k)'
      BY <3>2, <3>3, Zenon DEF Intact
    <3>5. Kept(k)'
      BY <2>1, <2>2, <3>4, Zenon DEF Kept, Label, ErrorLabel
    <3> QED
      BY <1>2, <3>5, Zenon
  <2>3. CASE ~(f \in DOMAIN code /\ code[f].inplace)
    BY <1>1, <1>2, <2>1, <2>3, Zenon DEF Prog
  <2> QED
    BY <2>2, <2>3, Zenon
<1>4. CASE Exit(k)
  <2>1. /\ code' = code /\ fn' = fn /\ arg' = arg /\ st'[k] = "done" /\ st[k] \in Label \ ErrorLabel
        /\ reg' = IF st[k] \in Prog(k).teardown
                    THEN [reg EXCEPT ![k].src = reg[k].s0, ![k].dst = reg[k].s1, ![k].len = reg[k].s2]
                    ELSE reg
    BY <1>0, <1>4, Zenon DEF Exit
  <2>2. SUFFICES ASSUME fn[k] \in DOMAIN code, Prog(k).inplace PROVE Intact(k)'
    <3>1. ASSUME Intact(k)' PROVE Kept(k)'
      BY <2>1, <3>1, Zenon DEF Kept, Label, ErrorLabel
    <3> QED
      BY <1>2, <2>1, <2>2, <3>1, Zenon DEF Prog
  <2>3. IF st[k] \in Prog(k).teardown THEN Saved(k) ELSE Intact(k)
    BY <2>1, <2>2, Zenon DEF InputsKept, Kept
  <2>4. CASE st[k] \in Prog(k).teardown
    <3>1. reg[k] \in [Reg -> Word]
      BY <1>0, Zenon
    <3>2. reg'[k].src = reg[k].s0 /\ reg'[k].dst = reg[k].s1 /\ reg'[k].len = reg[k].s2
      BY <1>0, <2>1, <2>4, <3>1 DEF Reg
    <3> QED
      BY <2>1, <2>3, <2>4, <3>2, Zenon DEF Saved, Intact
  <2>5. CASE st[k] \notin Prog(k).teardown
    BY <2>1, <2>3, <2>5, Zenon DEF Intact
  <2> QED
    BY <2>4, <2>5, Zenon
<1>5. CASE Return(k)
  <2>1. st'[k] = "idle"
    BY <1>0, <1>5, Zenon DEF Return
  <2>2. Kept(k)'
    BY <2>1, Zenon DEF Kept, Label, ErrorLabel
  <2> QED
    BY <1>2, <2>2, Zenon
<1> QED
  BY <1>3, <1>4, <1>5, Zenon

\* What one instruction of context k does to the registers and where it leads.
SavedStay(k) == reg'[k].s0 = reg[k].s0 /\ reg'[k].s1 = reg[k].s1 /\ reg'[k].s2 = reg[k].s2
InputsStay(k) == reg'[k].src = reg[k].src /\ reg'[k].dst = reg[k].dst /\ reg'[k].len = reg[k].len
LEMMA StepRegs ==
    ASSUME TypeOK, NEW k \in Ctx, Step(k)
    PROVE  /\ \A j \in Ctx : j # k => reg'[j] = reg[j]
           /\ I(k).op = "save_inputs" => /\ reg'[k].s0 = reg[k].src /\ reg'[k].s1 = reg[k].dst
                                         /\ reg'[k].s2 = reg[k].len
           /\ I(k).op \notin {"save_inputs", "move_inputs"} => SavedStay(k)
           /\ I(k).op \notin {"move_inputs"} \cup Copies => InputsStay(k)
           /\ \/ st'[k] = "run"
              \/ st'[k] = "commit"
              \/ I(k).op \in Branches /\ st'[k] = I(k).to
<1>0. /\ st \in [Ctx -> Status] /\ reg \in [Ctx -> [Reg -> Word]] /\ reg[k] \in [Reg -> Word]
  BY Zenon DEF TypeOK
<1>1. st[k] = "run"
  BY StepForm, Zenon
<1>2. ASSUME Advance(k) PROVE st'[k] \in {"run", "commit"}
  BY <1>0, <1>1, <1>2, Zenon DEF Advance
<1>3. ASSUME reg' = reg PROVE SavedStay(k) /\ InputsStay(k) /\ \A j \in Ctx : j # k => reg'[j] = reg[j]
  BY <1>3, Zenon DEF SavedStay, InputsStay
<1>4. CASE CbneCpuId(k) \/ OpCbne(k) \/ OpCbeq(k) \/ OpRCbeq(k)
  <2>1. reg' = reg /\ I(k).op \in Branches
    BY <1>4, Zenon DEF CbneCpuId, OpCbne, OpCbeq, OpRCbeq, At, Branch, Branches
  <2>2. Advance(k) \/ st' = [st EXCEPT ![k] = I(k).to]
    BY <1>4, Zenon DEF CbneCpuId, OpCbne, OpCbeq, OpRCbeq, Branch
  <2>3. st'[k] \in {"run", "commit"} \/ st'[k] = I(k).to
    BY <1>0, <1>2, <2>2, Zenon
  <2>4. I(k).op # "save_inputs"
    BY <2>1, Zenon DEF Branches
  <2> QED
    BY <1>3, <2>1, <2>3, <2>4, Zenon
<1>5. CASE StoreRseqCs(k) \/ OpFence(k) \/ OpStore(k) \/ OpStoreRelease(k) \/ OpRStore(k)
           \/ OpMemAdd(k) \/ OpRMemAdd(k)
  <2>1. reg' = reg /\ Advance(k) /\ I(k).op # "save_inputs"
    BY <1>5, Zenon DEF StoreRseqCs, OpFence, OpStore, OpStoreRelease, OpRStore, OpMemAdd, OpRMemAdd,
                       At, Branch, Store
  <2> QED
    BY <1>2, <1>3, <2>1, Zenon
<1>6. CASE OpRLoad(k) \/ OpRAdd(k) \/ OpRLoadInd(k) \/ OpRLoadOff(k)
  <2>1. /\ \E x : reg' = [reg EXCEPT ![k] = [reg[k] EXCEPT !.r = x]]
        /\ Advance(k) /\ I(k).op # "save_inputs"
    BY <1>6, Zenon DEF OpRLoad, OpRAdd, OpRLoadInd, OpRLoadOff, At, SetReg
  <2>2. \E x : reg'[k] = [reg[k] EXCEPT !.r = x]
    BY <1>0, <2>1, Zenon
  <2>3. SavedStay(k) /\ InputsStay(k)
    BY <1>0, <2>2 DEF SavedStay, InputsStay, Reg
  <2>4. \A j \in Ctx : j # k => reg'[j] = reg[j]
    BY <1>0, <2>1, Zenon
  <2> QED
    BY <1>2, <2>1, <2>3, <2>4, Zenon
<1>7. CASE SaveInputs(k)
  <2>1. /\ reg' = [reg EXCEPT ![k] = [reg[k] EXCEPT !.s0 = reg[k].src, !.s1 = reg[k].dst,
                                                    !.s2 = reg[k].len]]
        /\ Advance(k) /\ I(k).op = "save_inputs"
    BY <1>7, Zenon DEF SaveInputs, At, SetReg
  <2>2. reg'[k] = [reg[k] EXCEPT !.s0 = reg[k].src, !.s1 = reg[k].dst, !.s2 = reg[k].len]
    BY <1>0, <2>1, Zenon
  <2>3. /\ InputsStay(k)
        /\ reg'[k].s0 = reg[k].src /\ reg'[k].s1 = reg[k].dst /\ reg'[k].s2 = reg[k].len
    BY <1>0, <2>2 DEF InputsStay, Reg
  <2>4. \A j \in Ctx : j # k => reg'[j] = reg[j]
    BY <1>0, <2>1, Zenon
  <2> QED
    BY <1>2, <2>1, <2>3, <2>4, Zenon
<1>8. CASE MoveInputs(k)
  <2>1. Advance(k) /\ I(k).op = "move_inputs" /\ \E r : reg' = [reg EXCEPT ![k] = r]
    BY <1>8, Zenon DEF MoveInputs, At, SetReg
  <2>2. \A j \in Ctx : j # k => reg'[j] = reg[j]
    BY <1>0, <2>1, Zenon
  <2> QED
    BY <1>2, <2>1, <2>2, Zenon
<1>9. CASE MemcpyUp(k) \/ MemcpyDown(k)
  <2>1. I(k).op \in Copies /\ I(k).op # "save_inputs"
    BY <1>9, Zenon DEF MemcpyUp, MemcpyDown, At, Copies
  <2>2. CASE Branch(k, FALSE)
    <3>1. reg' = reg /\ Advance(k)
      BY <2>2, Zenon DEF Branch
    <3> QED
      BY <1>2, <1>3, <2>1, <3>1, Zenon
  <2>3. CASE ~Branch(k, FALSE)
    <3>1. /\ st' = st
          /\ \/ reg' = [reg EXCEPT ![k].src = Add(@, 1), ![k].dst = Add(@, 1), ![k].len = @ - 1]
             \/ reg' = [reg EXCEPT ![k].len = @ - 1]
      BY <1>9, <2>3, Zenon DEF MemcpyUp, MemcpyDown
    <3>2. SavedStay(k) /\ \A j \in Ctx : j # k => reg'[j] = reg[j]
      BY <1>0, <3>1 DEF SavedStay, Reg
    <3> QED
      BY <1>1, <2>1, <3>1, <3>2, Zenon
  <2> QED
    BY <2>2, <2>3, Zenon
<1> QED
  BY <1>4, <1>5, <1>6, <1>7, <1>8, <1>9, Zenon DEF Step

\* The instructions of a helper that copies with its input registers save them
\* before anything else, and lead from a copy only to labels that reload them.
LEMMA InputsStep ==
    ASSUME TypeOK, InputsKept, NEW k \in Ctx, Step(k)
    PROVE  InputsKept'
<1>1. /\ st[k] = "run" /\ UNCHANGED <<code, fn, arg>>
      /\ st'[k] = "run" => pc'[k] \in {pc[k], pc[k] + 1}
      /\ \A j \in Ctx : j # k => st'[j] = st[j] /\ pc'[j] = pc[j] /\ reg'[j] = reg[j]
  BY StepForm, StepRegs, Zenon
<1>2. SUFFICES ASSUME Prog(k).inplace PROVE Kept(k)'
  <2>1. ASSUME NEW j \in Ctx, j # k PROVE (fn[j] \in DOMAIN code /\ Prog(j).inplace => Kept(j))'
    BY <1>1, <2>1, KeptElsewhere, Zenon
  <2>2. Prog(k)' = Prog(k)
    BY <1>1, Zenon DEF Prog
  <2> QED
    BY <1>2, <2>1, <2>2, Zenon DEF InputsKept
<1>3. /\ fn[k] \in DOMAIN code /\ WellFormed(Prog(k)) /\ pc[k] \in 1 .. Len(Prog(k).code)
      /\ code \in Code
  BY <1>1, RunningHelper, Zenon DEF TypeOK
<1>4. Kept(k) /\ RestoresInputs(Prog(k)) /\ Prog(k)' = Prog(k)
  BY <1>1, <1>2, <1>3, InputsAssumption, Zenon DEF InputsKept, Prog
<1>5. Len(Prog(k).code) \in Nat /\ pc[k] \in Nat /\ pc[k] <= Len(Prog(k).code)
      /\ (pc[k] = 1 \/ pc[k] \in 2 .. Len(Prog(k).code))
  BY <1>3 DEF WellFormed
<1> DEFINE Clean == \A i \in 1 .. pc[k] : Prog(k).code[i].op \notin Copies
<1>6. /\ pc[k] = 1 => I(k).op = "save_inputs" /\ Clean
      /\ pc[k] # 1 => Saved(k) /\ I(k).op \notin {"save_inputs", "move_inputs"}
      /\ Clean => Intact(k) /\ I(k).op \notin Copies
  <2>1. pc[k] = 1 => I(k).op = "save_inputs"
    BY <1>2, <1>4, Zenon DEF RestoresInputs, I
  <2>2. pc[k] = 1 => Clean
    <3>1. pc[k] = 1 => \A i \in 1 .. pc[k] : i = pc[k]
      OBVIOUS
    <3> QED
      BY <2>1, <3>1, Zenon DEF I, Copies
  <2>3. pc[k] # 1 => Saved(k) /\ I(k).op \notin {"save_inputs", "move_inputs"}
    BY <1>1, <1>2, <1>4, <1>5, Zenon DEF RestoresInputs, Kept, I
  <2>4. pc[k] \in 1 .. pc[k]
    BY <1>3, <1>5
  <2>5. Clean => Intact(k) /\ I(k).op \notin Copies
    BY <1>1, <1>4, <2>4, Zenon DEF Kept, I
  <2> QED
    BY <2>1, <2>2, <2>3, <2>5, Zenon
<1>7. Saved(k)'
  <2>1. CASE pc[k] = 1
    BY <1>1, <1>6, <2>1, StepRegs, Zenon DEF Saved, Intact
  <2>2. CASE pc[k] # 1
    BY <1>1, <1>6, <2>2, StepRegs, Zenon DEF Saved, SavedStay
  <2> QED
    BY <2>1, <2>2, Zenon
<1>8. Clean => Intact(k)'
  <2>1. I(k).op # "move_inputs"
    BY <1>6, Zenon
  <2> QED
    BY <1>1, <1>6, <2>1, StepRegs, Zenon DEF Intact, InputsStay
<1>9. CASE st'[k] = "run"
  <2>1. (\A i \in 1 .. pc'[k] : Prog(k).code[i].op \notin Copies) => Clean
    <3>1. \A i \in 1 .. pc[k] : i \in 1 .. pc'[k]
      BY <1>1, <1>5, <1>9
    <3> QED
      BY <3>1, Zenon
  <2> QED
    BY <1>4, <1>7, <1>8, <1>9, <2>1, Zenon DEF Kept, Label, ErrorLabel
<1>10. ASSUME NEW l \in Label, st'[k] = l, ~Clean => l \in Prog(k).teardown \cup ErrorLabel PROVE Kept(k)'
  <2>1. l \notin {"run", "done"}
    BY Zenon DEF Label, ErrorLabel
  <2> QED
    BY <1>4, <1>7, <1>8, <1>10, <2>1, Zenon DEF Kept
<1>11. ASSUME ~Clean
       PROVE  \E i \in 1 .. Len(Prog(k).code) : Prog(k).code[i].op \in Copies /\ pc[k] \in i .. Len(Prog(k).code)
  <2>1. PICK i \in 1 .. pc[k] : Prog(k).code[i].op \in Copies
    BY <1>11, Zenon
  <2>2. i \in 1 .. Len(Prog(k).code) /\ pc[k] \in i .. Len(Prog(k).code)
    BY <1>5
  <2> QED
    BY <2>1, <2>2, Zenon
<1>12. CASE st'[k] = "commit"
  <2>1. ~Clean => "commit" \in Prog(k).teardown
    BY <1>2, <1>4, <1>11, Zenon DEF RestoresInputs
  <2> QED
    BY <1>10, <1>12, <2>1, Zenon DEF Label
<1>13. CASE I(k).op \in Branches /\ st'[k] = I(k).to
  <2>1. ~Clean => I(k).to \in Prog(k).teardown \cup ErrorLabel
    BY <1>2, <1>4, <1>11, <1>13, Zenon DEF RestoresInputs, I
  <2>2. I(k).to \in Label
    BY <1>3, <1>13, Zenon DEF WellFormed, I, Branches
  <2> QED
    BY <1>10, <1>13, <2>1, <2>2, Zenon
<1> QED
  BY <1>9, <1>12, <1>13, StepRegs, Zenon

\* Whatever interrupts a helper and whichever label it leaves by, its asm goto
\* returns with the inputs it was given, if the helper keeps to RestoresInputs;
\* no rule on the callers is needed.
THEOREM InputsRestored == Spec => []InputsPreserved
<1>1. Init => InputsKept
  BY Zenon DEF Init, InputsKept, Kept, Label, ErrorLabel
<1>2. TypeOK /\ InputsKept /\ [Next]_vars => InputsKept'
  <2> SUFFICES ASSUME TypeOK, InputsKept, [Next]_vars PROVE InputsKept'
    OBVIOUS
  <2>1. CASE \E t \in Thread : Kernel(t)
    BY <2>1, InputsKernel, Zenon
  <2>2. CASE \E k \in Ctx : User(k)
    BY <2>2, InputsCaller, InputsStep, Zenon DEF User
  <2>3. CASE UNCHANGED vars
    BY <2>3, Zenon DEF vars, InputsKept, Kept, Saved, Intact, Prog
  <2> QED
    BY <2>1, <2>2, <2>3, Zenon DEF Next
<1>3. InputsKept => InputsPreserved
  BY Zenon DEF InputsKept, Kept, Intact, InputsPreserved
<1> QED
  BY <1>1, <1>2, <1>3, TypeCorrect, PTL DEF Spec

-----------------------------------------------------------------------------
(* Threads that are not registered.                                        *)

\* A thread that is not registered has the index no helper is called with, and
\* a context is past its index comparison only in a registered thread.
FailsInv ==
    /\ \A t \in Thread : act[t] = "main"
    /\ \A t \in Thread \ registered : abi[t].cpu_id = RSEQ_ABI_CPU_ID_UNINITIALIZED
    /\ \A k \in Ctx : Checked(k) => k[1] \in registered

\* An instruction that goes on has found its comparison true, and a helper commits
\* from its last instruction only.
LEMMA StepChecks ==
    ASSUME TypeOK, NEW k \in Ctx, Step(k), st'[k] \in {"run", "commit"}
    PROVE  /\ I(k).op = "cbne_cpu_id" => arg[k].cpu = abi[k[1]][Mode]
           /\ st'[k] = "commit" => pc[k] + 1 = Prog(k).post_commit_ip
<1>0. st \in [Ctx -> Status]
  BY Zenon DEF TypeOK
<1>1. st[k] = "run" /\ WellFormed(Prog(k)) /\ pc[k] \in 1 .. Len(Prog(k).code)
  BY StepForm, RunningHelper, Zenon
<1>2. I(k).op \in Branches => I(k).to \notin {"run", "commit"}
  BY <1>1, Zenon DEF WellFormed, I, Label, ErrorLabel
<1>3. ASSUME Advance(k) PROVE st'[k] = "commit" => pc[k] + 1 = Prog(k).post_commit_ip
  BY <1>0, <1>1, <1>3, Zenon DEF Advance
<1>4. ASSUME NEW b \in BOOLEAN, Branch(k, b), I(k).op \in Branches
      PROVE  ~b /\ (st'[k] = "commit" => pc[k] + 1 = Prog(k).post_commit_ip)
  BY <1>0, <1>2, <1>3, <1>4, Zenon DEF Branch
<1>5. CASE CbneCpuId(k)
  <2>1. I(k).op \in Branches /\ Branch(k, arg[k].cpu # abi[k[1]][Mode])
    BY <1>5, Zenon DEF CbneCpuId, At, Branches
  <2> QED
    BY <1>4, <2>1, Zenon
<1>6. CASE OpCbne(k) \/ OpCbeq(k) \/ OpRCbeq(k)
  <2>1. I(k).op \in Branches /\ I(k).op # "cbne_cpu_id" /\ \E b \in BOOLEAN : Branch(k, b)
    BY <1>6, Zenon DEF OpCbne, OpCbeq, OpRCbeq, At, Branches
  <2> QED
    BY <1>4, <2>1, Zenon
<1>7. CASE ~(CbneCpuId(k) \/ OpCbne(k) \/ OpCbeq(k) \/ OpRCbeq(k))
  <2>1. I(k).op # "cbne_cpu_id" /\ (Advance(k) \/ st' = st)
    BY <1>7, Zenon DEF Step, At, StoreRseqCs, OpRLoad, OpRAdd,
         OpRLoadInd, OpRLoadOff, OpStore, OpStoreRelease, OpRStore, OpMemAdd, OpRMemAdd,
         OpFence, SaveInputs, MoveInputs, MemcpyUp, MemcpyDown, Branch, SetReg, Store
  <2> QED
    BY <1>1, <1>3, <2>1, Zenon
<1> QED
  BY <1>5, <1>6, <1>7, Zenon

\* The comparison of RSEQ_ASM_CBNE_CPU_ID branches in a thread that is not
\* registered, so what a helper does past it a registered thread does.
LEMMA StepRegistered ==
    ASSUME TypeOK, Mode = "cpu_id", FailsInv, NEW k \in Ctx, Step(k), st'[k] \in {"run", "commit"},
           pc[k] >= Prog(k).start_ip
    PROVE  k[1] \in registered
<1>1. /\ st[k] = "run" /\ k[1] \in Thread /\ fn[k] \in DOMAIN code /\ WellFormed(Prog(k))
      /\ pc[k] \in 1 .. Len(Prog(k).code) /\ Words(fn[k], arg[k])
  BY StepForm, RunningHelper, Zenon
<1>2. CASE pc[k] = Prog(k).start_ip
  <2>1. I(k).op = "cbne_cpu_id"
    BY <1>1, <1>2, Zenon DEF WellFormed, I
  <2>2. arg[k].cpu = abi[k[1]].cpu_id
    BY <2>1, StepChecks, Zenon
  <2>3. arg[k].cpu \in Word
    BY <1>1, Zenon DEF Words, HasOperands
  <2>4. arg[k].cpu # RSEQ_ABI_CPU_ID_UNINITIALIZED
    BY <2>3, ConstantsAssumption DEF Word, RSEQ_ABI_CPU_ID_UNINITIALIZED
  <2> QED
    BY <1>1, <2>2, <2>4, Zenon DEF FailsInv
<1>3. CASE pc[k] # Prog(k).start_ip
  <2>1. Checked(k)
    BY <1>1, <1>3 DEF WellFormed, Checked, InCs
  <2> QED
    BY <2>1, Zenon DEF FailsInv
<1> QED
  BY <1>2, <1>3, Zenon

\* Every step keeps the index of the threads that are not registered, and no
\* thread leaves the registered ones inside a critical section.
LEMMA FailsNext ==
    ASSUME TypeOK, Handler = {}, Mode = "cpu_id", FailsInv, [Next]_vars
    PROVE  FailsInv'
<1>0. /\ st \in [Ctx -> Status] /\ pc \in [Ctx -> Nat] /\ abi \in [Thread -> AbiType]
      /\ act \in [Thread -> {"main", "sig"}] /\ registered \subseteq Thread
      /\ \A k \in Ctx : k[1] \in Thread /\ k = <<k[1], "main">>
  <2>1. \A k \in Ctx : k[1] \in Thread /\ k = <<k[1], "main">>
    BY DEF Ctx
  <2> QED
    BY <2>1, Zenon DEF TypeOK
<1>1. CASE UNCHANGED vars
  BY <1>1, Zenon DEF vars, FailsInv, Checked, InCs, Prog
<1>2. ASSUME NEW t \in Thread, Kernel(t) PROVE FailsInv'
  <2>1. act' = act
    BY <1>2, Zenon DEF Kernel, Preempt, Resume, Signal, SigReturn, Register, Unregister, FailsInv
  <2>2. /\ UNCHANGED <<code, fn, pc>>
        /\ \A k \in Ctx : st'[k] \in {st[k], "abort"}
    <3>1. UNCHANGED <<code, fn, pc>> /\ (st' = st \/ Fixup(t))
      BY <1>2, Zenon DEF Kernel, Preempt, Resume, Signal, SigReturn, Register, Unregister, uvars
    <3> QED
      BY <1>0, <3>1, Zenon DEF Fixup
  <2>3. /\ registered \subseteq registered' \/ Unregister(t)
        /\ \/ abi' = abi \/ Register(t) \/ Unregister(t)
           \/ t \in registered /\ \E x : abi' = [abi EXCEPT ![t] = x]
        /\ Register(t) \/ Unregister(t) \/ registered' = registered
    BY <1>2, Zenon DEF Kernel, Preempt, Resume, Signal, SigReturn, Register, Unregister
  <2>4. ASSUME NEW u \in Thread, u \notin registered'
        PROVE  abi'[u].cpu_id = RSEQ_ABI_CPU_ID_UNINITIALIZED
    <3>1. CASE Unregister(t)
      <4>1. /\ abi' = [abi EXCEPT ![t] = [@ EXCEPT !.cpu_id_start = 0, !.mm_cid = 0,
                                                   !.cpu_id = RSEQ_ABI_CPU_ID_UNINITIALIZED]]
            /\ registered' = registered \ {t}
        BY <3>1, Zenon DEF Unregister
      <4>2. CASE u = t
        <5>1. abi[t] \in AbiType
          BY <1>0, Zenon
        <5>2. abi'[t] = [abi[t] EXCEPT !.cpu_id_start = 0, !.mm_cid = 0,
                                       !.cpu_id = RSEQ_ABI_CPU_ID_UNINITIALIZED]
          BY <1>0, <4>1, Zenon
        <5> QED
          BY <4>2, <5>1, <5>2 DEF AbiType
      <4>3. CASE u # t
        BY <1>0, <2>4, <4>1, <4>3, Zenon DEF FailsInv
      <4> QED
        BY <4>2, <4>3, Zenon
    <3>2. CASE Register(t)
      <4>1. registered' = registered \cup {t} /\ \E x : abi' = [abi EXCEPT ![t] = x]
        BY <3>2, Zenon DEF Register
      <4> QED
        BY <1>0, <2>4, <4>1, Zenon DEF FailsInv
    <3>3. CASE ~Register(t) /\ ~Unregister(t)
      BY <1>0, <2>3, <2>4, <3>3, Zenon DEF FailsInv
    <3> QED
      BY <3>1, <3>2, <3>3, Zenon
  <2>5. ASSUME NEW k \in Ctx, Checked(k)' PROVE k[1] \in registered'
    <3>1. Checked(k) /\ st[k] = "run"
      BY <2>2, <2>5, Zenon DEF Checked, InCs, Prog
    <3>2. CASE Unregister(t)
      <4>1. st[<<t, "main">>] = "idle" /\ registered' = registered \ {t}
        BY <3>2, Zenon DEF Unregister, FailsInv
      <4>2. k[1] # t
        BY <1>0, <3>1, <4>1, Zenon
      <4> QED
        BY <3>1, <4>1, <4>2, Zenon DEF FailsInv
    <3>3. CASE ~Unregister(t)
      BY <2>3, <3>1, <3>3, Zenon DEF FailsInv
    <3> QED
      BY <3>2, <3>3, Zenon
  <2> QED
    BY <2>1, <2>4, <2>5, Zenon DEF FailsInv
<1>3. ASSUME NEW k \in Ctx, User(k) PROVE FailsInv'
  <2>1. ASSUME UNCHANGED <<code, act, registered>>,
               \A t \in Thread : abi'[t].cpu_id = abi[t].cpu_id,
               \A j \in Ctx : j # k => st'[j] = st[j] /\ pc'[j] = pc[j] /\ fn'[j] = fn[j],
               Checked(k)' => k[1] \in registered
        PROVE  FailsInv'
    <3>1. ASSUME NEW j \in Ctx, Checked(j)' PROVE j[1] \in registered
      BY <2>1, <3>1, Zenon DEF FailsInv, Checked, InCs, Prog
    <3> QED
      BY <2>1, <3>1, Zenon DEF FailsInv
  <2>2. CASE Step(k)
    <3>1. /\ UNCHANGED <<code, fn, arg, kvars>> /\ st[k] = "run"
          /\ \A j \in Ctx : j # k => st'[j] = st[j] /\ pc'[j] = pc[j]
          /\ st'[k] = "run" => pc'[k] \in {pc[k], pc[k] + 1}
          /\ abi' = abi \/ abi' = [abi EXCEPT ![k[1]].rseq_cs = fn[k]]
      BY <2>2, StepForm, Zenon
    <3>2. ASSUME NEW t \in Thread PROVE abi'[t].cpu_id = abi[t].cpu_id
      <4>1. abi[t] \in AbiType
        BY <1>0, Zenon
      <4> QED
        BY <1>0, <3>1, <4>1 DEF AbiType
    <3>3. ASSUME Checked(k)' PROVE k[1] \in registered
      <4>1. st'[k] = "run" /\ pc'[k] > Prog(k).start_ip
        BY <3>1, <3>3, Zenon DEF Checked, InCs, Prog
      <4>2. WellFormed(Prog(k))
        BY <3>1, RunningHelper, Zenon
      <4>3. pc[k] >= Prog(k).start_ip
        BY <1>0, <3>1, <4>1, <4>2 DEF WellFormed
      <4> QED
        BY <2>2, <4>1, <4>3, StepRegistered, Zenon
    <3> QED
      BY <2>1, <3>1, <3>2, <3>3, Zenon DEF kvars
  <2>3. CASE ~Step(k)
    <3>0. fn \in [Ctx -> DOMAIN code \cup Unsupported \cup {NULL}]
      BY Zenon DEF TypeOK
    <3>1. /\ UNCHANGED <<code, act, registered, abi>>
          /\ \A j \in Ctx : j # k => st'[j] = st[j] /\ pc'[j] = pc[j] /\ fn'[j] = fn[j]
          /\ st'[k] = "run" => /\ pc'[k] = 1 /\ fn'[k] \in DOMAIN code
      <4>1. ASSUME NEW f \in DOMAIN code \cup Unsupported, Call(k, f) PROVE <3>1
        <5>1. /\ UNCHANGED <<code, act, registered, abi>>
              /\ fn' = [fn EXCEPT ![k] = f] /\ pc' = [pc EXCEPT ![k] = 1]
              /\ \/ f \in DOMAIN code /\ st' = [st EXCEPT ![k] = "run"]
                 \/ st' = [st EXCEPT ![k] = "done"]
          BY <4>1, Zenon DEF Call, kvars
        <5> QED
          BY <1>0, <3>0, <5>1, Zenon
      <4>2. CASE Exit(k)
        BY <1>0, <3>0, <4>2, Zenon DEF Exit, kvars
      <4>3. CASE Return(k)
        BY <1>0, <3>0, <4>3, Zenon DEF Return, kvars
      <4> QED
        BY <1>3, <2>3, <4>1, <4>2, <4>3, Zenon DEF User
    <3>2. ~Checked(k)'
      <4>1. SUFFICES ASSUME st'[k] = "run" PROVE ~(pc'[k] > Prog(k)'.start_ip)
        BY Zenon DEF Checked, InCs
      <4>2. WellFormed(Prog(k)')
        BY <3>1, <4>1, CodeAssumption, Zenon DEF TypeOK, Prog
      <4> QED
        BY <3>1, <4>1, <4>2 DEF WellFormed
    <3> QED
      BY <2>1, <3>1, <3>2, Zenon
  <2> QED
    BY <2>2, <2>3, Zenon
<1> QED
  BY <1>1, <1>2, <1>3, Zenon DEF Next

\* A restartable sequence that a thread which is not registered executes never
\* commits (rseq.h:111): of threads that keep to the rule that they are
\* registered when they call, handlers or not, and, with cpu_id as the index and
\* no signal handlers, of threads that keep to no rule.
THEOREM UnregisteredNeverCommits ==
    ASSUME RegisteredCalls \/ (Mode = "cpu_id" /\ Handler = {})
    PROVE  Spec => UnregisteredFails
<1> DEFINE Fails == \A k \in Ctx : st[k] = "run" /\ st'[k] = "commit" => k[1] \in registered
<1>1. CASE RegisteredCalls
  <2>1. Protected /\ [Next]_vars => [Fails]_vars
    BY Zenon DEF Protected, CallersRegistered
  <2> QED
    BY <1>1, <2>1, AlwaysProtected, PTL DEF Spec, UnregisteredFails
<1>2. CASE Mode = "cpu_id" /\ Handler = {}
  <2>1. Init => FailsInv
    <3> SUFFICES ASSUME Init PROVE FailsInv
      OBVIOUS
    <3>1. \A t \in Thread \ registered : abi[t].cpu_id = RSEQ_ABI_CPU_ID_UNINITIALIZED
      BY DEF Init
    <3>2. (\A t \in Thread : act[t] = "main") /\ \A k \in Ctx : st[k] = "idle"
      BY Zenon DEF Init
    <3> QED
      BY <3>1, <3>2, Zenon DEF FailsInv, Checked, InCs
  <2>2. TypeOK /\ FailsInv /\ [Next]_vars => FailsInv'
    BY <1>2, FailsNext, Zenon
  <2>3. TypeOK /\ FailsInv /\ [Next]_vars => [Fails]_vars
    <3> SUFFICES ASSUME TypeOK, FailsInv, Next, NEW k \in Ctx, st[k] = "run", st'[k] = "commit"
                 PROVE  k[1] \in registered
      BY Zenon DEF vars
    <3>0. st \in [Ctx -> Status]
      BY Zenon DEF TypeOK
    <3>1. Step(k)
      <4>1. ASSUME NEW t \in Thread, Kernel(t) PROVE FALSE
        <5>1. st' = st \/ Fixup(t)
          BY <4>1, Zenon DEF Kernel, Preempt, Resume, Signal, SigReturn, Register, Unregister
        <5> QED
          BY <3>0, <5>1, Zenon DEF Fixup
      <4>2. ASSUME NEW j \in Ctx, User(j), ~Step(j) PROVE FALSE
        BY <3>0, <4>2, Zenon DEF User, Call, Exit, Return
      <4>3. ASSUME NEW j \in Ctx, Step(j), j # k PROVE FALSE
        BY <4>3, StepForm, Zenon
      <4> QED
        BY <4>1, <4>2, <4>3, Zenon DEF Next
    <3>2. pc[k] + 1 = Prog(k).post_commit_ip /\ WellFormed(Prog(k)) /\ pc[k] \in 1 .. Len(Prog(k).code)
      BY <3>1, StepChecks, RunningHelper, Zenon
    <3>3. pc[k] >= Prog(k).start_ip
      BY <3>2 DEF WellFormed
    <3> QED
      BY <1>2, <3>1, <3>3, StepRegistered, Zenon
  <2> QED
    BY <2>1, <2>2, <2>3, TypeCorrect, PTL DEF Spec, UnregisteredFails
<1> QED
  BY <1>1, <1>2, Zenon

=============================================================================
