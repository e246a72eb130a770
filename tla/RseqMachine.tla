---------------------------- MODULE RseqMachine ----------------------------
(***************************************************************************)
(* Threads that run critical-section helpers on a few CPUs, and the part   *)
(* of the kernel that restarts them.                                       *)
(*                                                                         *)
(* A thread has two contexts: its main flow and a signal handler that may  *)
(* interrupt it and call helpers of its own.  Both share the one struct    *)
(* rseq_abi of the thread, hence the one rseq_cs pointer.  A helper runs   *)
(* one instruction per step, so a context can be interrupted between any   *)
(* two instructions.                                                       *)
(*                                                                         *)
(* The kernel is external: it is modelled from what rseq.h and abi.h say   *)
(* it writes to struct rseq_abi and from the descriptors the helpers       *)
(* define for it.                                                          *)
(***************************************************************************)
EXTENDS Integers, Sequences, FiniteSets, RseqAsm

CONSTANTS
    Thread,          \* threads of the process
    Handler,         \* the threads that have a signal handler
    NCpu,            \* CPUs, and the number of concurrency ids
    Mode,            \* the field helpers index by: "cpu_id" or "mm_cid"
    WordMod,         \* 2^w for words of w bits; also the size of memory
    Code,            \* tables of helpers, one per architecture
    Unsupported,     \* calls the dispatchers of rseq.h answer with -1
    Prep(_, _, _, _),\* arguments and memory the caller prepares for a call
    Memory0,         \* initial memory
    Registered0,     \* threads registered at the start
    RegisteredCalls, \* TRUE if threads keep to rseq.h:107-112
    MaxCalls,        \* calls per context (bound)
    MaxSignals,      \* signals delivered (bound)
    MaxSyscalls      \* registrations and unregistrations (bound)

ASSUME ConstantsAssumption ==
    /\ NCpu \in Nat \ {0} /\ WordMod \in Nat \ {0}
    /\ Handler \subseteq Thread /\ Registered0 \subseteq Thread
    /\ Mode \in {"cpu_id", "mm_cid"}
    /\ RegisteredCalls \in BOOLEAN
    /\ MaxCalls \in Nat /\ MaxSignals \in Nat /\ MaxSyscalls \in Nat

ASSUME CodeAssumption == \A table \in Code : \A f \in DOMAIN table : WellFormed(table[f])
ASSUME InputsAssumption == \A table \in Code : \A f \in DOMAIN table : RestoresInputs(table[f])

Cpu == 0 .. NCpu - 1
Word == 0 .. WordMod - 1
Ctx == (Thread \X {"main"}) \cup (Handler \X {"sig"})
Off == -1                              \* a thread that is not running
RSEQ_ABI_CPU_ID_UNINITIALIZED == -1
NULL == << >>                          \* no critical-section descriptor
Status == {"idle", "run", "done"} \cup Label
Reg == {"r", "src", "dst", "len", "s0", "s1", "s2"}
NoReg == [x \in Reg |-> 0]
NoArg == << >>

ASSUME MemoryAssumption == Memory0 \in [Word -> Word]

VARIABLES
    mem,         \* memory shared by the threads
    code,        \* the architecture: its table of helpers
    on,          \* CPU each thread runs on, or Off
    cid,         \* concurrency id of each thread while it runs
    registered,  \* threads with a registered struct rseq_abi
    abi,         \* struct rseq_abi of each thread
    act,         \* context each thread executes
    st,          \* where each context is: "run", an exit label, "done", "idle"
    fn,          \* helper each context executes
    pc,          \* its next instruction
    arg,         \* its input operands
    reg,         \* its registers, and rseq_scratch
    ret,         \* what its call returned
    calls,       \* calls each context has made
    signals,     \* signals delivered so far
    syscalls     \* registrations and unregistrations so far

kvars == <<on, cid, registered, act, signals, syscalls>>
uvars == <<fn, arg, ret, calls>>
vars == <<mem, code, on, cid, registered, abi, act, st, fn, pc, arg, reg, ret,
          calls, signals, syscalls>>

Prog(k) == code[fn[k]]
I(k) == Prog(k).code[pc[k]]
Active(k) == on[k[1]] # Off /\ act[k[1]] = k[2]

\* The instruction pointer of context k is inside its critical section.
InCs(k) ==
    /\ st[k] = "run"
    /\ pc[k] \in Prog(k).start_ip .. Prog(k).post_commit_ip - 1

Index(t) == IF Mode = "cpu_id" THEN abi[t].cpu_id_start ELSE abi[t].mm_cid

-----------------------------------------------------------------------------
Init ==
    /\ mem = Memory0
    /\ code \in Code
    /\ on = [t \in Thread |-> Off]
    /\ cid = [t \in Thread |-> 0]
    /\ registered = Registered0
    /\ abi = [t \in Thread |->
                [cpu_id_start |-> 0,
                 cpu_id |-> IF t \in Registered0 THEN 0
                            ELSE RSEQ_ABI_CPU_ID_UNINITIALIZED,
                 mm_cid |-> 0, rseq_cs |-> NULL]]
    /\ act = [t \in Thread |-> "main"]
    /\ st = [k \in Ctx |-> "idle"]
    /\ fn = [k \in Ctx |-> NULL]
    /\ pc = [k \in Ctx |-> 0]
    /\ arg = [k \in Ctx |-> NoArg]
    /\ reg = [k \in Ctx |-> NoReg]
    /\ ret = [k \in Ctx |-> 0]
    /\ calls = [k \in Ctx |-> 0]
    /\ signals = 0
    /\ syscalls = 0

-----------------------------------------------------------------------------
(* The kernel (external).                                                  *)

\* On its way back to user space a registered thread leaves a critical section
\* it was interrupted in, and finds rseq_cs cleared in either case.
Fixup(t) ==
    LET k == <<t, act[t]>>
    IN  st' = IF t \in registered /\ InCs(k) /\ abi[t].rseq_cs = fn[k]
                THEN [st EXCEPT ![k] = "abort"] ELSE st

Preempt(t) ==
    /\ on[t] # Off
    /\ on' = [on EXCEPT ![t] = Off]
    /\ UNCHANGED <<mem, code, cid, registered, abi, act, st, pc, reg, signals, syscalls, uvars>>

\* Concurrency ids the kernel may give a thread it runs on CPU c: any that no
\* running thread has.  Where helpers index by cpu_id nothing reads them.
Cids(c) == IF Mode = "mm_cid" THEN Cpu ELSE {c}

Resume(t, c, i) ==
    /\ on[t] = Off
    /\ \A u \in Thread : on[u] # Off => on[u] # c /\ cid[u] # i
    /\ on' = [on EXCEPT ![t] = c]
    /\ cid' = [cid EXCEPT ![t] = i]
    /\ Fixup(t)
    /\ abi' = IF t \in registered
                THEN [abi EXCEPT ![t] = [cpu_id_start |-> c, cpu_id |-> c,
                                         mm_cid |-> i, rseq_cs |-> NULL]]
                ELSE abi
    /\ UNCHANGED <<mem, code, registered, act, pc, reg, signals, syscalls, uvars>>

Signal(t) ==
    /\ t \in Handler /\ on[t] # Off /\ act[t] = "main"
    /\ signals < MaxSignals
    /\ signals' = signals + 1
    /\ act' = [act EXCEPT ![t] = "sig"]
    /\ Fixup(t)
    /\ abi' = IF t \in registered THEN [abi EXCEPT ![t] = [@ EXCEPT !.rseq_cs = NULL]] ELSE abi
    /\ UNCHANGED <<mem, code, on, cid, registered, pc, reg, syscalls, uvars>>

SigReturn(t) ==
    /\ on[t] # Off /\ act[t] = "sig"
    /\ st[<<t, "sig">>] = "idle"
    /\ act' = [act EXCEPT ![t] = "main"]
    /\ UNCHANGED <<mem, code, on, cid, registered, abi, st, pc, reg, signals, syscalls, uvars>>

\* sys_rseq(), called between two helpers.
Register(t) ==
    /\ on[t] # Off /\ st[<<t, act[t]>>] = "idle"
    /\ t \notin registered
    /\ syscalls < MaxSyscalls
    /\ syscalls' = syscalls + 1
    /\ registered' = registered \cup {t}
    /\ abi' = [abi EXCEPT ![t] = [@ EXCEPT !.cpu_id_start = on[t], !.cpu_id = on[t],
                                           !.mm_cid = cid[t]]]
    /\ UNCHANGED <<mem, code, on, cid, act, st, pc, reg, signals, uvars>>

Unregister(t) ==
    /\ on[t] # Off /\ st[<<t, act[t]>>] = "idle"
    /\ RegisteredCalls => st[<<t, "main">>] = "idle"
    /\ t \in registered
    /\ syscalls < MaxSyscalls
    /\ syscalls' = syscalls + 1
    /\ registered' = registered \ {t}
    /\ abi' = [abi EXCEPT ![t] = [@ EXCEPT !.cpu_id_start = 0, !.mm_cid = 0,
                                           !.cpu_id = RSEQ_ABI_CPU_ID_UNINITIALIZED]]
    /\ UNCHANGED <<mem, code, on, cid, act, st, pc, reg, signals, uvars>>

-----------------------------------------------------------------------------
(* The caller of a helper.                                                 *)

\* The operands of helper f have type intptr_t or a pointer type.
Words(f, a) ==
    /\ \A x \in DOMAIN a : a[x] \in Word
    /\ f \in DOMAIN code => HasOperands(code[f], a)

\* The caller reads the index, prepares memory only it uses, and calls.
Call(k, f) ==
    /\ Active(k) /\ st[k] = "idle"
    /\ calls[k] < MaxCalls
    /\ RegisteredCalls => k[1] \in registered
    /\ calls' = [calls EXCEPT ![k] = @ + 1]
    /\ \E p \in Prep(f, Index(k[1]), k, mem) :
          /\ p.mem \in [Word -> Word] /\ Words(f, p.arg)
          /\ mem' = p.mem
          /\ arg' = [arg EXCEPT ![k] = p.arg]
          /\ reg' = [reg EXCEPT ![k] =
                        IF f \in DOMAIN code /\ code[f].inplace
                          THEN [NoReg EXCEPT !.src = p.arg.src, !.dst = p.arg.dst,
                                             !.len = p.arg.len]
                          ELSE NoReg]
    /\ fn' = [fn EXCEPT ![k] = f]
    /\ pc' = [pc EXCEPT ![k] = 1]
    \* The dispatchers of rseq.h return -1 for what they do not support.
    /\ IF f \in DOMAIN code
         THEN st' = [st EXCEPT ![k] = "run"] /\ UNCHANGED ret
         ELSE st' = [st EXCEPT ![k] = "done"] /\ ret' = [ret EXCEPT ![k] = -1]
    /\ UNCHANGED <<code, abi, kvars>>

\* Mutant: the abort handler does not restore the inputs.
ExitAbortKeeps(k) ==
    /\ Active(k)
    /\ st[k] \in Label \ ErrorLabel
    /\ st' = [st EXCEPT ![k] = "done"]
    /\ ret' = [ret EXCEPT ![k] = CASE st[k] = "commit" -> 0
                                   [] st[k] = "abort" -> -1
                                   [] OTHER -> 1]
    /\ reg' = IF st[k] \in Prog(k).teardown \ {"abort"}
                THEN [reg EXCEPT ![k].src = reg[k].s0, ![k].dst = reg[k].s1,
                                 ![k].len = reg[k].s2]
                ELSE reg
    /\ UNCHANGED <<mem, code, abi, pc, fn, arg, calls, kvars>>

\* The handler of an exit label and the C label it jumps to.  The error labels
\* end in rseq_bug() and never return.
Exit(k) ==
    /\ Active(k)
    /\ st[k] \in Label \ ErrorLabel
    /\ st' = [st EXCEPT ![k] = "done"]
    /\ ret' = [ret EXCEPT ![k] = CASE st[k] = "commit" -> 0
                                   [] st[k] = "abort" -> -1
                                   [] OTHER -> 1]
    /\ reg' = IF st[k] \in Prog(k).teardown
                THEN [reg EXCEPT ![k].src = reg[k].s0, ![k].dst = reg[k].s1,
                                 ![k].len = reg[k].s2]
                ELSE reg
    /\ UNCHANGED <<mem, code, abi, pc, fn, arg, calls, kvars>>

Return(k) ==
    /\ Active(k) /\ st[k] = "done"
    /\ st' = [st EXCEPT ![k] = "idle"]
    /\ fn' = [fn EXCEPT ![k] = NULL]
    /\ pc' = [pc EXCEPT ![k] = 0]
    /\ arg' = [arg EXCEPT ![k] = NoArg]
    /\ reg' = [reg EXCEPT ![k] = NoReg]
    /\ ret' = [ret EXCEPT ![k] = 0]
    /\ UNCHANGED <<mem, code, abi, calls, kvars>>

-----------------------------------------------------------------------------
(* The instructions of a helper.                                           *)

At(k, op) == Active(k) /\ st[k] = "run" /\ I(k).op = op
A(k) == arg[k][I(k).a]
B(k) == arg[k][I(k).b]
Add(x, y) == (x + y) % WordMod

\* The next instruction, or the post-commit address after the last one.
Advance(k) ==
    /\ pc' = [pc EXCEPT ![k] = @ + 1]
    /\ st' = IF pc[k] + 1 = Prog(k).post_commit_ip
               THEN [st EXCEPT ![k] = "commit"] ELSE st

Branch(k, taken) ==
    /\ IF taken THEN st' = [st EXCEPT ![k] = I(k).to] /\ UNCHANGED pc
                ELSE Advance(k)
    /\ UNCHANGED <<mem, code, abi, reg, uvars, kvars>>

SetReg(k, new) ==
    /\ reg' = [reg EXCEPT ![k] = new]
    /\ Advance(k)
    /\ UNCHANGED <<mem, code, abi, uvars, kvars>>

Store(k, a, x) ==
    /\ mem' = [mem EXCEPT ![a] = x]
    /\ Advance(k)
    /\ UNCHANGED <<code, abi, reg, uvars, kvars>>

\* Mutants: the descriptor is not published; the comparison uses the field
\* unregistered threads may read too; the comparison never branches.
StoreNothing(k) ==
    /\ At(k, "store_rseq_cs")
    /\ Advance(k)
    /\ UNCHANGED <<mem, code, abi, reg, uvars, kvars>>
CbneCpuIdStart(k) ==
    /\ At(k, "cbne_cpu_id")
    /\ Branch(k, arg[k].cpu # abi[k[1]].cpu_id_start)
CbneNever(k) == At(k, "cbne_cpu_id") /\ Branch(k, FALSE)

StoreRseqCs(k) ==
    /\ At(k, "store_rseq_cs")
    /\ abi' = [abi EXCEPT ![k[1]].rseq_cs = fn[k]]
    /\ Advance(k)
    /\ UNCHANGED <<mem, code, reg, uvars, kvars>>

CbneCpuId(k) ==
    /\ At(k, "cbne_cpu_id")
    /\ Branch(k, arg[k].cpu # abi[k[1]][Mode])

OpCbne(k) == At(k, "cbne") /\ Branch(k, mem[A(k)] # B(k))
OpCbeq(k) == At(k, "cbeq") /\ Branch(k, mem[A(k)] = B(k))
OpRCbeq(k) == At(k, "r_cbeq") /\ Branch(k, reg[k].r = A(k))

OpRLoad(k) == At(k, "r_load") /\ SetReg(k, [reg[k] EXCEPT !.r = mem[A(k)]])
OpRAdd(k) == At(k, "r_add") /\ SetReg(k, [reg[k] EXCEPT !.r = Add(@, A(k))])
OpRLoadInd(k) ==
    At(k, "r_load_ind") /\ SetReg(k, [reg[k] EXCEPT !.r = mem[@]])
OpRLoadOff(k) ==
    At(k, "r_load_off") /\ SetReg(k, [reg[k] EXCEPT !.r = mem[Add(@, A(k))]])

OpStore(k) == At(k, "store") /\ Store(k, B(k), A(k))
OpStoreRelease(k) == At(k, "store_release") /\ Store(k, B(k), A(k))
OpRStore(k) == At(k, "r_store") /\ Store(k, A(k), reg[k].r)
OpMemAdd(k) == At(k, "mem_add") /\ Store(k, A(k), Add(mem[A(k)], B(k)))
OpRMemAdd(k) ==
    At(k, "r_mem_add") /\ Store(k, reg[k].r, Add(mem[reg[k].r], A(k)))
\* Memory is sequentially consistent: a barrier orders nothing more.
OpFence(k) == At(k, "fence") /\ Branch(k, FALSE)

SaveInputs(k) ==
    /\ At(k, "save_inputs")
    /\ SetReg(k, [reg[k] EXCEPT !.s0 = reg[k].src, !.s1 = reg[k].dst,
                                !.s2 = reg[k].len])
MoveInputs(k) ==
    /\ At(k, "move_inputs")
    /\ SetReg(k, [reg[k] EXCEPT !.src = arg[k].src, !.dst = arg[k].dst,
                                !.len = arg[k].len])

\* One byte per step while len # 0.
MemcpyUp(k) ==
    /\ At(k, "memcpy_up")
    /\ IF reg[k].len = 0 THEN Branch(k, FALSE)
       ELSE /\ mem' = [mem EXCEPT ![reg[k].dst] = mem[reg[k].src]]
            /\ reg' = [reg EXCEPT ![k].src = Add(@, 1), ![k].dst = Add(@, 1),
                                  ![k].len = @ - 1]
            /\ UNCHANGED <<code, abi, st, pc, uvars, kvars>>
MemcpyDown(k) ==
    /\ At(k, "memcpy_down")
    /\ IF reg[k].len = 0 THEN Branch(k, FALSE)
       ELSE /\ mem' = [mem EXCEPT ![Add(arg[k].dst, reg[k].len - 1)] =
                                     mem[Add(arg[k].src, reg[k].len - 1)]]
            /\ reg' = [reg EXCEPT ![k].len = @ - 1]
            /\ UNCHANGED <<code, abi, st, pc, uvars, kvars>>

Step(k) ==
    \/ StoreRseqCs(k) \/ CbneCpuId(k)
    \/ OpCbne(k) \/ OpCbeq(k) \/ OpRCbeq(k)
    \/ OpRLoad(k) \/ OpRAdd(k) \/ OpRLoadInd(k) \/ OpRLoadOff(k)
    \/ OpStore(k) \/ OpStoreRelease(k) \/ OpRStore(k) \/ OpMemAdd(k) \/ OpRMemAdd(k)
    \/ OpFence(k)
    \/ SaveInputs(k) \/ MoveInputs(k) \/ MemcpyUp(k) \/ MemcpyDown(k)

Kernel(t) ==
    \/ Preempt(t)
    \/ \E c \in Cpu : \E i \in Cids(c) : Resume(t, c, i)
    \/ Signal(t) \/ SigReturn(t)
    \/ Register(t) \/ Unregister(t)

User(k) == (\E f \in DOMAIN code \cup Unsupported : Call(k, f)) \/ Step(k) \/ Exit(k) \/ Return(k)

Next == (\E t \in Thread : Kernel(t)) \/ (\E k \in Ctx : User(k))

Spec == Init /\ [][Next]_vars

-----------------------------------------------------------------------------
(* Correctness.                                                            *)

AbiType == [cpu_id_start : Cpu, cpu_id : Cpu \cup {RSEQ_ABI_CPU_ID_UNINITIALIZED},
            mm_cid : Cpu, rseq_cs : DOMAIN code \cup {NULL}]

InHelper(k) ==
    /\ st[k] \in {"run"} \cup Label => fn[k] \in DOMAIN code /\ Words(fn[k], arg[k])
    /\ st[k] = "run" => pc[k] \in 1 .. Len(Prog(k).code)

\* The state of the machine has its types: memory and registers hold words,
\* and a context that runs a helper runs one the architecture has.
TypeOK ==
    /\ mem \in [Word -> Word]
    /\ code \in Code
    /\ on \in [Thread -> Cpu \cup {Off}]
    /\ cid \in [Thread -> Cpu]
    /\ registered \subseteq Thread
    /\ abi \in [Thread -> AbiType]
    /\ act \in [Thread -> {"main", "sig"}]
    /\ st \in [Ctx -> Status]
    /\ fn \in [Ctx -> DOMAIN code \cup Unsupported \cup {NULL}]
    /\ pc \in [Ctx -> Nat]
    /\ DOMAIN arg = Ctx
    /\ \A k \in Ctx : InHelper(k)
    /\ reg \in [Ctx -> [Reg -> Word]]
    /\ ret \in [Ctx -> {-1, 0, 1}]
    /\ calls \in [Ctx -> 0 .. MaxCalls]
    /\ signals \in 0 .. MaxSignals
    /\ syscalls \in 0 .. MaxSyscalls

\* Past the comparison with the current index, before the final store.
Checked(k) == InCs(k) /\ pc[k] > Prog(k).start_ip

\* Two contexts that are executing a critical section on the data of the same
\* CPU (or concurrency id), both past its index comparison, are one context:
\* the mutual exclusion the helpers provide without a lock or an atomic
\* instruction (RSEQ_ASM_STORE_RSEQ_CS before RSEQ_ASM_CBNE_CPU_ID).
CsExclusive ==
    \A j, k \in Ctx :
        /\ Active(j) /\ Checked(j)
        /\ Active(k) /\ Checked(k)
        /\ arg[j].cpu = arg[k].cpu
        => j = k

-----------------------------------------------------------------------------
(* Why it holds: an invariant every step preserves, of threads that keep   *)
(* to the rule of rseq.h that they are registered when they call.          *)

CallersRegistered == \A k \in Ctx : st[k] # "idle" => k[1] \in registered
HandlersIdle == \A t \in Handler : act[t] = "main" => st[<<t, "sig">>] = "idle"

\* Only the context a thread executes is in a critical section, and the kernel
\* knows of it.
DescriptorSet ==
    \A k \in Ctx : InCs(k) => act[k[1]] = k[2] /\ abi[k[1]].rseq_cs = fn[k]

\* The index a helper compared with is the one its thread has now.
OwnIndex(t) == IF Mode = "cpu_id" THEN on[t] ELSE cid[t]
IndexOwned ==
    \A k \in Ctx : Active(k) /\ Checked(k) => arg[k].cpu = OwnIndex(k[1])

AbiCurrent ==
    \A t \in registered : on[t] # Off => abi[t].cpu_id = on[t] /\ abi[t].mm_cid = cid[t]
CpusDistinct ==
    \A t, u \in Thread :
        t # u /\ on[t] # Off /\ on[u] # Off => on[t] # on[u] /\ cid[t] # cid[u]

\* A critical section past its index comparison is pinned to the data of the
\* CPU its thread runs on: the descriptor the kernel would restart it by is
\* published, and the index is current.
Protected ==
    /\ CallersRegistered /\ HandlersIdle /\ DescriptorSet
    /\ IndexOwned /\ AbiCurrent /\ CpusDistinct

\* A context that stops executing inside its critical section, because its
\* thread was preempted or a signal handler runs on top of it, never goes on
\* from there: it is at the abort handler when it executes again, whatever
\* critical sections the handler ran in between.
SuspendedCsAborts ==
    [][\A k \in Ctx : InCs(k) /\ ~Active(k) /\ Active(k)' => st'[k] = "abort"]_vars

\* The assertions of the RSEQ_COMPARE_TWICE build hold: neither the index nor
\* an expected value changes between the first comparison and the second, so
\* rseq_bug() is not reached.
NoRseqBug == \A k \in Ctx : st[k] \notin ErrorLabel

\* gcc assumes the inputs of an asm goto keep their values.  The helpers that
\* use src, dst and len as working registers have restored them whichever way
\* the copy ended.
InputsPreserved ==
    \A k \in Ctx :
        st[k] = "done" /\ fn[k] \in DOMAIN code /\ Prog(k).inplace
        => \A x \in {"src", "dst", "len"} : reg[k][x] = arg[k][x]

\* rseq.h:111: "A restartable sequence executed from a non-registered thread
\* will always fail."
UnregisteredFails ==
    [][\A k \in Ctx : st[k] = "run" /\ st'[k] = "commit" => k[1] \in registered]_vars

=============================================================================
