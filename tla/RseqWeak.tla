------------------------------ MODULE RseqWeak ------------------------------
(***************************************************************************)
(* The barriers and the helpers with release semantic on processors that   *)
(* perform the accesses of a thread out of order.                          *)
(*                                                                         *)
(* A program is a sequence of reads, writes, fences and branches, made of  *)
(* the macros of the architecture and of the instructions of its helpers.  *)
(* A thread performs an access as soon as no earlier one has to be first:  *)
(* because of a fence between them, of the same location, of a dependency, *)
(* or because writes are not performed before the branches they depend on  *)
(* are known.  Reads are, speculatively.  An access is performed for all   *)
(* processors at once.                                                     *)
(*                                                                         *)
(* A thread may be preempted between two instructions: the accesses before *)
(* are then performed, those after it are not, and a helper that had not   *)
(* reached the end of its critical section starts again.  The descriptor   *)
(* and the index are not in the programs: no other thread accesses them.   *)
(***************************************************************************)
EXTENDS RseqArch, Integers
LOCAL INSTANCE SequencesExt

CONSTANT Litmus     \* programs to run

Thread == {1, 2}
Processor == {0, 1}
Off == -1
Location == {"v", "v2", "data"}
Register == {"zero", "r1", "r2", "r3"}

Tables == [x86_64 |-> x86_64, i386 |-> i386, arm |-> arm, aarch64 |-> aarch64, mips |-> mips,
           ppc |-> ppc, riscv |-> riscv, s390 |-> s390]

-----------------------------------------------------------------------------
\* Barriers.  One orders some of the accesses before it with some of those
\* after it: "RW" stands for the reads before and the writes after.
\*
\* Of each architecture: the three barriers, what follows the load of
\* rseq_smp_load_acquire() and precedes the store of rseq_smp_store_release(),
\* what rseq_smp_acquire__after_ctrl_dep() is, and the barrier before the final
\* store of a helper with release semantic.  Where the load or the store itself
\* orders, "ldar" and "stlr" stand for it.  The manuals of the processors say
\* what an instruction orders, and that tso machines only delay stores.
None == {}
Full == {"RR", "RW", "WR", "WW"}
Lwsync == {"RR", "RW", "WW"}

x86_barriers ==
    [mb |-> Full, rmb |-> None, wmb |-> None,
     load_acquire |-> None, store_release |-> None, after_ctrl_dep |-> None,
     final |-> None, tso |-> TRUE]

arm_barriers ==
    [mb |-> Full, rmb |-> Full, wmb |-> Full,
     load_acquire |-> Full, store_release |-> Full, after_ctrl_dep |-> Full,
     final |-> Full, tso |-> FALSE]

aarch64_barriers ==
    [mb |-> Full, rmb |-> {"RR", "RW"}, wmb |-> {"WW"},
     load_acquire |-> {"ldar"}, store_release |-> {"stlr"}, after_ctrl_dep |-> {"RR", "RW"},
     final |-> {"stlr"}, tso |-> FALSE]

mips_barriers == arm_barriers

ppc_barriers ==
    [mb |-> Full, rmb |-> Lwsync, wmb |-> Lwsync,
     load_acquire |-> Lwsync, store_release |-> Lwsync, after_ctrl_dep |-> Lwsync,
     final |-> Lwsync, tso |-> FALSE]

\* Mutant: the fence after the load of an acquire orders writes only.
RiscvFenceRW ==
    [mb |-> Full, rmb |-> {"RR"}, wmb |-> {"WW"},
     load_acquire |-> {"RW"}, store_release |-> {"RW", "WW"}, after_ctrl_dep |-> {"RR"},
     final |-> {"RW", "WW"}, tso |-> FALSE]

riscv_barriers ==
    [mb |-> Full, rmb |-> {"RR"}, wmb |-> {"WW"},
     load_acquire |-> {"RR", "RW"}, store_release |-> {"RW", "WW"}, after_ctrl_dep |-> {"RR"},
     final |-> {"RW", "WW"}, tso |-> FALSE]

s390_barriers ==
    [mb |-> Full, rmb |-> Full, wmb |-> Full,
     load_acquire |-> None, store_release |-> None, after_ctrl_dep |-> Full,
     final |-> None, tso |-> TRUE]

Barriers == [x86_64 |-> x86_barriers, i386 |-> x86_barriers, arm |-> arm_barriers,
             aarch64 |-> aarch64_barriers, mips |-> mips_barriers, ppc |-> ppc_barriers,
             riscv |-> riscv_barriers, s390 |-> s390_barriers]

-----------------------------------------------------------------------------
\* Events.  A write stores reg + add; a branch goes on if reg equals add.
Event(k, loc, reg, add, order) == [k |-> k, loc |-> loc, reg |-> reg, add |-> add, order |-> order]
R(loc, reg) == Event("R", loc, reg, 0, None)
W(loc, reg, add) == Event("W", loc, reg, add, None)
F(order) == Event("F", "", "zero", 0, order)
B(reg, n) == Event("B", "", reg, n, None)

\* A load and what follows it, a store and what precedes it.
Acquiring(load, order) ==
    IF "ldar" \in order THEN <<[load EXCEPT !.order = order]>> ELSE <<load, F(order)>>
Releasing(order, store) ==
    IF "stlr" \in order THEN <<[store EXCEPT !.order = order]>> ELSE <<F(order), store>>

rseq_smp_load_acquire(arch, loc, reg) == Acquiring(R(loc, reg), Barriers[arch].load_acquire)
rseq_smp_store_release(arch, loc, n) == Releasing(Barriers[arch].store_release, W(loc, "zero", n))

\* The arguments of the calls: expect is 0, everything else 1.
Argument == [expect |-> 0, newv |-> 1, newv2 |-> 1]

InsnEvents(arch, insn) ==
    CASE insn.op = "cbne" -> <<R(insn.a, "r1"), B("r1", Argument[insn.b])>>
      [] insn.op = "store" -> <<W(insn.b, "zero", Argument[insn.a])>>
      [] insn.op = "store_release" ->
            Releasing(Barriers[arch].final, W(insn.b, "zero", Argument[insn.a]))
      [] insn.op = "fence" -> <<F(Barriers[arch].final)>>
      [] insn.op \in {"memcpy_up", "memcpy_down"} -> <<W("v2", "zero", 1)>>
      [] insn.op \in {"store_rseq_cs", "cbne_cpu_id", "save_inputs", "move_inputs"} -> << >>

CodeEvents(arch, code) == FlattenSeq([i \in DOMAIN code |-> InsnEvents(arch, code[i])])

Helper(arch, op, mo) == CodeEvents(arch, Tables[arch][<<op, mo>>].code)

\* rseq_this_cpu_lock(), an update and rseq_percpu_unlock().
Locked(arch) ==
    Helper(arch, "load_cbne_store", "relaxed")
    \o <<F(Barriers[arch].after_ctrl_dep), R("data", "r2"), W("data", "r2", 1), R("v", "r3")>>
    \o rseq_smp_store_release(arch, "v", 0)

Reader(first) == first \o <<B("r1", 1), R("v2", "r2")>>

\* The program of each thread, and the events of the first that form a critical
\* section.
Program(arch, litmus) ==
    CASE litmus = "store_store" ->
            <<Helper(arch, "load_cbne_store_store", "release"),
              Reader(rseq_smp_load_acquire(arch, "v", "r1"))>>
      [] litmus = "memcpy_store" ->
            <<Helper(arch, "load_cbne_memcpy_store", "release"),
              Reader(rseq_smp_load_acquire(arch, "v", "r1"))>>
      [] litmus = "ctrl_dep" ->
            <<<<W("v2", "zero", 1)>> \o rseq_smp_store_release(arch, "v", 1),
              <<R("v", "r1"), B("r1", 1), F(Barriers[arch].after_ctrl_dep), R("v2", "r2")>>>>
      [] litmus = "wmb_rmb" ->
            <<<<W("v2", "zero", 1), F(Barriers[arch].wmb), W("v", "zero", 1)>>,
              Reader(<<R("v", "r1"), F(Barriers[arch].rmb)>>)>>
      [] litmus = "mb" ->
            <<<<W("v", "zero", 1), F(Barriers[arch].mb), R("v2", "r1")>>,
              <<W("v2", "zero", 1), F(Barriers[arch].mb), R("v", "r1")>>>>
      [] litmus = "lock" -> <<Locked(arch), Locked(arch)>>

\* The length of the critical section a thread's program starts with.
CsLen(arch, litmus, t) ==
    CASE litmus = "store_store" /\ t = 1 -> Len(Helper(arch, "load_cbne_store_store", "release"))
      [] litmus = "memcpy_store" /\ t = 1 -> Len(Helper(arch, "load_cbne_memcpy_store", "release"))
      [] litmus = "lock" -> Len(Helper(arch, "load_cbne_store", "relaxed"))
      [] OTHER -> 0

-----------------------------------------------------------------------------
VARIABLES
    arch, litmus,
    prog,       \* the program of each thread
    done,       \* the events performed
    reg, mem,
    cpu         \* the CPU a thread runs on

vars == <<arch, litmus, prog, done, reg, mem, cpu>>

\* The threads of the lock start on the CPU the lock belongs to.
Init ==
    /\ arch \in DOMAIN Tables
    /\ litmus \in Litmus
    /\ prog = Program(arch, litmus)
    /\ done = [t \in Thread |-> {}]
    /\ reg = [t \in Thread |-> [r \in Register |-> 0]]
    /\ mem = [l \in Location |-> 0]
    /\ cpu = IF litmus = "lock" THEN <<0, Off>> ELSE <<0, 1>>

\* Event i of program p has to be performed before event j.
MustPrecede(p, i, j) ==
    LET a == p[i]
        b == p[j]
    IN  \/ a.k = "B" /\ b.k \in {"W", "B"}
        \/ a.k = "R" /\ b.k \in {"W", "B"} /\ a.reg = b.reg
        \/ /\ a.k \in {"R", "W"} /\ b.k \in {"R", "W"}
           /\ \/ a.loc = b.loc /\ ~(a.k = "W" /\ b.k = "R")
              \/ "ldar" \in a.order \/ "stlr" \in b.order
              \/ \E f \in i + 1 .. j - 1 : p[f].k = "F" /\ a.k \o b.k \in p[f].order
              \/ Barriers[arch].tso /\ ~(a.k = "W" /\ b.k = "R")

Ready(t, i) ==
    /\ cpu[t] # Off /\ i \notin done[t] /\ prog[t][i].k # "F"
    /\ \A j \in 1 .. i - 1 : MustPrecede(prog[t], j, i) => j \in done[t]

\* A read takes the value of an earlier write of the thread that is still to be
\* performed, if there is one.
Pending(t, i) ==
    {j \in 1 .. i - 1 : prog[t][j].k = "W" /\ prog[t][j].loc = prog[t][i].loc /\ j \notin done[t]}

WriteValue(t, e) == reg[t][e.reg] + e.add

Read(t, i) ==
    LET e == prog[t][i]
        own == Pending(t, i)
        last == CHOOSE j \in own : \A k \in own : k <= j
    IN  /\ e.k = "R" /\ Ready(t, i)
        \* The value of that write is known.
        /\ own # {} => \A j \in 1 .. last - 1 :
                          (prog[t][j].k = "R" /\ prog[t][j].reg = prog[t][last].reg) => j \in done[t]
        /\ reg' = [reg EXCEPT ![t][e.reg] = IF own = {} THEN mem[e.loc]
                                            ELSE WriteValue(t, prog[t][last])]
        /\ done' = [done EXCEPT ![t] = @ \cup {i}]
        /\ UNCHANGED <<arch, litmus, prog, mem, cpu>>

Write(t, i) ==
    LET e == prog[t][i]
    IN  /\ e.k = "W" /\ Ready(t, i)
        /\ mem' = [mem EXCEPT ![e.loc] = WriteValue(t, e)]
        /\ done' = [done EXCEPT ![t] = @ \cup {i}]
        /\ UNCHANGED <<arch, litmus, prog, reg, cpu>>

\* A branch that is not taken starts the thread again: all of the programs loop
\* until what they wait for is there.
Branch(t, i) ==
    LET e == prog[t][i]
    IN  /\ e.k = "B" /\ Ready(t, i)
        /\ done' = [done EXCEPT ![t] = IF reg[t][e.reg] = e.add THEN @ \cup {i} ELSE {}]
        /\ UNCHANGED <<arch, litmus, prog, reg, mem, cpu>>

Accesses(t) == {i \in DOMAIN prog[t] : prog[t][i].k # "F"}

\* After the first n events.  The thread has not reached the end of its critical
\* section, or is past it.
Preempt(t, n) ==
    /\ cpu[t] # Off
    /\ Accesses(t) \cap 1 .. n \subseteq done[t]
    /\ \A i \in done[t] : i > n => prog[t][i].k # "W"
    /\ done' = [done EXCEPT ![t] = IF n < CsLen(arch, litmus, t) THEN {} ELSE @ \cap 1 .. n]
    /\ cpu' = [cpu EXCEPT ![t] = Off]
    /\ UNCHANGED <<arch, litmus, prog, reg, mem>>

\* The CPU a thread starts on: that of the lock, or one of its own.
Home(t) == IF litmus = "lock" THEN 0 ELSE t - 1

\* On a CPU that is idle.  A thread that has begun may go on anywhere.
Resume(t, c) ==
    /\ cpu[t] = Off
    /\ \A u \in Thread : cpu[u] # c
    /\ done[t] = {} => c = Home(t)
    /\ cpu' = [cpu EXCEPT ![t] = c]
    /\ UNCHANGED <<arch, litmus, prog, done, reg, mem>>

Next ==
    \E t \in Thread :
        \/ \E i \in DOMAIN prog[t] : Read(t, i) \/ Write(t, i) \/ Branch(t, i)
        \/ \E n \in 0 .. Len(prog[t]) : Preempt(t, n)
        \/ \E c \in Processor : Resume(t, c)

Spec == Init /\ [][Next]_vars

-----------------------------------------------------------------------------
Finished(t) == done[t] = Accesses(t)

\* Who sees the final store of a helper with release semantic, of
\* rseq_smp_store_release() or one behind rseq_smp_wmb(), and reads on after an
\* acquire or a read barrier, sees what was stored before it.
Published ==
    litmus \in {"store_store", "memcpy_store", "ctrl_dep", "wmb_rmb"} /\ Finished(2)
      => reg[2]["r2"] = 1

\* Of two threads that store and read what the other stores behind rseq_smp_mb(),
\* one sees the other's store.
StoresSeen ==
    litmus = "mb" /\ Finished(1) /\ Finished(2) => reg[1]["r1"] = 1 \/ reg[2]["r1"] = 1

\* An update under the per-CPU lock is not lost, and the thread that unlocks finds
\* the lock taken, although one thread may hold the lock on another CPU by then.
LockProtects ==
    litmus = "lock" =>
        /\ \A t \in Thread : Finished(t) => reg[t]["r3"] = 1
        /\ Finished(1) /\ Finished(2) => mem["data"] = 2 /\ mem["v"] = 0

=============================================================================
