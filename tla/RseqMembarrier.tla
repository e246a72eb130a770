--------------------------- MODULE RseqMembarrier ---------------------------
(***************************************************************************)
(* Replacing per-CPU data under running critical sections, as the          *)
(* membarrier test of tests/param_test.c does it: workers add to what a    *)
(* shared pointer points to, and a manager moves the pointer to another    *)
(* list and restarts the critical sections of a CPU, after which that CPU  *)
(* leaves the old list alone.  The pointer is not data of the CPU: it      *)
(* changes under a helper that has loaded it, so the call is not the       *)
(* single step of pseudocode.h.                                            *)
(***************************************************************************)
EXTENDS Integers
LOCAL INSTANCE FiniteSetsExt

CONSTANTS
    Worker,
    Cpu,        \* the possible CPUs, 0 .. max_nr_cpus - 1
    Online,     \* those that run threads
    Reps,       \* opt_reps
    MaxRounds,  \* of the manager
    MaxHits     \* preemptions in a worker's loop

ASSUME MembarrierAssumption ==
    Online \subseteq Cpu /\ 0 \in Cpu /\ Cpu \subseteq Nat /\ {Reps, MaxRounds, MaxHits} \subseteq Nat

List == {"a", "b"}
NULL == "null"
Off == -1
Other(l) == IF l = "a" THEN "b" ELSE "a"

VARIABLES
    mm_cid,                     \* BUILDOPT_RSEQ_PERCPU_MM_CID: the index is a concurrency id
    percpu_list_ptr, data,      \* data of the head of a CPU's list
    cpu,                        \* what a running worker's index is; Off
    pc, idx, reg, reps,         \* the workers
    mpc, active, target, expect,\* the manager: what it read of the list not active
    rounds, hits

workers == <<pc, idx, reg, reps>>
manager == <<mpc, active, target, expect, rounds>>
vars == <<mm_cid, percpu_list_ptr, data, cpu, workers, manager, hits>>

Init ==
    /\ mm_cid \in BOOLEAN
    /\ percpu_list_ptr = NULL
    /\ data = [l \in List |-> [c \in Cpu |-> 0]]
    /\ cpu = [w \in Worker |-> Off]
    /\ pc = [w \in Worker |-> "wait"]
    /\ idx = [w \in Worker |-> 0] /\ reg = [w \in Worker |-> NULL]
    /\ reps = [w \in Worker |-> 0]
    /\ mpc = "publish" /\ active = "a" /\ target = [l \in List |-> 0]
    /\ expect = [l \in List |-> 0] /\ rounds = 0
    /\ hits = 0

-----------------------------------------------------------------------------
(* The workers: rseq_load_add_load_load_add_store__ptr() in a retry loop.  *)
At(w, l) == cpu[w] # Off /\ pc[w] = l
Goto(w, l) == pc' = [pc EXCEPT ![w] = l]

WaitForList(w) ==
    /\ At(w, "wait") /\ percpu_list_ptr # NULL
    /\ Goto(w, "start")
    /\ UNCHANGED <<percpu_list_ptr, data, cpu, idx, reg, reps, manager, hits>>

ReadIndex(w) ==
    /\ At(w, "start")
    /\ idx' = [idx EXCEPT ![w] = cpu[w]]
    /\ Goto(w, "enter")
    /\ UNCHANGED <<percpu_list_ptr, data, cpu, reg, reps, manager, hits>>

Enter(w) ==
    /\ At(w, "enter")
    /\ Goto(w, IF cpu[w] = idx[w] THEN "load" ELSE "start")
    /\ UNCHANGED <<percpu_list_ptr, data, cpu, idx, reg, reps, manager, hits>>

LoadList(w) ==
    /\ At(w, "load")
    /\ reg' = [reg EXCEPT ![w] = percpu_list_ptr]
    /\ Goto(w, "final")
    /\ UNCHANGED <<percpu_list_ptr, data, cpu, idx, reps, manager, hits>>

\* The addition to memory that ends the critical section.
AddStore(w) ==
    /\ At(w, "final")
    /\ data' = [data EXCEPT ![reg[w]][idx[w]] = @ + 1]
    /\ reg' = [reg EXCEPT ![w] = NULL] /\ idx' = [idx EXCEPT ![w] = 0]
    /\ reps' = [reps EXCEPT ![w] = @ + 1]
    /\ Goto(w, IF reps'[w] = Reps THEN "done" ELSE "start")
    /\ UNCHANGED <<percpu_list_ptr, cpu, manager, hits>>


\* The helpers of S abort and their loops start again.
Retry(S) ==
    /\ pc' = [w \in Worker |-> IF w \in S THEN "start" ELSE pc[w]]
    /\ idx' = [w \in Worker |-> IF w \in S THEN 0 ELSE idx[w]]
    /\ reg' = [w \in Worker |-> IF w \in S THEN NULL ELSE reg[w]]
    /\ UNCHANGED reps

InCs(w) == pc[w] \in {"load", "final"}

Preempt(w) ==
    /\ cpu[w] # Off /\ (pc[w] \in {"enter", "load", "final"} => hits < MaxHits)
    /\ hits' = IF pc[w] \in {"enter", "load", "final"} THEN hits + 1 ELSE hits
    /\ cpu' = [cpu EXCEPT ![w] = Off]
    /\ IF InCs(w) THEN Retry({w}) ELSE UNCHANGED workers
    /\ UNCHANGED <<percpu_list_ptr, data, manager>>

Schedule(w) ==
    /\ cpu[w] = Off /\ pc[w] # "done"
    /\ \E c \in Online \ {cpu[u] : u \in Worker} : cpu' = [cpu EXCEPT ![w] = c]
    /\ UNCHANGED <<percpu_list_ptr, data, workers, manager, hits>>

-----------------------------------------------------------------------------
(* The manager.  One half of a round: list l is active and becomes         *)
(* inactive.  Its own index plays no part: it runs beside the workers.     *)
Stopped == \A w \in Worker : pc[w] = "done"

Publish ==
    /\ mpc = "publish"
    /\ percpu_list_ptr' = "a"
    /\ mpc' = "test"
    /\ UNCHANGED <<data, cpu, workers, active, target, expect, rounds, hits>>

\* The list that is not active must be as it was.
CheckInactive(l) == mpc' = IF expect[l] = data[l][target[l]] THEN "switch" ELSE "failed"

\* The loop tests for the end only while list_a is active.
Test ==
    /\ mpc = "test"
    /\ \/ active = "a" /\ Stopped /\ mpc' = "end" /\ UNCHANGED rounds
       \/ active = "a" /\ ~Stopped /\ rounds < MaxRounds /\ rounds' = rounds + 1
          /\ CheckInactive("b")
       \/ active = "b" /\ CheckInactive("a") /\ UNCHANGED rounds
    /\ UNCHANGED <<percpu_list_ptr, data, cpu, workers, active, target, expect, hits>>

\* A CPU is chosen at random before the pointer moves.
Switch ==
    /\ mpc = "switch"
    /\ percpu_list_ptr' = Other(active)
    /\ \E c \in Cpu : target' = [target EXCEPT ![active] = c]
    /\ mpc' = "barrier"
    /\ UNCHANGED <<data, cpu, workers, active, expect, rounds, hits>>

\* Mutant: the barrier misses the CPU.
BarrierOnOther(c) == {w \in Worker : cpu[w] # Off /\ (mm_cid \/ cpu[w] # c)}

\* MEMBARRIER_CMD_FLAG_CPU names a CPU, an offline one is ENXIO; concurrency ids
\* have no CPU and take the barrier on all of them.
rseq_membarrier_expedited(c) == {w \in Worker : cpu[w] # Off /\ (mm_cid \/ cpu[w] = c)}

\* The kernel restarts the critical sections it finds.
Barrier ==
    /\ mpc = "barrier"
    /\ Retry({w \in rseq_membarrier_expedited(target[active]) : InCs(w)})
    /\ mpc' = "read"
    /\ UNCHANGED <<percpu_list_ptr, data, cpu, active, target, expect, rounds, hits>>

ReadExpected ==
    /\ mpc = "read"
    /\ expect' = [expect EXCEPT ![active] = data[active][target[active]]]
    /\ active' = Other(active)
    /\ mpc' = "test"
    /\ UNCHANGED <<percpu_list_ptr, data, cpu, workers, target, rounds, hits>>

Manage == Publish \/ Test \/ Switch \/ Barrier \/ ReadExpected

WorkerStep(w) == WaitForList(w) \/ ReadIndex(w) \/ Enter(w) \/ LoadList(w) \/ AddStore(w)

Finished ==
    /\ mpc \in {"end", "failed"} /\ Stopped
    /\ UNCHANGED vars

Next ==
    /\ Manage \/ Finished \/ \E w \in Worker : WorkerStep(w) \/ Preempt(w) \/ Schedule(w)
    /\ UNCHANGED mm_cid

Spec == Init /\ [][Next]_vars

-----------------------------------------------------------------------------
\* param_test.c:1591-1592: "Cpu A should now only modify list_b, so the values in
\* list_a should be stable."  From the moment the manager has read it until the
\* list is active again, no worker adds to the list on the CPU that was
\* restarted, whatever it had loaded before.
InactiveStable ==
    mpc \in {"test", "switch", "failed"} =>
        LET l == Other(active) IN expect[l] = data[l][target[l]]


=============================================================================
