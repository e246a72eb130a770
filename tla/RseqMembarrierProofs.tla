------------------------ MODULE RseqMembarrierProofs ------------------------
(***************************************************************************)
(* A list that is not active stays as it is on the CPU that was restarted, *)
(* for any number of workers and CPUs, with CPU numbers or concurrency ids *)
(* as the index.                                                           *)
(***************************************************************************)
EXTENDS RseqMembarrier, TLAPS

\* The types, without the counters that bound an instance.
Typed ==
    /\ mm_cid \in BOOLEAN
    /\ percpu_list_ptr \in List \cup {NULL}
    /\ data \in [List -> [Cpu -> Int]]
    /\ cpu \in [Worker -> Online \cup {Off}]
    /\ pc \in [Worker -> {"wait", "start", "enter", "load", "final", "done"}]
    /\ idx \in [Worker -> Cpu]
    /\ reg \in [Worker -> List \cup {NULL}]
    /\ mpc \in {"publish", "test", "switch", "barrier", "read", "failed", "end"}
    /\ active \in List
    /\ target \in [List -> Cpu]
    /\ expect \in [List -> Int]

\* A worker past the comparison of its index runs where it compared, and the
\* pointer is there.
SectionsRun ==
    \A w \in Worker : InCs(w) => /\ cpu[w] # Off /\ cpu[w] = idx[w]
                                 /\ percpu_list_ptr # NULL

\* No critical section is about to add to l on the CPU chosen for it.
NoneStale(l) ==
    \A w \in Worker : pc[w] = "final" => reg[w] # l \/ idx[w] # target[l]

\* The list the pointer leads to, and who may still hold the other one: after
\* the barrier nobody on the CPU that was restarted, and nobody else can get it
\* from the pointer.
Moved ==
    /\ mpc = "publish" => /\ percpu_list_ptr = NULL
                          /\ active = "a" /\ expect["b"] = data["b"][target["b"]]
                          /\ \A w \in Worker : pc[w] = "wait"
    /\ mpc \in {"test", "switch", "failed", "end"} =>
          percpu_list_ptr = active /\ NoneStale(Other(active))
    /\ mpc \in {"barrier", "read"} => percpu_list_ptr = Other(active)
    /\ mpc = "read" => NoneStale(active)

IInv == Typed /\ SectionsRun /\ Moved /\ InactiveStable

-----------------------------------------------------------------------------
\* Restarting a set of workers keeps the types of their state, and leaves a
\* worker in its critical section only if it is not of the set.
LEMMA Restarted ==
    ASSUME Typed, NEW S \in SUBSET Worker, Retry(S)
    PROVE  /\ pc' \in [Worker -> {"wait", "start", "enter", "load", "final", "done"}]
           /\ idx' \in [Worker -> Cpu]
           /\ reg' \in [Worker -> List \cup {NULL}]
           /\ \A w \in Worker : w \notin S => pc'[w] = pc[w] /\ idx'[w] = idx[w] /\ reg'[w] = reg[w]
           /\ \A w \in S : pc'[w] = "start"
BY MembarrierAssumption DEF Typed, Retry

\* The program starts in the invariant.
LEMMA InitInvariant == Init => IInv
BY MembarrierAssumption
   DEF Init, IInv, Typed, SectionsRun, InCs, Moved, InactiveStable, List, Other

\* A step of a worker or of the scheduler keeps the types.
LEMMA WorkersTyped ==
    ASSUME IInv, NEW w \in Worker, WorkerStep(w) \/ Preempt(w) \/ Schedule(w), UNCHANGED mm_cid
    PROVE  Typed'
<1>1. CASE WaitForList(w)
  BY <1>1 DEF IInv, Typed, WaitForList, Goto, manager
<1>2. CASE ReadIndex(w)
  <2>1. cpu[w] \in Cpu
    BY <1>2, MembarrierAssumption DEF IInv, Typed, ReadIndex, At
  <2> QED BY <1>2, <2>1 DEF IInv, Typed, ReadIndex, Goto, manager
<1>3. CASE Enter(w)
  BY <1>3 DEF IInv, Typed, Enter, Goto, manager
<1>4. CASE LoadList(w)
  BY <1>4 DEF IInv, Typed, LoadList, Goto, manager
<1>5. CASE AddStore(w)
  <2>1. reg[w] \in List \cup {NULL} /\ idx[w] \in Cpu
    BY DEF IInv, Typed
  <2>2. data' \in [List -> [Cpu -> Int]]
    <3>1. CASE reg[w] \in List
      <4>1. data[reg[w]] \in [Cpu -> Int] /\ data[reg[w]][idx[w]] + 1 \in Int
        BY <2>1, <3>1 DEF IInv, Typed
      <4>2. [data[reg[w]] EXCEPT ![idx[w]] = data[reg[w]][idx[w]] + 1] \in [Cpu -> Int]
        BY <4>1
      <4> QED BY <1>5, <3>1, <4>2 DEF IInv, Typed, AddStore
    <3>2. CASE reg[w] \notin List
      BY <1>5, <3>2 DEF IInv, Typed, AddStore
    <3> QED BY <3>1, <3>2
  <2> QED BY <1>5, <2>2, MembarrierAssumption DEF IInv, Typed, AddStore, Goto, manager
<1>6. CASE Preempt(w)
  <2>1. CASE InCs(w)
    BY <1>6, <2>1, Restarted DEF IInv, Typed, Preempt, manager
  <2>2. CASE ~InCs(w)
    BY <1>6, <2>2 DEF IInv, Typed, Preempt, manager, workers
  <2> QED BY <2>1, <2>2
<1>7. CASE Schedule(w)
  BY <1>7 DEF IInv, Typed, Schedule, manager, workers
<1> QED BY <1>1, <1>2, <1>3, <1>4, <1>5, <1>6, <1>7 DEF WorkerStep

\* A step of a worker or of the scheduler keeps the rest: what a worker loads
\* is the active list, and what it adds to is not the one that must not change.
LEMMA WorkersKeep ==
    ASSUME IInv, NEW w \in Worker, WorkerStep(w) \/ Preempt(w) \/ Schedule(w), UNCHANGED mm_cid
    PROVE  SectionsRun' /\ Moved' /\ InactiveStable'
<1>0. Typed /\ SectionsRun /\ Moved /\ InactiveStable
  BY DEF IInv
<1>1. CASE WaitForList(w)
  <2>1. SectionsRun'
    BY <1>0, <1>1 DEF Typed, WaitForList, At, Goto, SectionsRun, InCs
  <2>2. Moved'
    BY <1>0, <1>1 DEF Typed, WaitForList, At, Goto, manager, Moved, NoneStale
  <2>3. InactiveStable'
    BY <1>0, <1>1, Zenon DEF WaitForList, manager, InactiveStable
  <2> QED BY <2>1, <2>2, <2>3
<1>2. CASE ReadIndex(w)
  <2>1. SectionsRun'
    BY <1>0, <1>2 DEF Typed, ReadIndex, At, Goto, SectionsRun, InCs
  <2>2. Moved'
    BY <1>0, <1>2 DEF Typed, ReadIndex, At, Goto, manager, Moved, NoneStale
  <2>3. InactiveStable'
    BY <1>0, <1>2, Zenon DEF ReadIndex, manager, InactiveStable
  <2> QED BY <2>1, <2>2, <2>3
<1>3. CASE Enter(w)
  <2>1. mpc # "publish" => percpu_list_ptr # NULL
    BY <1>0 DEF Typed, Moved, List, Other, NULL
  <2>2. mpc # "publish"
    BY <1>0, <1>3 DEF Typed, Moved, Enter, At
  <2>3. SectionsRun'
    BY <1>0, <1>3, <2>1, <2>2 DEF Typed, Enter, At, Goto, SectionsRun, InCs
  <2>4. Moved'
    BY <1>0, <1>3, <2>2 DEF Typed, Enter, At, Goto, manager, Moved, NoneStale
  <2>5. InactiveStable'
    BY <1>0, <1>3, Zenon DEF Enter, manager, InactiveStable
  <2> QED BY <2>3, <2>4, <2>5
<1>4. CASE LoadList(w)
  <2>1. percpu_list_ptr = active => percpu_list_ptr # Other(active)
    BY <1>0 DEF Typed, List, Other
  <2>2. percpu_list_ptr = Other(active) => percpu_list_ptr # active
    BY <1>0 DEF Typed, List, Other
  <2>3. SectionsRun'
    BY <1>0, <1>4 DEF Typed, LoadList, At, Goto, SectionsRun, InCs
  <2>4. Moved'
    BY <1>0, <1>4, <2>1, <2>2 DEF Typed, LoadList, At, Goto, manager, Moved, NoneStale
  <2>5. InactiveStable'
    BY <1>0, <1>4, Zenon DEF LoadList, manager, InactiveStable
  <2> QED BY <2>3, <2>4, <2>5
<1>5. CASE AddStore(w)
  <2>1. SectionsRun'
    BY <1>0, <1>5 DEF Typed, AddStore, At, Goto, manager, SectionsRun, InCs
  <2>2. mpc # "publish"
    BY <1>0, <1>5 DEF Typed, Moved, AddStore, At
  <2>3. Moved'
    BY <1>0, <1>5, <2>2 DEF Typed, AddStore, At, Goto, manager, Moved, NoneStale
  <2>4. InactiveStable'
    <3> SUFFICES ASSUME mpc \in {"test", "switch", "failed"}
                 PROVE  expect[Other(active)] = data'[Other(active)][target[Other(active)]]
      BY <1>5 DEF AddStore, manager, InactiveStable
    <3>1. reg[w] # Other(active) \/ idx[w] # target[Other(active)]
      BY <1>0, <1>5 DEF Moved, NoneStale, AddStore, At
    <3>2. Other(active) \in List /\ target[Other(active)] \in Cpu
      BY <1>0 DEF Typed, Other, List
    <3>3. data'[Other(active)][target[Other(active)]] = data[Other(active)][target[Other(active)]]
      BY <1>0, <1>5, <3>1, <3>2 DEF Typed, AddStore
    <3> QED BY <1>0, <3>3 DEF InactiveStable
  <2> QED BY <2>1, <2>3, <2>4
<1>6. CASE Preempt(w)
  <2>0. /\ UNCHANGED <<percpu_list_ptr, data, mpc, active, target, expect>>
        /\ cpu' = [cpu EXCEPT ![w] = Off]
    BY <1>6, Zenon DEF Preempt, manager
  <2>1. /\ \A u \in Worker : u # w => pc'[u] = pc[u] /\ idx'[u] = idx[u] /\ reg'[u] = reg[u]
        /\ ~InCs(w)' /\ (pc[w] = "wait" => pc'[w] = "wait")
    <3>1. CASE InCs(w)
      <4>1. Retry({w}) /\ {w} \in SUBSET Worker
        BY <1>6, <3>1, Zenon DEF Preempt
      <4>2. pc'[w] = "start" /\ \A u \in Worker : u # w => pc'[u] = pc[u] /\ idx'[u] = idx[u] /\ reg'[u] = reg[u]
        BY <1>0, <4>1, Restarted
      <4> QED BY <3>1, <4>2 DEF InCs
    <3>2. CASE ~InCs(w)
      <4>1. pc' = pc /\ idx' = idx /\ reg' = reg
        BY <1>6, <3>2, Zenon DEF Preempt, workers
      <4> QED BY <3>2, <4>1 DEF InCs
    <3> QED BY <3>1, <3>2
  <2>2. SectionsRun'
    BY <1>0, <2>0, <2>1 DEF Typed, SectionsRun, InCs
  <2>3. \A l : NoneStale(l) => NoneStale(l)'
    BY <2>0, <2>1 DEF NoneStale, InCs
  <2>4. Moved'
    BY <1>0, <2>0, <2>1, <2>3 DEF Moved, Other
  <2>5. InactiveStable'
    BY <1>0, <2>0, Zenon DEF InactiveStable
  <2> QED BY <2>2, <2>4, <2>5
<1>7. CASE Schedule(w)
  <2>0. /\ UNCHANGED <<percpu_list_ptr, data, mpc, active, target, expect, pc, idx, reg>>
        /\ cpu[w] = Off /\ \E c : cpu' = [cpu EXCEPT ![w] = c]
    BY <1>7, Zenon DEF Schedule, manager, workers
  <2>1. SectionsRun'
    BY <1>0, <2>0 DEF Typed, SectionsRun, InCs
  <2>2. Moved'
    BY <1>0, <2>0, Zenon DEF Moved, NoneStale
  <2>3. InactiveStable'
    BY <1>0, <2>0, Zenon DEF InactiveStable
  <2> QED BY <2>1, <2>2, <2>3
<1> QED BY <1>1, <1>2, <1>3, <1>4, <1>5, <1>6, <1>7 DEF WorkerStep

\* A step of the manager keeps the invariant.
LEMMA ManagerKeeps ==
    ASSUME IInv, Manage, UNCHANGED mm_cid
    PROVE  IInv'
<1>0. Typed /\ SectionsRun /\ Moved /\ InactiveStable
  BY DEF IInv
<1>a. active \in List /\ Other(active) \in List /\ Other(Other(active)) = active /\ Other(active) # active
  BY <1>0 DEF Typed, Other, List
<1>1. CASE Publish
  <2>1. Typed'
    BY <1>0, <1>1 DEF Typed, Publish, workers, List
  <2>2. SectionsRun' /\ InactiveStable'
    BY <1>0, <1>1 DEF Publish, workers, SectionsRun, InCs, Moved, InactiveStable, Other
  <2>3. Moved'
    BY <1>0, <1>1 DEF Publish, workers, Moved, NoneStale
  <2> QED BY <2>1, <2>2, <2>3 DEF IInv
<1>2. CASE Test
  <2>1. mpc' \in {"switch", "end"} /\ UNCHANGED <<percpu_list_ptr, data, cpu, workers, active, target, expect>>
    BY <1>0, <1>2 DEF Test, CheckInactive, InactiveStable, Other
  <2>2. mpc = "test"
    BY <1>2 DEF Test
  <2>3. Typed' /\ SectionsRun'
    BY <1>0, <2>1 DEF Typed, SectionsRun, InCs, workers
  <2>4. Moved' /\ InactiveStable'
    BY <1>0, <2>1, <2>2 DEF Moved, NoneStale, InactiveStable, workers
  <2> QED BY <2>3, <2>4 DEF IInv
<1>3. CASE Switch
  <2>1. Typed' /\ SectionsRun'
    BY <1>0, <1>a, <1>3 DEF Typed, Switch, workers, SectionsRun, InCs, List, NULL
  <2>2. Moved' /\ InactiveStable'
    BY <1>3 DEF Switch, Moved, InactiveStable
  <2> QED BY <2>1, <2>2 DEF IInv
<1>4. CASE Barrier
  <2> DEFINE S == {w \in rseq_membarrier_expedited(target[active]) : InCs(w)}
  <2>1. S \in SUBSET Worker /\ Retry(S)
    BY <1>4 DEF Barrier, rseq_membarrier_expedited
  <2>2. /\ \A w \in Worker : w \notin S => pc'[w] = pc[w] /\ idx'[w] = idx[w] /\ reg'[w] = reg[w]
        /\ \A w \in S : pc'[w] = "start"
    BY <1>0, <2>1, Restarted
  <2>3. mpc = "barrier" /\ mpc' = "read" /\ UNCHANGED <<percpu_list_ptr, data, cpu, active, target, expect>>
    BY <1>4 DEF Barrier
  <2>4. Typed'
    BY <1>0, <2>1, <2>3, Restarted DEF Typed
  <2>5. SectionsRun'
    BY <1>0, <2>2, <2>3 DEF SectionsRun, InCs
  <2>6. NoneStale(active)'
    <3> SUFFICES ASSUME NEW w \in Worker, pc'[w] = "final"
                 PROVE  idx'[w] # target[active]
      BY <2>3 DEF NoneStale
    <3>1. w \notin S /\ InCs(w) /\ idx'[w] = idx[w]
      BY <2>2 DEF InCs
    <3> QED BY <1>0, <3>1 DEF SectionsRun, rseq_membarrier_expedited
  <2>7. Moved' /\ InactiveStable'
    BY <1>0, <2>3, <2>6 DEF Moved, InactiveStable
  <2> QED BY <2>4, <2>5, <2>7 DEF IInv
<1>5. CASE ReadExpected
  <2>1. target[active] \in Cpu /\ data[active][target[active]] \in Int
    BY <1>0, <1>a DEF Typed
  <2>2. Typed' /\ SectionsRun'
    BY <1>0, <1>a, <1>5, <2>1 DEF Typed, ReadExpected, workers, SectionsRun, InCs
  <2>3. Moved'
    BY <1>0, <1>a, <1>5 DEF ReadExpected, workers, Moved, NoneStale
  <2>4. InactiveStable'
    BY <1>0, <1>a, <1>5 DEF Typed, ReadExpected, InactiveStable
  <2> QED BY <2>2, <2>3, <2>4 DEF IInv
<1> QED BY <1>1, <1>2, <1>3, <1>4, <1>5 DEF Manage

\* Every step keeps the invariant.
LEMMA NextInvariant == IInv /\ [Next]_vars => IInv'
<1> SUFFICES ASSUME IInv, [Next]_vars
             PROVE  IInv'
  OBVIOUS
<1>1. CASE Manage /\ UNCHANGED mm_cid
  BY <1>1, ManagerKeeps
<1>2. ASSUME NEW w \in Worker, WorkerStep(w) \/ Preempt(w) \/ Schedule(w), UNCHANGED mm_cid
      PROVE  IInv'
  BY <1>2, WorkersTyped, WorkersKeep DEF IInv
<1>3. CASE UNCHANGED vars
  <2>1. /\ UNCHANGED <<mm_cid, percpu_list_ptr, data, cpu, pc, idx, reg>>
        /\ UNCHANGED <<mpc, active, target, expect>>
    BY <1>3, Zenon DEF vars, workers, manager
  <2>2. Typed' /\ SectionsRun'
    BY <2>1, Zenon DEF IInv, Typed, SectionsRun, InCs
  <2>3. Moved' /\ InactiveStable'
    BY <2>1, Zenon DEF IInv, Moved, NoneStale, InactiveStable
  <2> QED BY <2>2, <2>3, Zenon DEF IInv
<1> QED BY <1>1, <1>2, <1>3 DEF Next, Finished

\* param_test.c:1591-1592, "the values in list_a should be stable": once the
\* pointer has moved and the CPU was restarted, no worker changes the list on
\* that CPU, for any number of workers and CPUs.
THEOREM Stable == Spec => []InactiveStable
<1>1. IInv => InactiveStable
  BY DEF IInv
<1> QED BY <1>1, InitInvariant, NextInvariant, PTL DEF Spec

=============================================================================
