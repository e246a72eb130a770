-------------------------- MODULE RseqClientProofs --------------------------
(***************************************************************************)
(* The callers of the helpers, for any number of threads, CPUs and items.  *)
(* The per-CPU lock excludes, although it is taken without an atomic       *)
(* instruction and released by a plain store from any CPU.  And at each    *)
(* final store what the helper loaded, compared and copied is as it was,   *)
(* although other threads unlock and link nodes from other CPUs.           *)
(***************************************************************************)
EXTENDS RseqClient, TLAPS

Location == {"start", "enter", "load", "final", "count", "add", "check", "unlock", "done"}

\* The types of what the lock uses.
Typed ==
    /\ v \in [Cpu -> {0, 1}]
    /\ cpu \in [Thread -> Cpu \cup {Off}]
    /\ pc \in [Thread -> Location]
    /\ idx \in [Thread -> Nat]
    /\ \A t \in Thread : pc[t] \notin {"start", "done"} => idx[t] \in Cpu

\* A CPU runs one thread.
CpusDistinct ==
    \A t, u \in Thread : cpu[t] # Off /\ cpu[t] = cpu[u] => t = u

\* Past the comparison of its index a thread runs on the CPU of the lock, and
\* past the comparison of the lock the lock is still free.
Compared ==
    \A t \in Thread :
        /\ pc[t] \in {"load", "final"} => cpu[t] = idx[t]
        /\ pc[t] = "final" => v[idx[t]] = 0

\* LockHeldByOne of the test that has the lock.
OneHolder ==
    \A c \in Cpu :
        /\ v[c] = 1 <=> \E t \in Thread : Holds(t, c)
        /\ \A t, u \in Thread : Holds(t, c) /\ Holds(u, c) => t = u

LockInv == Typed /\ CpusDistinct /\ Compared /\ OneHolder

IInv == test = "spinlock" => LockInv

-----------------------------------------------------------------------------
\* The program starts in the invariant.
LEMMA InitInvariant == Init => IInv
<1> SUFFICES ASSUME Init, test = "spinlock"
             PROVE  LockInv
  BY Zenon DEF IInv
<1>1. v = [c \in Cpu |-> 0]
  BY Zenon DEF Init, Counting
<1>2. Typed
  BY Zenon, <1>1 DEF Init, Typed, Location
<1>3. CpusDistinct
  BY Zenon DEF Init, CpusDistinct
<1>4. Compared /\ OneHolder
  BY <1>1 DEF Init, Compared, OneHolder, Holds
<1> QED BY Zenon, <1>2, <1>3, <1>4 DEF LockInv

\* No step changes the test that runs.
LEMMA TestFixed == ASSUME [Next]_vars PROVE test' = test
<1>1. ASSUME NEW t \in Thread, Step(t) PROVE test' = test
  <2>1. CASE ReadIndex(t) \/ Enter(t)
    BY <2>1, Zenon DEF ReadIndex, Enter, Goto
  <2>2. CASE rseq_this_cpu_lock(t) \/ test_percpu_spinlock_thread(t) \/ rseq_percpu_unlock(t)
    BY <2>2, Zenon DEF rseq_this_cpu_lock, test_percpu_spinlock_thread, rseq_percpu_unlock, Goto, Again
  <2>3. CASE test_percpu_inc_thread(t) \/ this_cpu_list_push(t)
    BY <2>3, Zenon DEF test_percpu_inc_thread, this_cpu_list_push, Goto, Again
  <2>4. CASE this_cpu_list_pop(t)
    BY Zenon, <2>4 DEF this_cpu_list_pop, Goto, Again
  <2>5. PopOffset(t) \/ PopFinal(t) \/ PushOffset(t) \/ PushFinal(t) => test' = test
    BY Zenon DEF PopOffset, PopFinal, PushOffset, PushFinal, Goto, Again
  <2>6. CASE this_cpu_buffer_pop(t) \/ this_cpu_buffer_push(t)
    BY <2>5, <2>6, Zenon DEF this_cpu_buffer_pop, this_cpu_buffer_push, Goto
  <2>7. CASE this_cpu_memcpy_buffer_pop(t) \/ this_cpu_memcpy_buffer_push(t)
    BY <2>5, <2>7, Zenon DEF this_cpu_memcpy_buffer_pop, this_cpu_memcpy_buffer_push, Goto
  <2> QED BY Zenon, <1>1, <2>1, <2>2, <2>3, <2>4, <2>6, <2>7 DEF Step
<1>2. ASSUME NEW t \in Thread, Preempt(t) \/ Schedule(t) PROVE test' = test
  BY Zenon, <1>2 DEF Preempt, Schedule
<1>3. CASE UNCHANGED vars
  BY Zenon, <1>3 DEF vars
<1> QED BY Zenon, <1>1, <1>2, <1>3 DEF Next, Finished

-----------------------------------------------------------------------------
\* The thread reads its index and compares it.
LEMMA IndexKeeps ==
    ASSUME LockInv, test = "spinlock", NEW t \in Thread, ReadIndex(t) \/ Enter(t)
    PROVE  LockInv'
<1>0. Typed /\ CpusDistinct /\ Compared /\ OneHolder
  BY Zenon DEF LockInv
<1>1. CASE ReadIndex(t)
  <2>1. /\ cpu[t] # Off /\ pc[t] = "start" /\ cpu[t] \in Cpu
        /\ idx' = [idx EXCEPT ![t] = cpu[t]] /\ pc' = [pc EXCEPT ![t] = "enter"]
        /\ UNCHANGED <<v, cpu>>
    BY Zenon, <1>0, <1>1 DEF ReadIndex, At, Goto, Set, shared, Typed, Location
  <2>2. Typed'
    BY Zenon, <1>0, <2>1, ClientAssumption DEF Typed, Location
  <2>3. CpusDistinct' /\ Compared'
    BY Zenon, <1>0, <2>1 DEF Typed, CpusDistinct, Compared
  <2>4. OneHolder'
    BY <1>0, <2>1 DEF Typed, OneHolder, Holds
  <2> QED BY Zenon, <2>2, <2>3, <2>4 DEF LockInv
<1>2. CASE Enter(t)
  <2>1. /\ cpu[t] # Off /\ pc[t] = "enter"
        /\ pc' = [pc EXCEPT ![t] = IF cpu[t] = idx[t] THEN "load" ELSE "start"]
        /\ UNCHANGED <<v, cpu, idx>>
    BY Zenon, <1>0, <1>2 DEF Enter, At, Goto, locals, shared, Typed, Location
  <2>2. Typed'
    BY Zenon, <1>0, <2>1 DEF Typed, Location
  <2>3. CpusDistinct' /\ Compared'
    BY Zenon, <1>0, <2>1 DEF Typed, CpusDistinct, Compared
  <2>4. OneHolder'
    BY <1>0, <2>1 DEF Typed, OneHolder, Holds
  <2> QED BY Zenon, <2>2, <2>3, <2>4 DEF LockInv
<1> QED BY Zenon, <1>1, <1>2

\* The thread compares the lock and takes it.  Whoever else has compared the
\* same lock would run on the same CPU.
LEMMA LockKeeps ==
    ASSUME LockInv, test = "spinlock", NEW t \in Thread, rseq_this_cpu_lock(t)
    PROVE  LockInv'
<1>0. Typed /\ CpusDistinct /\ Compared /\ OneHolder
  BY Zenon DEF LockInv
<1>1. CASE At(t, "load")
  <2>1. /\ pc[t] = "load"
        /\ pc' = [pc EXCEPT ![t] = IF v[idx[t]] = 0 THEN "final" ELSE "start"]
        /\ UNCHANGED <<v, cpu, idx>>
    BY Zenon, <1>1 DEF rseq_this_cpu_lock, At, Goto, locals, shared
  <2>2. Typed'
    BY Zenon, <1>0, <2>1 DEF Typed, Location
  <2>3. CpusDistinct' /\ Compared'
    BY Zenon, <1>0, <2>1 DEF Typed, CpusDistinct, Compared
  <2>4. OneHolder'
    BY <1>0, <2>1 DEF Typed, OneHolder, Holds
  <2> QED BY Zenon, <2>2, <2>3, <2>4 DEF LockInv
<1>2. CASE At(t, "final")
  <2>1. /\ cpu[t] # Off /\ pc[t] = "final"
        /\ v' = [v EXCEPT ![idx[t]] = 1]
        /\ pc' = [pc EXCEPT ![t] = "count"]
        /\ UNCHANGED <<cpu, idx>>
    BY Zenon, <1>2 DEF rseq_this_cpu_lock, At, Goto, Set, locals
  <2>a. idx[t] \in Cpu /\ cpu[t] = idx[t] /\ v[idx[t]] = 0
    BY Zenon, <1>0, <2>1 DEF Typed, Compared
  <2>2. Typed'
    BY Zenon, <1>0, <2>1 DEF Typed, Location
  <2>3. CpusDistinct'
    BY Zenon, <1>0, <2>1 DEF CpusDistinct
  <2>4. Compared'
    <3> SUFFICES ASSUME NEW u \in Thread, pc'[u] \in {"load", "final"}
                 PROVE  cpu[u] = idx[u] /\ (pc'[u] = "final" => v'[idx[u]] = 0)
      BY Zenon, <2>1 DEF Compared
    <3>1. u # t /\ pc'[u] = pc[u] /\ idx[u] \in Cpu
      BY Zenon, <1>0, <2>1 DEF Typed
    <3>2. cpu[u] = idx[u] /\ (pc[u] = "final" => v[idx[u]] = 0)
      BY Zenon, <1>0, <3>1 DEF Compared
    <3>3. idx[u] # idx[t]
      BY Zenon, <1>0, <2>1, <2>a, <3>1, <3>2 DEF CpusDistinct
    <3> QED BY Zenon, <1>0, <2>1, <2>a, <3>1, <3>2, <3>3 DEF Typed
  <2>5. OneHolder'
    <3>1. \A u \in Thread : ~Holds(u, idx[t])
      BY <1>0, <2>a DEF OneHolder
    <3>2. \A u \in Thread, c \in Cpu : Holds(u, c)' <=> (Holds(u, c) \/ (u = t /\ c = idx[t]))
      BY Zenon, <1>0, <2>1, <3>1 DEF Typed, Holds
    <3>3. \A c \in Cpu : v'[c] = IF c = idx[t] THEN 1 ELSE v[c]
      BY Zenon, <1>0, <2>1, <2>a DEF Typed
    <3> HIDE DEF Holds
    <3> SUFFICES ASSUME NEW c \in Cpu
                 PROVE  /\ v'[c] = 1 <=> \E u \in Thread : Holds(u, c)'
                        /\ \A u, w \in Thread : Holds(u, c)' /\ Holds(w, c)' => u = w
      BY Zenon DEF OneHolder
    <3>4. CASE c = idx[t]
      BY Zenon, <3>1, <3>2, <3>3, <3>4
    <3>5. CASE c # idx[t]
      BY <1>0, <3>2, <3>3, <3>5 DEF OneHolder
    <3> QED BY Zenon, <3>4, <3>5
  <2> QED BY Zenon, <2>2, <2>3, <2>4, <2>5 DEF LockInv
<1> QED BY Zenon, <1>1, <1>2 DEF rseq_this_cpu_lock

\* The holder counts, wherever it runs.
LEMMA CountKeeps ==
    ASSUME LockInv, test = "spinlock", NEW t \in Thread, test_percpu_spinlock_thread(t)
    PROVE  LockInv'
<1>0. Typed /\ CpusDistinct /\ Compared /\ OneHolder
  BY Zenon DEF LockInv
<1>1. /\ pc[t] \in {"count", "add"}
      /\ \E l \in {"add", "check"} : pc' = [pc EXCEPT ![t] = l]
      /\ UNCHANGED <<v, cpu, idx>>
  BY Zenon DEF test_percpu_spinlock_thread, At, Goto, Set, locals, shared
<1>2. Typed'
  BY Zenon, <1>0, <1>1 DEF Typed, Location
<1>3. CpusDistinct' /\ Compared'
  BY Zenon, <1>0, <1>1 DEF Typed, CpusDistinct, Compared
<1>4. OneHolder'
  <2>1. \A u \in Thread, c \in Cpu : Holds(u, c)' <=> Holds(u, c)
    BY Zenon, <1>0, <1>1 DEF Typed, Holds
  <2> QED BY Zenon, <1>0, <1>1, <2>1 DEF OneHolder
<1> QED BY Zenon, <1>2, <1>3, <1>4 DEF LockInv

\* The assertion holds, and the store releases the lock for everybody else.
LEMMA UnlockKeeps ==
    ASSUME LockInv, test = "spinlock", NEW t \in Thread, rseq_percpu_unlock(t)
    PROVE  LockInv'
<1>0. Typed /\ CpusDistinct /\ Compared /\ OneHolder
  BY Zenon DEF LockInv
<1>1. CASE At(t, "check")
  <2>1. v[idx[t]] = 1
    BY Zenon, <1>0, <1>1 DEF At, Typed, OneHolder, Holds
  <2>2. pc[t] = "check" /\ pc' = [pc EXCEPT ![t] = "unlock"] /\ UNCHANGED <<v, cpu, idx>>
    BY Zenon, <1>1, <2>1 DEF rseq_percpu_unlock, At, Goto, locals, shared
  <2>3. Typed'
    BY Zenon, <1>0, <2>2 DEF Typed, Location
  <2>4. CpusDistinct' /\ Compared'
    BY Zenon, <1>0, <2>2 DEF Typed, CpusDistinct, Compared
  <2>5. \A u \in Thread, c \in Cpu : Holds(u, c)' <=> Holds(u, c)
    BY Zenon, <1>0, <2>2 DEF Typed, Holds
  <2>6. OneHolder'
    BY Zenon, <1>0, <2>2, <2>5 DEF OneHolder
  <2> QED BY Zenon, <2>3, <2>4, <2>6 DEF LockInv
<1>2. CASE At(t, "unlock")
  <2>1. /\ pc[t] = "unlock" /\ v' = [v EXCEPT ![idx[t]] = 0]
        /\ \E l \in {"done", "start"} : pc' = [pc EXCEPT ![t] = l]
        /\ UNCHANGED <<cpu, idx>>
    BY Zenon, <1>2 DEF rseq_percpu_unlock, At, Again, Set, locals
  <2>2. idx[t] \in Cpu /\ Holds(t, idx[t])
    BY Zenon, <1>0, <2>1 DEF Typed, Holds
  <2>3. Typed'
    BY Zenon, <1>0, <2>1 DEF Typed, Location
  <2>4. CpusDistinct' /\ Compared'
    BY Zenon, <1>0, <2>1, <2>2 DEF Typed, CpusDistinct, Compared
  <2>5. OneHolder'
    <3>1. \A u \in Thread, c \in Cpu : Holds(u, c)' <=> (Holds(u, c) /\ u # t)
      BY Zenon, <1>0, <2>1 DEF Typed, Holds
    <3>2. \A u \in Thread, c \in Cpu : Holds(u, c) /\ u = t => c = idx[t]
      BY Zenon DEF Holds
    <3>3. \A c \in Cpu : v'[c] = IF c = idx[t] THEN 0 ELSE v[c]
      BY Zenon, <1>0, <2>1, <2>2 DEF Typed
    <3> SUFFICES ASSUME NEW c \in Cpu
                 PROVE  /\ v'[c] = 1 <=> \E u \in Thread : Holds(u, c)'
                        /\ \A u, w \in Thread : Holds(u, c)' /\ Holds(w, c)' => u = w
      BY Zenon DEF OneHolder
    <3>4. CASE c = idx[t]
      BY <1>0, <2>2, <3>1, <3>3, <3>4 DEF OneHolder
    <3>5. CASE c # idx[t]
      BY Zenon, <1>0, <3>1, <3>2, <3>3, <3>5 DEF OneHolder
    <3> QED BY Zenon, <3>4, <3>5
  <2> QED BY Zenon, <2>3, <2>4, <2>5 DEF LockInv
<1> QED BY Zenon, <1>1, <1>2 DEF rseq_percpu_unlock

\* The scheduler takes a CPU away, which restarts a critical section, or gives
\* a free one.
LEMMA SchedulerKeeps ==
    ASSUME LockInv, NEW t \in Thread, Preempt(t) \/ Schedule(t)
    PROVE  LockInv'
<1>0. Typed /\ CpusDistinct /\ Compared /\ OneHolder
  BY Zenon DEF LockInv
<1>1. CASE Preempt(t)
  <2>1. /\ cpu' = [cpu EXCEPT ![t] = Off] /\ UNCHANGED <<v, idx>>
        /\ \E l \in Resumes(pc[t]) : pc' = [pc EXCEPT ![t] = l]
    BY Zenon, <1>1 DEF Preempt, Set, shared, locals
  <2>2. PICK l \in Resumes(pc[t]) : pc' = [pc EXCEPT ![t] = l]
    BY Zenon, <2>1
  <2>3. \/ l = pc[t] /\ l \notin {"load", "final"}
        \/ l = "start" /\ pc[t] \in {"load", "final", "enter"}
    <3>1. pc[t] \in Location
      BY Zenon, <1>0 DEF Typed
    <3>2. CASE pc[t] \in {"load", "final"}
      BY Zenon, <2>2, <3>2 DEF Resumes, PopCs
    <3>3. CASE pc[t] \notin {"load", "final"}
      <4>1. pc[t] \notin PopCs /\ pc[t] \notin PushCs /\ pc[t] # "penter"
        BY Zenon, <3>1, <3>3 DEF Location, PopCs, PushCs
      <4>2. l = pc[t] \/ (l = "start" /\ pc[t] = "enter")
        BY Zenon, <2>2, <4>1 DEF Resumes
      <4> QED BY Zenon, <3>3, <4>2
    <3> QED BY Zenon, <3>2, <3>3
  <2>4. Typed'
    BY Zenon, <1>0, <2>1, <2>2, <2>3 DEF Typed, Location
  <2>5. CpusDistinct' /\ Compared'
    BY Zenon, <1>0, <2>1, <2>2, <2>3 DEF Typed, CpusDistinct, Compared
  <2>6. \A u \in Thread, c \in Cpu : Holds(u, c)' <=> Holds(u, c)
    BY Zenon, <1>0, <2>1, <2>2, <2>3 DEF Typed, Holds
  <2>7. OneHolder'
    BY Zenon, <1>0, <2>1, <2>6 DEF OneHolder
  <2> QED BY Zenon, <2>4, <2>5, <2>7 DEF LockInv
<1>2. CASE Schedule(t)
  <2>1. /\ cpu[t] = Off /\ UNCHANGED <<v, pc, idx>>
        /\ \E c \in Cpu \ {cpu[u] : u \in Thread} : cpu' = [cpu EXCEPT ![t] = c]
    BY Zenon, <1>2 DEF Schedule, Set, shared, locals
  <2>2. Typed' /\ CpusDistinct'
    BY <1>0, <2>1 DEF Typed, CpusDistinct
  <2>3. pc[t] \notin {"load", "final"}
    BY <1>0, <2>1, ClientAssumption DEF Typed, Compared, Off
  <2>4. Compared' /\ OneHolder'
    BY <1>0, <2>1, <2>3 DEF Typed, Compared, OneHolder, Holds
  <2> QED BY Zenon, <2>2, <2>4 DEF LockInv
<1> QED BY Zenon, <1>1, <1>2

\* Every step keeps the invariant: with the lock's test, only the lock's
\* actions are steps.
LEMMA NextInvariant == IInv /\ [Next]_vars => IInv'
<1> SUFFICES ASSUME LockInv, test = "spinlock", [Next]_vars
             PROVE  LockInv'
  BY Zenon, TestFixed DEF IInv
<1>1. ASSUME NEW t \in Thread, Step(t) PROVE LockInv'
  <2>1. ReadIndex(t) \/ Enter(t) \/ rseq_this_cpu_lock(t)
        \/ test_percpu_spinlock_thread(t) \/ rseq_percpu_unlock(t)
    BY Zenon, <1>1 DEF Step, test_percpu_inc_thread, this_cpu_list_pop, this_cpu_list_push,
       this_cpu_buffer_pop, this_cpu_buffer_push, this_cpu_memcpy_buffer_pop,
       this_cpu_memcpy_buffer_push
  <2> QED BY Zenon, <2>1, IndexKeeps, LockKeeps, CountKeeps, UnlockKeeps
<1>2. ASSUME NEW t \in Thread, Preempt(t) \/ Schedule(t) PROVE LockInv'
  BY Zenon, <1>2, SchedulerKeeps
<1>3. CASE UNCHANGED vars
  BY <1>3 DEF vars, shared, locals, LockInv, Typed, CpusDistinct, Compared, OneHolder, Holds
<1> QED BY Zenon, <1>1, <1>2, <1>3 DEF Next, Finished

\* param_test.c:417, "Grabs lock on current cpu": the lock of a CPU is held by one
\* thread at a time and is free when none holds it, for any number of threads
\* and CPUs and whatever migrates in between.
THEOREM LockExcludes == Spec => []LockHeldByOne
<1>1. IInv => LockHeldByOne
  BY Zenon DEF IInv, LockInv, OneHolder, LockHeldByOne
<1> QED BY <1>1, InitInvariant, NextInvariant, PTL DEF Spec

-----------------------------------------------------------------------------
(* What the helpers loaded and compared, at their final stores.            *)

Cs == PopCs \cup PushCs
Pair == [{1, 2} -> Int]

\* The domains of the state, and the test that runs.
Shaped ==
    /\ test \in Tests
    /\ cpu \in [Thread -> Cpu \cup {Off}]
    /\ DOMAIN pc = Thread /\ DOMAIN idx = Thread /\ DOMAIN exp = Thread
    /\ DOMAIN val = Thread /\ DOMAIN item = Thread
    /\ DOMAIN v = Cpu /\ DOMAIN next = Node /\ DOMAIN array = Cpu

\* A thread in a critical section runs on the CPU whose data it uses.
Located(t) ==
    /\ pc[t] # "start" => idx[t] \in Cpu
    /\ pc[t] \in Cs => cpu[t] = idx[t]

\* What a thread knows of the counter or the lock, of the list, and of the
\* buffer of its CPU, at each location.
OwnCount(t) ==
    /\ pc[t] \notin Pushing
    /\ pc[t] = "final" => v[idx[t]] = IF test = "inc" THEN val[t] ELSE 0
OwnList(t) ==
    /\ pc[t] \in {"load2", "final"} => v[idx[t]] = val[t] /\ val[t] # NULL
    /\ pc[t] = "final" => next[val[t]] = exp[t]
    /\ pc[t] \in {"penter", "pload", "pfinal"} => next[item[t][1]] = exp[t]
    /\ pc[t] = "pfinal" => v[idx[t]] = exp[t]
OwnBuffer(t) ==
    /\ pc[t] \in {"head", "enter"} \cup PopCs => exp[t] \in 1 .. BufLen
    /\ pc[t] \in {"penter"} \cup PushCs => exp[t] \in 0 .. BufLen - 1
    /\ pc[t] \in Cs \ {"load", "pload"} => v[idx[t]] = exp[t]
    /\ pc[t] = "copy2" => item[t][1] = array[idx[t]][exp[t]][1]
    /\ pc[t] = "final" => item[t] = array[idx[t]][exp[t]]
    /\ pc[t] = "pcopy2" => item[t][1] = array[idx[t]][exp[t] + 1][1]
    /\ pc[t] = "pfinal" => item[t] = array[idx[t]][exp[t] + 1]

\* Every node is at home in one list, where at most one pointer leads to it, or
\* with one thread, which alone may then link it.
Homes(home) ==
    /\ \A c \in Cpu : v[c] # NULL => v[c] \in Node /\ home[v[c]] = c
    /\ \A n \in Node : home[n] # Off /\ next[n] # NULL =>
          next[n] \in Node /\ home[next[n]] = home[n] /\ next[n] # v[home[n]]
    /\ \A m, n \in Node :
          home[m] # Off /\ home[m] = home[n] /\ next[m] = next[n] /\ next[m] # NULL => m = n
    /\ \A t \in Thread : pc[t] \in Pushing => item[t][1] \in Node /\ home[item[t][1]] = Off
    /\ \A t, u \in Thread :
          pc[t] \in Pushing /\ pc[u] \in Pushing /\ item[t][1] = item[u][1] => t = u
Separate == \E home \in [Node -> Cpu \cup {Off}] : Homes(home)

\* An offset never leaves the buffer.
InBuffer ==
    /\ v \in [Cpu -> 0 .. BufLen] /\ array \in [Cpu -> [1 .. BufLen -> Pair]]
    /\ item \in [Thread -> Pair]

Buffers == test \in {"buffer", "memcpy"}
FinalInv ==
    /\ Shaped /\ CpusDistinct
    /\ \A t \in Thread : Located(t)
    /\ Counting => \A t \in Thread : OwnCount(t)
    /\ test = "list" => Separate /\ \A t \in Thread : OwnList(t)
    /\ Buffers => InBuffer /\ \A t \in Thread : OwnBuffer(t)

\* What a step of a thread's loop changes: its own locations and registers, the
\* word of the CPU whose data it uses, that CPU's buffer, and the node it holds.
OnlyOwn(t) ==
    \A u \in Thread : u # t => /\ pc'[u] = pc[u] /\ idx'[u] = idx[u] /\ exp'[u] = exp[u]
                               /\ val'[u] = val[u] /\ item'[u] = item[u]
OwnWord(t) ==
    \/ v' = v
    \/ pc[t] \in {"final", "pfinal"} /\ \E x : v' = [v EXCEPT ![idx[t]] = x]
    \/ test = "spinlock" /\ v' = [v EXCEPT ![idx[t]] = 0]
OwnArray(t) ==
    \/ array' = array
    \/ pc[t] \in {"spec", "pcopy1", "pcopy2"} /\ \E x : array' = [array EXCEPT ![idx[t]] = x]
OwnNode(t) ==
    \/ next' = next
    \/ test = "list" /\ pc[t] = "link" /\ next' = [next EXCEPT ![item[t][1]] = exp[t]]
Moves(t) ==
    \/ pc[t] \in {"start", "push"} /\ idx'[t] = cpu[t] /\ pc'[t] \notin Cs
    \/ /\ pc[t] # "start" /\ idx'[t] = idx[t]
       /\ pc'[t] \in Cs => pc[t] \in Cs \/ cpu[t] = idx[t]
Effects(t) ==
    /\ cpu[t] # Off /\ cpu' = cpu /\ test' = test /\ Shaped'
    /\ OnlyOwn(t) /\ OwnWord(t) /\ OwnArray(t) /\ OwnNode(t) /\ Moves(t)

\* A step that sets the program counter and leaves the memory as it is.
LEMMA EffectsOf ==
    ASSUME Shaped, NEW t \in Thread, cpu[t] # Off, UNCHANGED <<cpu, test>>,
           NEW l, pc' = [pc EXCEPT ![t] = l],
           idx' = idx \/ \E x : idx' = [idx EXCEPT ![t] = x],
           exp' = exp \/ \E x : exp' = [exp EXCEPT ![t] = x],
           val' = val \/ \E x : val' = [val EXCEPT ![t] = x],
           item' = item \/ \E x : item' = [item EXCEPT ![t] = x],
           OwnWord(t), OwnArray(t), OwnNode(t),
           \/ pc[t] \in {"start", "push"} /\ idx' = [idx EXCEPT ![t] = cpu[t]] /\ l \notin Cs
           \/ pc[t] # "start" /\ idx' = idx /\ (l \in Cs => pc[t] \in Cs \/ cpu[t] = idx[t])
    PROVE  Effects(t) /\ pc'[t] = l
<1>1. pc'[t] = l /\ DOMAIN pc' = Thread /\ \A u \in Thread : u # t => pc'[u] = pc[u]
  BY Zenon DEF Shaped
<1>2. DOMAIN idx' = Thread /\ \A u \in Thread : u # t => idx'[u] = idx[u]
  BY Zenon DEF Shaped
<1>3. DOMAIN exp' = Thread /\ \A u \in Thread : u # t => exp'[u] = exp[u]
  BY Zenon DEF Shaped
<1>4. DOMAIN val' = Thread /\ \A u \in Thread : u # t => val'[u] = val[u]
  BY Zenon DEF Shaped
<1>5. DOMAIN item' = Thread /\ \A u \in Thread : u # t => item'[u] = item[u]
  BY Zenon DEF Shaped
<1>6. OnlyOwn(t)
  BY <1>1, <1>2, <1>3, <1>4, <1>5, Zenon DEF OnlyOwn
<1>7. DOMAIN v' = Cpu /\ DOMAIN next' = Node /\ DOMAIN array' = Cpu
  BY Zenon DEF Shaped, OwnWord, OwnArray, OwnNode
<1>8. Shaped'
  BY <1>1, <1>2, <1>3, <1>4, <1>5, <1>7, Zenon DEF Shaped
<1>9. Moves(t)
  BY <1>1, Zenon DEF Moves, Shaped
<1> QED
  BY <1>1, <1>6, <1>8, <1>9, Zenon DEF Effects

\* The loops of the tests that count.
LEMMA CountEffects ==
    ASSUME Shaped, NEW t \in Thread,
           \/ ReadIndex(t) \/ Enter(t) \/ rseq_this_cpu_lock(t) \/ test_percpu_spinlock_thread(t)
           \/ rseq_percpu_unlock(t) \/ test_percpu_inc_thread(t)
    PROVE  Effects(t)
<1>1. CASE ReadIndex(t)
  <2>1. /\ cpu[t] # Off /\ UNCHANGED <<cpu, test, v, next, array, exp, val, item>>
        /\ idx' = [idx EXCEPT ![t] = cpu[t]] /\ pc[t] \in {"start", "push"}
        /\ \E l \in {"offset", "enter", "expect"} : pc' = [pc EXCEPT ![t] = l]
    BY <1>1, Zenon DEF ReadIndex, At, Goto, Set, shared
  <2>2. PICK l \in {"offset", "enter", "expect"} : pc' = [pc EXCEPT ![t] = l]
    BY <2>1, Zenon
  <2>3. l \notin Cs
    BY Zenon DEF Cs, PopCs, PushCs
  <2> QED
    BY <2>1, <2>2, <2>3, EffectsOf, Zenon DEF OwnWord, OwnArray, OwnNode
<1>2. CASE Enter(t)
  <2>1. /\ cpu[t] # Off /\ UNCHANGED <<cpu, test, v, next, array, idx, exp, val, item>>
        /\ pc[t] # "start"
        /\ \E l : pc' = [pc EXCEPT ![t] = l] /\ (l \in {"start", "push"} \/ cpu[t] = idx[t])
    BY <1>2, Zenon DEF Enter, At, Goto, shared, locals
  <2>2. PICK l : pc' = [pc EXCEPT ![t] = l] /\ (l \in {"start", "push"} \/ cpu[t] = idx[t])
    BY <2>1, Zenon
  <2>3. l \in Cs => cpu[t] = idx[t]
    BY <2>2, Zenon DEF Cs, PopCs, PushCs
  <2> QED
    BY <2>1, <2>2, <2>3, EffectsOf, Zenon DEF OwnWord, OwnArray, OwnNode
<1>3. CASE rseq_this_cpu_lock(t)
  <2>1. /\ cpu[t] # Off /\ UNCHANGED <<cpu, test, next, array, idx, exp, val, item>>
        /\ pc[t] \in {"load", "final"} /\ OwnWord(t)
        /\ \E l : pc' = [pc EXCEPT ![t] = l]
    BY <1>3, Zenon DEF rseq_this_cpu_lock, At, Goto, Set, shared, locals, OwnWord
  <2>2. pc[t] \in Cs /\ pc[t] # "start"
    BY <2>1, Zenon DEF Cs, PopCs
  <2> QED
    BY <2>1, <2>2, EffectsOf, Zenon DEF OwnArray, OwnNode
<1>4. CASE test_percpu_spinlock_thread(t) \/ rseq_percpu_unlock(t)
  <2>1. /\ cpu[t] # Off /\ UNCHANGED <<cpu, test, next, array, idx, exp, item>> /\ OwnWord(t)
        /\ pc[t] # "start"
        /\ val' = val \/ \E x : val' = [val EXCEPT ![t] = x]
        /\ \E l \in {"add", "check", "unlock", "failed", "done", "start"} : pc' = [pc EXCEPT ![t] = l]
    BY <1>4, Zenon DEF test_percpu_spinlock_thread, rseq_percpu_unlock, At, Goto, Again, Set,
                       shared, locals, OwnWord
  <2>2. PICK l \in {"add", "check", "unlock", "failed", "done", "start"} : pc' = [pc EXCEPT ![t] = l]
    BY <2>1, Zenon
  <2>3. l \notin Cs
    BY Zenon DEF Cs, PopCs, PushCs
  <2> QED
    BY <2>1, <2>2, <2>3, EffectsOf, Zenon DEF OwnArray, OwnNode
<1>5. CASE test_percpu_inc_thread(t)
  <2>1. /\ cpu[t] # Off /\ UNCHANGED <<cpu, test, next, array, idx, exp, item>> /\ OwnWord(t)
        /\ pc[t] \in {"load", "final"}
        /\ val' = val \/ \E x : val' = [val EXCEPT ![t] = x]
        /\ \E l : pc' = [pc EXCEPT ![t] = l]
    BY <1>5, Zenon DEF test_percpu_inc_thread, At, Goto, Again, Set, shared, locals, OwnWord
  <2>2. pc[t] \in Cs /\ pc[t] # "start"
    BY <2>1, Zenon DEF Cs, PopCs
  <2> QED
    BY <2>1, <2>2, EffectsOf, Zenon DEF OwnArray, OwnNode
<1> QED
  BY <1>1, <1>2, <1>3, <1>4, <1>5, Zenon

\* The loops of the list.
LEMMA ListEffects ==
    ASSUME Shaped, NEW t \in Thread, this_cpu_list_pop(t) \/ this_cpu_list_push(t)
    PROVE  Effects(t)
<1>1. /\ cpu[t] # Off /\ UNCHANGED <<cpu, test, array, idx>> /\ OwnWord(t) /\ OwnNode(t)
      /\ exp' = exp \/ \E x : exp' = [exp EXCEPT ![t] = x]
      /\ val' = val \/ \E x : val' = [val EXCEPT ![t] = x]
      /\ item' = item \/ \E x : item' = [item EXCEPT ![t] = x]
      /\ pc[t] # "start"
      /\ \E l : /\ pc' = [pc EXCEPT ![t] = l]
                /\ \/ pc[t] \in {"load", "load2", "final", "pload", "pfinal"}
                   \/ l \in {"link", "penter"}
  <2>1. CASE this_cpu_list_pop(t)
    BY <2>1, Zenon DEF this_cpu_list_pop, At, Goto, Again, Set, shared, locals, OwnWord, OwnNode
  <2>2. CASE this_cpu_list_push(t)
    BY <2>2, Zenon DEF this_cpu_list_push, At, Goto, Again, Set, shared, locals, OwnWord, OwnNode
  <2> QED
    BY <2>1, <2>2, Zenon
<1>2. PICK l : /\ pc' = [pc EXCEPT ![t] = l]
               /\ pc[t] \in {"load", "load2", "final", "pload", "pfinal"} \/ l \in {"link", "penter"}
  BY <1>1, Zenon
<1>3. l \in Cs => pc[t] \in Cs
  BY <1>2, Zenon DEF Cs, PopCs, PushCs
<1> QED
  BY <1>1, <1>2, <1>3, EffectsOf, Zenon DEF OwnArray

\* The loops of the buffers.
LEMMA BufferEffects ==
    ASSUME Shaped, NEW t \in Thread,
           \/ this_cpu_buffer_pop(t) \/ this_cpu_buffer_push(t)
           \/ this_cpu_memcpy_buffer_pop(t) \/ this_cpu_memcpy_buffer_push(t)
    PROVE  Effects(t)
<1> DEFINE Form ==
      /\ cpu[t] # Off /\ UNCHANGED <<cpu, test, next, idx, val>> /\ OwnWord(t) /\ OwnArray(t)
      /\ exp' = exp \/ \E x : exp' = [exp EXCEPT ![t] = x]
      /\ item' = item \/ \E x : item' = [item EXCEPT ![t] = x]
      /\ pc[t] # "start"
      /\ \E l : /\ pc' = [pc EXCEPT ![t] = l]
                /\ pc[t] \in Cs \/ l \in {"head", "enter", "start", "done", "penter", "failed"}
<1>0. /\ {"load", "load2", "copy1", "copy2", "final", "pload", "spec", "pcopy1", "pcopy2", "pfinal"} = Cs
  BY Zenon DEF Cs, PopCs, PushCs
<1>1. ASSUME PopOffset(t) \/ PopFinal(t) \/ PushOffset(t) \/ PushFinal(t) PROVE Form
  BY <1>0, <1>1, Zenon DEF PopOffset, PopFinal, PushOffset, PushFinal, At, Goto, Again, Set, shared, locals,
                     OwnWord, OwnArray
<1>2. ASSUME this_cpu_buffer_pop(t) PROVE Form
  BY <1>0, <1>1, <1>2, Zenon DEF this_cpu_buffer_pop, At, Goto, Set, shared, locals, OwnWord, OwnArray
<1>3. ASSUME this_cpu_buffer_push(t) PROVE Form
  BY <1>0, <1>1, <1>3, Zenon DEF this_cpu_buffer_push, At, Goto, Set, shared, locals, OwnWord, OwnArray
<1>4. ASSUME this_cpu_memcpy_buffer_pop(t) PROVE Form
  BY <1>0, <1>1, <1>4, Zenon DEF this_cpu_memcpy_buffer_pop, At, Goto, shared, locals, OwnWord, OwnArray
<1>5. ASSUME this_cpu_memcpy_buffer_push(t) PROVE Form
  BY <1>0, <1>1, <1>5, Zenon DEF this_cpu_memcpy_buffer_push, At, Goto, shared, locals, OwnWord, OwnArray
<1>6. Form
  BY <1>2, <1>3, <1>4, <1>5, Zenon
<1>7. PICK l : /\ pc' = [pc EXCEPT ![t] = l]
               /\ pc[t] \in Cs \/ l \in {"head", "enter", "start", "done", "penter", "failed"}
  BY <1>6, Zenon
<1>8. l \in Cs => pc[t] \in Cs
  BY <1>7, Zenon DEF Cs, PopCs, PushCs
<1> QED
  BY <1>6, <1>7, <1>8, EffectsOf, Zenon DEF OwnNode

\* Whatever a thread's loop does.
LEMMA StepEffects == ASSUME Shaped, NEW t \in Thread, Step(t) PROVE Effects(t)
BY CountEffects, ListEffects, BufferEffects, Zenon DEF Step

\* A thread stays on the CPU whose data it uses as long as it is in a critical
\* section.
LEMMA LocatedKept ==
    ASSUME Shaped, NEW t \in Thread, Effects(t), \A u \in Thread : Located(u)
    PROVE  \A u \in Thread : Located(u)'
<1>1. ASSUME NEW u \in Thread, u # t PROVE Located(u)'
  BY <1>1, Zenon DEF Effects, OnlyOwn, Located
<1>2. cpu[t] \in Cpu
  BY Zenon DEF Shaped, Effects
<1>3. Located(t)'
  <2>1. Located(t) /\ cpu' = cpu
    BY Zenon DEF Effects
  <2> QED
    BY <1>2, <2>1, Zenon DEF Effects, Moves, Located
<1> QED
  BY <1>1, <1>3, Zenon

\* No other thread changes the word and the buffer of a CPU under a critical
\* section on it, but for the stores that release a lock.
LEMMA Undisturbed ==
    ASSUME Shaped, CpusDistinct, \A w \in Thread : Located(w), NEW t \in Thread, Effects(t),
           NEW u \in Thread, u # t, pc[u] \in Cs
    PROVE  /\ v'[idx[u]] = v[idx[u]] \/ (test = "spinlock" /\ v'[idx[u]] = 0)
           /\ array'[idx[u]] = array[idx[u]]
           /\ idx[u] \in Cpu
<1>1. idx[u] \in Cpu /\ cpu[u] = idx[u]
  <2>1. pc[u] # "start"
    BY Zenon DEF Cs, PopCs, PushCs
  <2> QED
    BY <2>1, Zenon DEF Located
<1>2. pc[t] \in Cs => idx[t] # idx[u]
  BY <1>1, Zenon DEF Located, CpusDistinct, Effects
<1>3. {"final", "pfinal", "spec", "pcopy1", "pcopy2"} \subseteq Cs
  BY Zenon DEF Cs, PopCs, PushCs
<1>4. v'[idx[u]] = v[idx[u]] \/ (test = "spinlock" /\ v'[idx[u]] = 0)
  BY <1>1, <1>2, <1>3, Zenon DEF Shaped, Effects, OwnWord
<1>5. array'[idx[u]] = array[idx[u]]
  BY <1>1, <1>2, <1>3, Zenon DEF Shaped, Effects, OwnArray
<1> QED
  BY <1>1, <1>4, <1>5, Zenon

\* With the counter and the lock, what was loaded or compared stays until the
\* final store.
LEMMA CountKept ==
    ASSUME Shaped, CpusDistinct, Counting, \A u \in Thread : Located(u) /\ OwnCount(u),
           NEW t \in Thread, Step(t), Effects(t)
    PROVE  \A u \in Thread : OwnCount(u)'
<1>1. ASSUME NEW u \in Thread, u # t PROVE OwnCount(u)'
  <2>1. pc'[u] = pc[u] /\ idx'[u] = idx[u] /\ val'[u] = val[u] /\ test' = test
    BY <1>1, Zenon DEF Effects, OnlyOwn
  <2>2. pc[u] = "final" => v'[idx[u]] = v[idx[u]] \/ (test = "spinlock" /\ v'[idx[u]] = 0)
    BY <1>1, Undisturbed, Zenon DEF Cs, PopCs
  <2>3. test = "spinlock" => test # "inc"
    BY Zenon
  <2> QED
    BY <2>1, <2>2, <2>3, Zenon DEF OwnCount
<1> SUFFICES OwnCount(t)'
  BY <1>1, Zenon
<1>2. OwnCount(t) /\ Located(t) /\ test' = test
  BY Zenon DEF Effects
<1>3. pc[t] \notin {"push", "penter"}
  BY <1>2, Zenon DEF OwnCount, Pushing
<1>4. ASSUME NEW l, pc'[t] = l, l \notin Pushing \cup {"final"} PROVE OwnCount(t)'
  BY <1>4, Zenon DEF OwnCount
<1>5. CASE ReadIndex(t) \/ Enter(t)
  <2>1. pc'[t] \in {"offset", "enter", "load", "start"}
    BY <1>3, <1>5, Zenon DEF ReadIndex, Enter, At, Goto, Shaped
  <2> QED
    BY <1>4, <2>1, Zenon DEF Pushing, PushCs
<1>6. CASE rseq_this_cpu_lock(t)
  <2>1. CASE pc[t] = "load" /\ v[idx[t]] = 0
    <3>1. UNCHANGED <<v, idx>> /\ pc'[t] = "final" /\ test = "spinlock"
      BY <1>6, <2>1, Zenon DEF rseq_this_cpu_lock, At, Goto, Shaped, shared, locals
    <3>2. "final" \notin Pushing /\ test # "inc"
      BY <3>1, Zenon DEF Pushing, PushCs
    <3> QED
      BY <1>2, <2>1, <3>1, <3>2, Zenon DEF OwnCount
  <2>2. CASE ~(pc[t] = "load" /\ v[idx[t]] = 0)
    <3>1. pc'[t] \in {"start", "count"}
      BY <1>6, <2>2, Zenon DEF rseq_this_cpu_lock, At, Goto, Shaped
    <3> QED
      BY <1>4, <3>1, Zenon DEF Pushing, PushCs
  <2> QED
    BY <2>1, <2>2, Zenon
<1>7. CASE test_percpu_spinlock_thread(t) \/ rseq_percpu_unlock(t)
  <2>1. pc'[t] \in {"add", "check", "unlock", "failed", "done", "start"}
    BY <1>7, Zenon DEF test_percpu_spinlock_thread, rseq_percpu_unlock, At, Goto, Again, Shaped
  <2> QED
    BY <1>4, <2>1, Zenon DEF Pushing, PushCs
<1>8. CASE test_percpu_inc_thread(t)
  <2>1. CASE pc[t] = "load"
    <3>1. UNCHANGED <<v, idx>> /\ pc'[t] = "final" /\ val'[t] = v[idx[t]] /\ test = "inc"
      BY <1>8, <2>1, Zenon DEF test_percpu_inc_thread, At, Goto, Set, Shaped, shared, locals
    <3>2. "final" \notin Pushing
      BY Zenon DEF Pushing, PushCs
    <3> QED
      BY <1>2, <3>1, <3>2, Zenon DEF OwnCount
  <2>2. CASE pc[t] # "load"
    <3>1. pc'[t] \in {"start", "done"}
      BY <1>8, <2>2, Zenon DEF test_percpu_inc_thread, At, Again, Shaped
    <3> QED
      BY <1>4, <3>1, Zenon DEF Pushing, PushCs
  <2> QED
    BY <2>1, <2>2, Zenon
<1>9. test \notin {"list", "buffer", "memcpy"}
  BY Zenon DEF Counting
<1> QED
  BY <1>5, <1>6, <1>7, <1>8, <1>9, Zenon
     DEF Step, this_cpu_list_pop, this_cpu_list_push, this_cpu_buffer_pop, this_cpu_buffer_push,
         this_cpu_memcpy_buffer_pop, this_cpu_memcpy_buffer_push

\* Which nodes of the lists another thread may link: none that a critical section
\* loaded, and none that a thread holds.
LEMMA OthersList ==
    ASSUME Shaped, CpusDistinct, test = "list", Separate, \A w \in Thread : Located(w) /\ OwnList(w),
           NEW t \in Thread, Effects(t), NEW u \in Thread, u # t
    PROVE  OwnList(u)'
<1>1. PICK home \in [Node -> Cpu \cup {Off}] : Homes(home)
  BY Zenon DEF Separate
<1>2. /\ pc'[u] = pc[u] /\ idx'[u] = idx[u] /\ val'[u] = val[u] /\ exp'[u] = exp[u] /\ item'[u] = item[u]
  BY Zenon DEF Effects, OnlyOwn
<1>3. pc[u] \in Cs => v'[idx[u]] = v[idx[u]] /\ idx[u] \in Cpu
  BY Undisturbed, Zenon
<1>4. {"load2", "final", "pfinal"} \subseteq Cs /\ {"penter", "pload", "pfinal", "link"} \subseteq Pushing
  BY Zenon DEF Cs, PopCs, PushCs, Pushing
<1>5. OwnList(u)
  BY Zenon
<1>6. ASSUME NEW n \in Node, pc[t] = "link" => n # item[t][1] PROVE next'[n] = next[n]
  BY <1>6, Zenon DEF Effects, OwnNode, Shaped
<1>7. ASSUME pc[u] = "final" PROVE next'[val[u]] = next[val[u]]
  <2>1. val[u] \in Node /\ home[val[u]] = idx[u] /\ idx[u] \in Cpu
    <3>1. v[idx[u]] = val[u] /\ val[u] # NULL
      BY <1>5, <1>7, Zenon DEF OwnList
    <3>2. idx[u] \in Cpu
      BY <1>3, <1>4, <1>7, Zenon
    <3>3. \A c \in Cpu : v[c] # NULL => v[c] \in Node /\ home[v[c]] = c
      BY <1>1, Zenon DEF Homes
    <3> QED
      BY <3>1, <3>2, <3>3, Zenon
  <2>2. idx[u] # Off
    BY <2>1, ClientAssumption DEF Off
  <2>3. pc[t] = "link" => home[item[t][1]] = Off
    BY <1>1, <1>4, Zenon DEF Homes
  <2> QED
    BY <1>6, <2>1, <2>2, <2>3, Zenon
<1>8. ASSUME pc[u] \in {"penter", "pload", "pfinal"} PROVE next'[item[u][1]] = next[item[u][1]]
  <2>1. item[u][1] \in Node /\ (pc[t] = "link" => item[u][1] # item[t][1])
    <3>1. pc[u] \in Pushing /\ (pc[t] = "link" => pc[t] \in Pushing)
      BY <1>4, <1>8, Zenon
    <3> QED
      BY <1>1, <3>1, Zenon DEF Homes
  <2> QED
    BY <1>6, <2>1, Zenon
<1>9. /\ pc'[u] \in {"load2", "final"} => v'[idx'[u]] = val'[u] /\ val'[u] # NULL
      /\ pc'[u] = "pfinal" => v'[idx'[u]] = exp'[u]
  <2>1. pc[u] \in {"load2", "final", "pfinal"} => v'[idx'[u]] = v[idx[u]]
    BY <1>2, <1>3, <1>4, Zenon
  <2> QED
    BY <1>2, <1>5, <2>1, Zenon DEF OwnList
<1>10. /\ pc'[u] = "final" => next'[val'[u]] = exp'[u]
       /\ pc'[u] \in {"penter", "pload", "pfinal"} => next'[item'[u][1]] = exp'[u]
  BY <1>2, <1>5, <1>7, <1>8, Zenon DEF OwnList
<1> QED
  BY <1>9, <1>10, Zenon DEF OwnList

\* What a thread loads of a list, links and compares.
LEMMA OwnListStep ==
    ASSUME Shaped, test = "list", Separate, NEW t \in Thread, Located(t), OwnList(t), Step(t), Effects(t)
    PROVE  OwnList(t)'
<1>0. ASSUME NEW l, pc'[t] = l, l \notin {"load2", "final", "penter", "pload", "pfinal"}
      PROVE  OwnList(t)'
  BY <1>0, Zenon DEF OwnList
<1>1. CASE ReadIndex(t)
  <2>1. pc'[t] \in {"offset", "enter", "expect"}
    BY <1>1, Zenon DEF ReadIndex, At, Goto, Shaped
  <2> QED
    BY <1>0, <2>1, Zenon
<1>2. CASE Enter(t)
  <2>1. /\ UNCHANGED <<next, item, exp>>
        /\ pc'[t] \in {"load", "start", "push"} \/ (pc[t] = "penter" /\ pc'[t] = "pload")
    BY <1>2, Zenon DEF Enter, At, Goto, Shaped, shared, locals
  <2> QED
    BY <1>0, <2>1, Zenon DEF OwnList
<1>3. CASE this_cpu_list_pop(t)
  <2>1. CASE pc[t] = "load"
    <3>1. /\ UNCHANGED <<v, idx>> /\ val'[t] = v[idx[t]]
          /\ pc'[t] \in {"start", "done"} \/ (val'[t] # NULL /\ pc'[t] = "load2")
      BY <1>3, <2>1, Zenon DEF this_cpu_list_pop, At, Goto, Again, Set, Shaped, shared
    <3> QED
      BY <1>0, <3>1, Zenon DEF OwnList
  <2>2. CASE pc[t] = "load2"
    <3>1. UNCHANGED <<v, idx, val, next>> /\ exp'[t] = next[val[t]] /\ pc'[t] = "final"
      BY <1>3, <2>2, Zenon DEF this_cpu_list_pop, At, Goto, Set, Shaped, shared
    <3> QED
      BY <2>2, <3>1, Zenon DEF OwnList
  <2>3. CASE pc[t] \notin {"load", "load2"}
    <3>1. pc'[t] = "push"
      BY <1>3, <2>3, Zenon DEF this_cpu_list_pop, At, Goto, Shaped
    <3> QED
      BY <1>0, <3>1, Zenon
  <2> QED
    BY <2>1, <2>2, <2>3, Zenon
<1>4. CASE this_cpu_list_push(t)
  <2>1. CASE pc[t] = "link"
    <3>1. item[t][1] \in Node
      BY <2>1, Zenon DEF Separate, Homes, Pushing
    <3>2. next' = [next EXCEPT ![item[t][1]] = exp[t]] /\ UNCHANGED <<item, exp>> /\ pc'[t] = "penter"
      BY <1>4, <2>1, Zenon DEF this_cpu_list_push, At, Goto, Set, Shaped, locals
    <3>3. next'[item[t][1]] = exp[t]
      BY <3>1, <3>2, Zenon DEF Shaped
    <3> QED
      BY <3>2, <3>3, Zenon DEF OwnList
  <2>2. CASE pc[t] = "pload"
    <3>1. /\ UNCHANGED <<v, idx, item, exp, next>>
          /\ pc'[t] = "push" \/ (v[idx[t]] = exp[t] /\ pc'[t] = "pfinal")
      BY <1>4, <2>2, Zenon DEF this_cpu_list_push, At, Goto, Shaped, shared, locals
    <3> QED
      BY <1>0, <2>2, <3>1, Zenon DEF OwnList
  <2>3. CASE pc[t] \notin {"link", "pload"}
    <3>1. pc'[t] \in {"link", "start", "done"}
      BY <1>4, <2>3, Zenon DEF this_cpu_list_push, At, Goto, Again, Shaped
    <3> QED
      BY <1>0, <3>1, Zenon
  <2> QED
    BY <2>1, <2>2, <2>3, Zenon
<1>5. CASE test_percpu_spinlock_thread(t)
  <2>1. pc'[t] \in {"add", "check"}
    BY <1>5, Zenon DEF test_percpu_spinlock_thread, At, Goto, Shaped
  <2> QED
    BY <1>0, <2>1, Zenon
<1> QED
  BY <1>1, <1>2, <1>3, <1>4, <1>5, Zenon
     DEF Step, rseq_this_cpu_lock, rseq_percpu_unlock, test_percpu_inc_thread, this_cpu_buffer_pop,
         this_cpu_buffer_push, this_cpu_memcpy_buffer_pop, this_cpu_memcpy_buffer_push

\* Who holds a node and what the pointers are decide where the nodes are.
LEMMA HomesSame ==
    ASSUME NEW home, Homes(home), UNCHANGED <<v, next>>,
           \A u \in Thread : pc'[u] \in Pushing => pc[u] \in Pushing /\ item'[u] = item[u]
    PROVE  Homes(home)'
<1>1. /\ \A c \in Cpu : v'[c] # NULL => v'[c] \in Node /\ home[v'[c]] = c
      /\ \A n \in Node : home[n] # Off /\ next'[n] # NULL =>
            next'[n] \in Node /\ home[next'[n]] = home[n] /\ next'[n] # v'[home[n]]
      /\ \A m, n \in Node :
            home[m] # Off /\ home[m] = home[n] /\ next'[m] = next'[n] /\ next'[m] # NULL => m = n
  BY Zenon DEF Homes
<1>2. \A u \in Thread : pc'[u] \in Pushing => item'[u][1] \in Node /\ home[item'[u][1]] = Off
  BY Zenon DEF Homes
<1>3. ASSUME NEW u \in Thread, NEW w \in Thread,
             pc'[u] \in Pushing, pc'[w] \in Pushing, item'[u][1] = item'[w][1]
      PROVE  u = w
  <2>1. pc[u] \in Pushing /\ pc[w] \in Pushing /\ item[u][1] = item[w][1]
    BY <1>3, Zenon
  <2> QED
    BY <2>1, Zenon DEF Homes
<1> QED
  BY <1>1, <1>2, <1>3, Zenon DEF Homes

\* A pop takes the head of a list, to which no other pointer leads, out of it.
LEMMA PopSeparate ==
    ASSUME Shaped, Separate, NEW t \in Thread, Located(t), OwnList(t), OnlyOwn(t), pc[t] = "final",
           v' = [v EXCEPT ![idx[t]] = exp[t]], item'[t] = Two(val[t]), next' = next
    PROVE  Separate'
<1>1. PICK home \in [Node -> Cpu \cup {Off}] : Homes(home)
  BY Zenon DEF Separate
<1> DEFINE c0 == idx[t]
           n0 == val[t]
<1>0. \A m, n \in Node :
          home[m] # Off /\ home[m] = home[n] /\ next[m] = next[n] /\ next[m] # NULL => m = n
  BY <1>1, Zenon DEF Homes
<1>2. c0 \in Cpu /\ n0 = v[c0] /\ n0 \in Node /\ home[n0] = c0 /\ next[n0] = exp[t] /\ c0 # Off
  <2>1. c0 \in Cpu /\ n0 = v[c0] /\ n0 # NULL /\ next[n0] = exp[t]
    BY Zenon DEF Located, OwnList
  <2>2. n0 \in Node /\ home[n0] = c0
    BY <1>1, <2>1, Zenon DEF Homes
  <2>3. c0 # Off
    BY <2>1, ClientAssumption DEF Off
  <2> QED
    BY <2>1, <2>2, <2>3, Zenon
<1>3. PICK moved \in [Node -> Cpu \cup {Off}] :
          /\ moved[n0] = Off
          /\ \A n \in Node : n # n0 => moved[n] = home[n]
          /\ \A n \in Node : moved[n] # Off => n # n0 /\ moved[n] = home[n]
  <2> DEFINE moved == [home EXCEPT ![n0] = Off]
  <2>1. /\ moved \in [Node -> Cpu \cup {Off}] /\ moved[n0] = Off
        /\ \A n \in Node : n # n0 => moved[n] = home[n]
    BY <1>1, <1>2, Zenon
  <2> HIDE DEF moved
  <2> QED
    BY <2>1, Zenon
<1>4. v'[c0] = next[n0] /\ \A c \in Cpu : c # c0 => v'[c] = v[c]
  BY <1>2, Zenon DEF Shaped
<1>5. item'[t][1] = n0
  BY DEF Two
<1>6. ASSUME NEW c \in Cpu, v'[c] # NULL PROVE v'[c] \in Node /\ moved[v'[c]] = c
  <2>1. CASE c = c0
    <3>1. next[n0] # NULL /\ v'[c] = next[n0]
      BY <1>4, <1>6, <2>1, Zenon
    <3>2. next[n0] \in Node /\ home[next[n0]] = c0 /\ next[n0] # n0
      BY <1>1, <1>2, <3>1, Zenon DEF Homes
    <3> QED
      BY <1>3, <2>1, <3>1, <3>2, Zenon
  <2>2. CASE c # c0
    <3>1. v'[c] = v[c] /\ v[c] \in Node /\ home[v[c]] = c
      BY <1>1, <1>4, <1>6, <2>2, Zenon DEF Homes
    <3>2. v[c] # n0
      BY <1>2, <2>2, <3>1, Zenon
    <3> QED
      BY <1>3, <3>1, <3>2, Zenon
  <2> QED
    BY <2>1, <2>2, Zenon
<1>7. ASSUME NEW n \in Node, moved[n] # Off, next[n] # NULL
      PROVE  next[n] \in Node /\ moved[next[n]] = moved[n] /\ next[n] # v'[moved[n]]
  <2>1. n # n0 /\ moved[n] = home[n] /\ home[n] # Off /\ home[n] \in Cpu
    BY <1>1, <1>3, <1>7, Zenon
  <2>2. next[n] \in Node /\ home[next[n]] = home[n] /\ next[n] # v[home[n]]
    BY <1>1, <1>7, <2>1, Zenon DEF Homes
  <2>3. next[n] # n0
    BY <1>2, <2>2, Zenon
  <2>4. moved[next[n]] = moved[n]
    BY <1>3, <2>1, <2>2, <2>3, Zenon
  <2>5. CASE home[n] = c0
    <3>1. next[n] # next[n0]
      BY <1>0, <1>2, <1>7, <2>1, <2>5, Zenon
    <3> QED
      BY <1>4, <2>1, <2>2, <2>4, <2>5, <3>1, Zenon
  <2>6. CASE home[n] # c0
    BY <1>4, <2>1, <2>2, <2>4, <2>6, Zenon
  <2> QED
    BY <2>5, <2>6, Zenon
<1>8. ASSUME NEW m \in Node, NEW n \in Node, moved[m] # Off, moved[m] = moved[n],
             next[m] = next[n], next[m] # NULL
      PROVE  m = n
  <2>1. home[m] # Off /\ home[m] = home[n]
    BY <1>3, <1>8, Zenon
  <2> QED
    BY <1>1, <1>8, <2>1, Zenon DEF Homes
<1>9. ASSUME NEW u \in Thread, u # t, pc'[u] \in Pushing
      PROVE  /\ pc[u] \in Pushing /\ item'[u] = item[u]
             /\ item'[u][1] \in Node /\ moved[item'[u][1]] = Off /\ item'[u][1] # n0
  <2>1. pc[u] \in Pushing /\ item'[u] = item[u]
    BY <1>9, Zenon DEF OnlyOwn
  <2>2. item[u][1] \in Node /\ home[item[u][1]] = Off
    BY <1>1, <2>1, Zenon DEF Homes
  <2> QED
    BY <1>2, <1>3, <2>1, <2>2, Zenon
<1>10. ASSUME NEW u \in Thread, NEW w \in Thread,
              pc'[u] \in Pushing, pc'[w] \in Pushing, item'[u][1] = item'[w][1]
       PROVE  u = w
  <2>1. CASE u # t /\ w # t
    <3>1. pc[u] \in Pushing /\ pc[w] \in Pushing /\ item[u][1] = item[w][1]
      BY <1>9, <1>10, <2>1, Zenon
    <3> QED
      BY <1>1, <3>1, Zenon DEF Homes
  <2>2. CASE u = t \/ w = t
    BY <1>5, <1>9, <1>10, <2>2, Zenon
  <2> QED
    BY <2>1, <2>2, Zenon
<1>11. \A u \in Thread : pc'[u] \in Pushing => item'[u][1] \in Node /\ moved[item'[u][1]] = Off
  BY <1>2, <1>3, <1>5, <1>9, Zenon
<1>12. Homes(moved)'
  BY <1>6, <1>7, <1>8, <1>10, <1>11, Zenon DEF Homes
<1> QED
  BY <1>3, <1>12, Zenon DEF Separate

\* A push brings its node, linked to the head, home.
LEMMA PushSeparate ==
    ASSUME Shaped, Separate, NEW t \in Thread, Located(t), OwnList(t), OnlyOwn(t), pc[t] = "pfinal",
           v' = [v EXCEPT ![idx[t]] = item[t][1]], next' = next, pc'[t] \notin Pushing
    PROVE  Separate'
<1>1. PICK home \in [Node -> Cpu \cup {Off}] : Homes(home)
  BY Zenon DEF Separate
<1> DEFINE c0 == idx[t]
           n0 == item[t][1]
<1>0. \A m, n \in Node :
          home[m] # Off /\ home[m] = home[n] /\ next[m] = next[n] /\ next[m] # NULL => m = n
  BY <1>1, Zenon DEF Homes
<1>2. c0 \in Cpu /\ n0 \in Node /\ home[n0] = Off /\ next[n0] = v[c0] /\ c0 # Off /\ pc[t] \in Pushing
  <2>1. c0 \in Cpu /\ next[n0] = exp[t] /\ v[c0] = exp[t] /\ pc[t] \in Pushing
    BY Zenon DEF Located, OwnList, Pushing, PushCs
  <2>2. n0 \in Node /\ home[n0] = Off
    BY <1>1, <2>1, Zenon DEF Homes
  <2>3. c0 # Off
    BY <2>1, ClientAssumption DEF Off
  <2> QED
    BY <2>1, <2>2, <2>3, Zenon
<1>3. PICK moved \in [Node -> Cpu \cup {Off}] :
          moved[n0] = c0 /\ \A n \in Node : n # n0 => moved[n] = home[n]
  <2> DEFINE moved == [home EXCEPT ![n0] = c0]
  <2>1. /\ moved \in [Node -> Cpu \cup {Off}] /\ moved[n0] = c0
        /\ \A n \in Node : n # n0 => moved[n] = home[n]
    BY <1>1, <1>2, Zenon
  <2> HIDE DEF moved
  <2> QED
    BY <2>1, Zenon
<1>4. v'[c0] = n0 /\ \A c \in Cpu : c # c0 => v'[c] = v[c]
  BY <1>2, Zenon DEF Shaped
<1>5. ASSUME NEW n \in Node, home[n] # Off PROVE n # n0 /\ moved[n] = home[n]
  BY <1>2, <1>3, <1>5, Zenon
<1>6. ASSUME NEW c \in Cpu, v'[c] # NULL PROVE v'[c] \in Node /\ moved[v'[c]] = c
  <2>1. CASE c = c0
    BY <1>2, <1>3, <1>4, <2>1, Zenon
  <2>2. CASE c # c0
    <3>1. v'[c] = v[c] /\ v[c] \in Node /\ home[v[c]] = c /\ c # Off
      BY <1>1, <1>4, <1>6, <2>2, ClientAssumption DEF Homes, Off
    <3> QED
      BY <1>5, <3>1, Zenon
  <2> QED
    BY <2>1, <2>2, Zenon
<1>7. ASSUME NEW n \in Node, n # n0, moved[n] # Off, next[n] # NULL
      PROVE  /\ next[n] \in Node /\ home[next[n]] = home[n] /\ next[n] # v[home[n]] /\ home[n] # Off
             /\ next[n] # n0 /\ moved[next[n]] = moved[n] /\ moved[n] = home[n] /\ home[n] \in Cpu
  <2>1. moved[n] = home[n] /\ home[n] # Off /\ home[n] \in Cpu
    BY <1>1, <1>3, <1>7, Zenon
  <2>2. next[n] \in Node /\ home[next[n]] = home[n] /\ next[n] # v[home[n]]
    BY <1>1, <1>7, <2>1, Zenon DEF Homes
  <2> QED
    BY <1>5, <2>1, <2>2, Zenon
<1>8. ASSUME next[n0] # NULL PROVE next[n0] \in Node /\ moved[next[n0]] = c0 /\ next[n0] # n0
  <2>1. v[c0] \in Node /\ home[v[c0]] = c0
    BY <1>1, <1>2, <1>8, Zenon DEF Homes
  <2> QED
    BY <1>2, <1>5, <2>1, Zenon
<1>9. ASSUME NEW n \in Node, moved[n] # Off, next[n] # NULL
      PROVE  next[n] \in Node /\ moved[next[n]] = moved[n] /\ next[n] # v'[moved[n]]
  <2>1. CASE n = n0
    BY <1>3, <1>4, <1>8, <1>9, <2>1, Zenon
  <2>2. CASE n # n0
    <3>1. /\ next[n] \in Node /\ next[n] # v[home[n]] /\ next[n] # n0
          /\ moved[next[n]] = moved[n] /\ moved[n] = home[n] /\ home[n] \in Cpu
      BY <1>7, <1>9, <2>2, Zenon
    <3>2. v'[home[n]] \in {n0, v[home[n]]}
      BY <1>4, <3>1, Zenon
    <3>3. next[n] # v'[moved[n]]
      BY <3>1, <3>2, Zenon
    <3> QED
      BY <3>1, <3>3, Zenon
  <2> QED
    BY <2>1, <2>2, Zenon
<1>10. ASSUME NEW m \in Node, NEW n \in Node, moved[m] # Off, moved[m] = moved[n],
              next[m] = next[n], next[m] # NULL
       PROVE  m = n
  <2>1. CASE m # n0 /\ n # n0
    <3>1. home[m] # Off /\ home[m] = home[n]
      BY <1>3, <1>10, <2>1, Zenon
    <3> QED
      BY <1>0, <1>10, <3>1, Zenon
  <2>2. ASSUME NEW k \in Node, k # n0, moved[k] = c0, next[k] = next[n0], next[k] # NULL PROVE FALSE
    <3>1. moved[k] # Off
      BY <1>2, <2>2, Zenon
    <3>2. next[k] # v[home[k]] /\ moved[k] = home[k]
      BY <1>7, <2>2, <3>1, Zenon
    <3> QED
      BY <1>2, <2>2, <3>2, Zenon
  <2> QED
    BY <1>3, <1>10, <2>1, <2>2, Zenon
<1>11. ASSUME NEW u \in Thread, pc'[u] \in Pushing
       PROVE  /\ pc[u] \in Pushing /\ item'[u] = item[u]
              /\ item'[u][1] \in Node /\ moved[item'[u][1]] = Off
  <2>1. u # t
    BY <1>11, Zenon
  <2>2. pc[u] \in Pushing /\ item'[u] = item[u]
    BY <1>11, <2>1, Zenon DEF OnlyOwn
  <2>3. item[u][1] \in Node /\ home[item[u][1]] = Off /\ item[u][1] # n0
    BY <1>1, <1>2, <2>1, <2>2, Zenon DEF Homes
  <2> QED
    BY <1>3, <2>2, <2>3, Zenon
<1>12. ASSUME NEW u \in Thread, NEW w \in Thread,
              pc'[u] \in Pushing, pc'[w] \in Pushing, item'[u][1] = item'[w][1]
       PROVE  u = w
  <2>1. pc[u] \in Pushing /\ pc[w] \in Pushing /\ item[u][1] = item[w][1]
    BY <1>11, <1>12, Zenon
  <2> QED
    BY <1>1, <2>1, Zenon DEF Homes
<1>13. Homes(moved)'
  BY <1>6, <1>9, <1>10, <1>11, <1>12, Zenon DEF Homes
<1> QED
  BY <1>3, <1>13, Zenon DEF Separate

\* A thread links only the node it holds, which no list leads to.
LEMMA LinkSeparate ==
    ASSUME Shaped, Separate, NEW t \in Thread, OnlyOwn(t), pc[t] = "link", pc'[t] = "penter",
           next' = [next EXCEPT ![item[t][1]] = exp[t]], v' = v, item' = item
    PROVE  Separate'
<1>1. PICK home \in [Node -> Cpu \cup {Off}] : Homes(home)
  BY Zenon DEF Separate
<1>2. /\ pc[t] \in Pushing /\ pc'[t] \in Pushing /\ item[t][1] \in Node /\ home[item[t][1]] = Off
  BY <1>1, Zenon DEF Homes, Pushing
<1>3. \A n \in Node : home[n] # Off => next'[n] = next[n]
  BY <1>2, Zenon DEF Shaped
<1>4. \A u \in Thread : pc'[u] \in Pushing <=> pc[u] \in Pushing
  BY <1>2, Zenon DEF OnlyOwn
<1>5. /\ \A c \in Cpu : v'[c] # NULL => v'[c] \in Node /\ home[v'[c]] = c
      /\ \A u \in Thread : pc'[u] \in Pushing => item'[u][1] \in Node /\ home[item'[u][1]] = Off
  BY <1>1, <1>4, Zenon DEF Homes
<1>6. \A u, w \in Thread : pc'[u] \in Pushing /\ pc'[w] \in Pushing /\ item'[u][1] = item'[w][1] => u = w
  BY <1>1, <1>4, Zenon DEF Homes
<1>7. \A n \in Node : home[n] # Off /\ next'[n] # NULL =>
          next'[n] \in Node /\ home[next'[n]] = home[n] /\ next'[n] # v'[home[n]]
  BY <1>1, <1>3, Zenon DEF Homes
<1>8. ASSUME NEW m \in Node, NEW n \in Node, home[m] # Off, home[m] = home[n],
             next'[m] = next'[n], next'[m] # NULL
      PROVE  m = n
  <2>1. next[m] = next[n] /\ next[m] # NULL
    BY <1>3, <1>8, Zenon
  <2> QED
    BY <1>1, <1>8, <2>1, Zenon DEF Homes
<1>9. Homes(home)'
  BY <1>5, <1>6, <1>7, <1>8, Zenon DEF Homes
<1> QED
  BY <1>1, <1>9, Zenon DEF Separate

\* No step of the list's test brings a node to two places.
LEMMA SeparateStep ==
    ASSUME Shaped, test = "list", Separate, NEW t \in Thread, Located(t), OwnList(t), Step(t), Effects(t)
    PROVE  Separate'
<1>0. OnlyOwn(t)
  BY Zenon DEF Effects
<1>1. ASSUME UNCHANGED <<v, next, item>>, pc'[t] \in Pushing => pc[t] \in Pushing PROVE Separate'
  <2>1. PICK home \in [Node -> Cpu \cup {Off}] : Homes(home)
    BY Zenon DEF Separate
  <2>2. \A u \in Thread : pc'[u] \in Pushing => pc[u] \in Pushing /\ item'[u] = item[u]
    BY <1>0, <1>1, Zenon DEF OnlyOwn
  <2>3. Homes(home)'
    BY <1>1, <2>1, <2>2, HomesSame, Zenon
  <2> QED
    BY <2>1, <2>3, Zenon DEF Separate
<1>2. CASE ReadIndex(t) \/ Enter(t) \/ test_percpu_spinlock_thread(t)
  <2>1. UNCHANGED <<v, next, item>>
    BY <1>2, Zenon DEF ReadIndex, Enter, test_percpu_spinlock_thread, shared, locals
  <2>2. pc'[t] \in {"offset", "enter", "load", "start", "add", "check"} \/ pc[t] \in {"push", "penter"}
    BY <1>2, Zenon DEF ReadIndex, Enter, test_percpu_spinlock_thread, At, Goto, Shaped
  <2>3. pc'[t] \in Pushing => pc[t] \in Pushing
    BY <2>2, Zenon DEF Pushing, PushCs
  <2> QED
    BY <1>1, <2>1, <2>3, Zenon
<1>3. CASE this_cpu_list_pop(t)
  <2>1. CASE pc[t] = "final"
    <3>1. v' = [v EXCEPT ![idx[t]] = exp[t]] /\ item'[t] = Two(val[t]) /\ next' = next
      BY <1>3, <2>1, Zenon DEF this_cpu_list_pop, At, Set, Shaped
    <3> QED
      BY <1>0, <2>1, <3>1, PopSeparate, Zenon
  <2>2. CASE pc[t] # "final"
    <3>1. UNCHANGED <<v, next, item>> /\ pc'[t] \in {"start", "done", "load2", "final"}
      BY <1>3, <2>2, Zenon DEF this_cpu_list_pop, At, Goto, Again, Shaped, shared
    <3>2. pc'[t] \notin Pushing
      BY <3>1, Zenon DEF Pushing, PushCs
    <3> QED
      BY <1>1, <3>1, <3>2, Zenon
  <2> QED
    BY <2>1, <2>2, Zenon
<1>4. CASE this_cpu_list_push(t)
  <2>1. CASE pc[t] = "link"
    <3>1. next' = [next EXCEPT ![item[t][1]] = exp[t]] /\ v' = v /\ item' = item /\ pc'[t] = "penter"
      BY <1>4, <2>1, Zenon DEF this_cpu_list_push, At, Goto, Set, Shaped, locals
    <3> QED
      BY <1>0, <2>1, <3>1, LinkSeparate, Zenon
  <2>2. CASE pc[t] = "pfinal"
    <3>1. v' = [v EXCEPT ![idx[t]] = item[t][1]] /\ next' = next /\ pc'[t] \in {"start", "done"}
      BY <1>4, <2>2, Zenon DEF this_cpu_list_push, At, Again, Set, Shaped
    <3>2. pc'[t] \notin Pushing
      BY <3>1, Zenon DEF Pushing, PushCs
    <3> QED
      BY <1>0, <2>2, <3>1, <3>2, PushSeparate, Zenon
  <2>3. CASE pc[t] \notin {"link", "pfinal"}
    <3>1. UNCHANGED <<v, next, item>> /\ pc[t] \in {"expect", "pload"}
      BY <1>4, <2>3, Zenon DEF this_cpu_list_push, At, shared, locals
    <3>2. pc[t] \in Pushing
      BY <3>1, Zenon DEF Pushing, PushCs
    <3> QED
      BY <1>1, <3>1, <3>2, Zenon
  <2> QED
    BY <2>1, <2>2, <2>3, Zenon
<1> QED
  BY <1>2, <1>3, <1>4, Zenon
     DEF Step, rseq_this_cpu_lock, rseq_percpu_unlock, test_percpu_inc_thread, this_cpu_buffer_pop,
         this_cpu_buffer_push, this_cpu_memcpy_buffer_pop, this_cpu_memcpy_buffer_push

\* The size of a buffer is that of the items of all CPUs.
LEMMA Sizes == /\ NrCpus \in Nat /\ BufLen \in Nat /\ Items <= BufLen
               /\ \A c \in Cpu : NodeOf(c, Items) \in Node
<1>1. Max(Cpu) \in Cpu /\ \A c \in Cpu : c <= Max(Cpu)
  BY ClientAssumption DEF Max
<1>2. NrCpus \in Nat /\ Items \in Nat /\ \A c \in Cpu : c \in Nat /\ c + 1 <= NrCpus
  <2>1. PICK m \in Cpu : NrCpus = m + 1 /\ \A c \in Cpu : c <= m
    BY <1>1, Zenon DEF NrCpus
  <2>2. m \in Nat /\ Items \in Nat /\ \A c \in Cpu : c \in Nat
    BY ClientAssumption, Zenon
  <2> QED
    BY <2>1, <2>2
<1>3. ASSUME NEW c \in Nat, c + 1 <= NrCpus
      PROVE  c * Items + Items <= NrCpus * Items /\ c * Items \in Nat /\ NrCpus * Items \in Nat
  <2>1. PICK d \in Nat : NrCpus = c + 1 + d
    <3>1. NrCpus - c - 1 \in Nat /\ NrCpus = c + 1 + (NrCpus - c - 1)
      BY <1>2, <1>3
    <3> QED
      BY <3>1, Zenon
  <2>2. d * Items \in Nat /\ c * Items \in Nat
    BY <1>2
  <2>3. NrCpus * Items = c * Items + Items + d * Items
    BY <1>2, <2>1, <2>2
  <2> QED
    BY <1>2, <2>2, <2>3
<1>4. \E c \in Cpu : c \in Nat
  BY <1>1, <1>2
<1>5. BufLen \in Nat /\ Items <= BufLen
  BY <1>2, <1>3, <1>4 DEF BufLen
<1>6. ASSUME NEW c \in Cpu PROVE NodeOf(c, Items) \in Node
  <2>1. c * Items + Items <= NrCpus * Items /\ c * Items \in Nat
    BY <1>2, <1>3
  <2> QED
    BY <1>2, <1>5, <2>1, ClientAssumption DEF NodeOf, Node, BufLen
<1> QED
  BY <1>2, <1>5, <1>6, Zenon

\* With a buffer, another thread leaves alone what a critical section uses.
LEMMA OthersBuffer ==
    ASSUME Shaped, CpusDistinct, Buffers, \A w \in Thread : Located(w) /\ OwnBuffer(w),
           NEW t \in Thread, Effects(t), NEW u \in Thread, u # t
    PROVE  OwnBuffer(u)'
<1>1. /\ pc'[u] = pc[u] /\ idx'[u] = idx[u] /\ exp'[u] = exp[u] /\ item'[u] = item[u]
  BY Zenon DEF Effects, OnlyOwn
<1>2. pc[u] \in Cs => v'[idx[u]] = v[idx[u]] /\ array'[idx[u]] = array[idx[u]]
  <2>1. test # "spinlock"
    BY Zenon DEF Buffers
  <2> QED
    BY <2>1, Undisturbed, Zenon
<1>3. pc[u] \notin Cs => pc[u] # "copy2" /\ pc[u] # "final" /\ pc[u] # "pcopy2" /\ pc[u] # "pfinal"
  BY Zenon DEF Cs, PopCs, PushCs
<1>4. OwnBuffer(u)
  BY Zenon
<1>5. CASE pc[u] \in Cs
  <2>1. v'[idx'[u]] = v[idx[u]] /\ array'[idx'[u]] = array[idx[u]]
    BY <1>1, <1>2, <1>5, Zenon
  <2> QED
    BY <1>1, <1>4, <2>1, Zenon DEF OwnBuffer
<1>6. CASE pc[u] \notin Cs
  BY <1>1, <1>3, <1>4, <1>6, Zenon DEF OwnBuffer
<1> QED
  BY <1>5, <1>6, Zenon

\* The locations at which nothing is known of the buffer.
NoBuffer == {"start", "offset", "push", "expect", "failed", "done", "add", "check"}
LEMMA FreeOfBuffer == ASSUME NEW t \in Thread, pc'[t] \in NoBuffer PROVE OwnBuffer(t)'
<1>1. pc'[t] \notin Cs \cup {"head", "enter", "penter", "copy2", "final", "pcopy2", "pfinal"}
  BY Zenon DEF NoBuffer, Cs, PopCs, PushCs
<1> QED
  BY <1>1, Zenon DEF OwnBuffer, Cs

\* The offsets the loops read, compare and store.
LEMMA OffsetStep ==
    ASSUME Shaped, Buffers, InBuffer, NEW t \in Thread, Located(t), OwnBuffer(t),
           PopOffset(t) \/ PopFinal(t) \/ PushOffset(t) \/ PushFinal(t)
    PROVE  OwnBuffer(t)' /\ InBuffer'
<1>0. BufLen \in Nat
  BY Sizes, Zenon
<1>1. CASE PopOffset(t)
  <2>1. /\ UNCHANGED <<v, array, item, idx>> /\ pc[t] = "offset" /\ exp'[t] = v[idx[t]]
        /\ (exp'[t] = 0 /\ pc'[t] \in {"start", "done"}) \/ (exp'[t] # 0 /\ pc'[t] \in {"head", "enter"})
    BY <1>1, Zenon DEF PopOffset, At, Goto, Again, Set, Shaped, shared
  <2>2. InBuffer'
    BY <2>1, Zenon DEF InBuffer
  <2>3. CASE pc'[t] \in {"start", "done"}
    BY <2>2, <2>3, FreeOfBuffer, Zenon DEF NoBuffer
  <2>4. CASE exp'[t] # 0 /\ pc'[t] \in {"head", "enter"}
    <3>1. exp'[t] \in 0 .. BufLen
      BY <2>1, Zenon DEF Located, InBuffer
    <3>2. exp'[t] \in 1 .. BufLen
      BY <1>0, <2>4, <3>1
    <3>3. pc'[t] \notin Cs \cup {"penter"}
      BY <2>4, Zenon DEF Cs, PopCs, PushCs
    <3> QED
      BY <2>2, <2>4, <3>2, <3>3, Zenon DEF OwnBuffer, Cs
  <2> QED
    BY <2>1, <2>3, <2>4, Zenon
<1>2. CASE PopFinal(t)
  <2>1. v' = [v EXCEPT ![idx[t]] = exp[t] - 1] /\ UNCHANGED <<array, item>> /\ pc'[t] = "push" /\ pc[t] = "final"
    BY <1>2, Zenon DEF PopFinal, At, Goto, Set, Shaped, locals
  <2>2. exp[t] \in 1 .. BufLen
    BY <2>1, Zenon DEF OwnBuffer, PopCs
  <2>3. exp[t] - 1 \in 0 .. BufLen
    BY <1>0, <2>2
  <2>4. InBuffer'
    BY <2>1, <2>3, Zenon DEF InBuffer
  <2> QED
    BY <2>1, <2>4, FreeOfBuffer, Zenon DEF NoBuffer
<1>3. CASE PushOffset(t)
  <2>1. /\ UNCHANGED <<v, array, item, idx>> /\ pc[t] = "expect" /\ exp'[t] = v[idx[t]]
        /\ pc'[t] = "failed" \/ (exp'[t] # BufLen /\ pc'[t] = "penter")
    BY <1>3, Zenon DEF PushOffset, At, Goto, Set, Shaped, shared
  <2>2. InBuffer'
    BY <2>1, Zenon DEF InBuffer
  <2>3. CASE pc'[t] = "failed"
    BY <2>2, <2>3, FreeOfBuffer, Zenon DEF NoBuffer
  <2>4. CASE exp'[t] # BufLen /\ pc'[t] = "penter"
    <3>1. exp'[t] \in 0 .. BufLen
      BY <2>1, Zenon DEF Located, InBuffer
    <3>2. exp'[t] \in 0 .. BufLen - 1
      BY <1>0, <2>4, <3>1
    <3>3. pc'[t] \notin Cs \cup {"head", "enter"}
      BY <2>4, Zenon DEF Cs, PopCs, PushCs
    <3> QED
      BY <2>2, <2>4, <3>2, <3>3, Zenon DEF OwnBuffer, Cs
  <2> QED
    BY <2>1, <2>3, <2>4, Zenon
<1>4. CASE PushFinal(t)
  <2>1. /\ v' = [v EXCEPT ![idx[t]] = exp[t] + 1] /\ array' = array /\ pc'[t] \in {"start", "done"}
        /\ pc[t] = "pfinal" /\ item' = [item EXCEPT ![t] = Two(NULL)]
    BY <1>4, Zenon DEF PushFinal, At, Again, Set, Shaped
  <2>2. exp[t] \in 0 .. BufLen - 1
    BY <2>1, Zenon DEF OwnBuffer, PushCs
  <2>3. exp[t] + 1 \in 0 .. BufLen
    BY <1>0, <2>2
  <2>4. Two(NULL) \in Pair
    BY DEF Two, Pair, NULL
  <2>5. InBuffer'
    BY <2>1, <2>3, <2>4, Zenon DEF InBuffer
  <2> QED
    BY <2>1, <2>5, FreeOfBuffer, Zenon DEF NoBuffer
<1> QED
  BY <1>1, <1>2, <1>3, <1>4, Zenon

\* A location of a helper whose index and offset are those of the loop.
LEMMA OffsetHeld ==
    ASSUME Shaped, InBuffer, NEW t \in Thread, Located(t), OwnBuffer(t), pc[t] \in Cs
    PROVE  /\ idx[t] \in Cpu /\ array[idx[t]] \in [1 .. BufLen -> Pair]
           /\ pc[t] \in PopCs => exp[t] \in 1 .. BufLen /\ array[idx[t]][exp[t]] \in Pair
           /\ pc[t] \in PushCs => /\ exp[t] \in 0 .. BufLen - 1 /\ exp[t] + 1 \in 1 .. BufLen
                                  /\ array[idx[t]][exp[t] + 1] \in Pair
<1>1. idx[t] \in Cpu
  BY Zenon DEF Located, Cs, PopCs, PushCs
<1>2. array[idx[t]] \in [1 .. BufLen -> Pair]
  BY <1>1, Zenon DEF InBuffer
<1>3. ASSUME pc[t] \in PopCs PROVE exp[t] \in 1 .. BufLen /\ array[idx[t]][exp[t]] \in Pair
  BY <1>2, <1>3, Zenon DEF OwnBuffer
<1>4. ASSUME pc[t] \in PushCs PROVE exp[t] \in 0 .. BufLen - 1 /\ exp[t] + 1 \in 1 .. BufLen
  <2>1. exp[t] \in 0 .. BufLen - 1
    BY <1>4, Zenon DEF OwnBuffer
  <2> QED
    BY <2>1, Sizes
<1>5. ASSUME pc[t] \in PushCs PROVE array[idx[t]][exp[t] + 1] \in Pair
  BY <1>2, <1>4, <1>5, Zenon
<1> QED
  BY <1>1, <1>2, <1>3, <1>4, <1>5, Zenon

\* The pop of a pointer, compared with the one that was read.
LEMMA BufferPopStep ==
    ASSUME Shaped, Buffers, InBuffer, NEW t \in Thread, Located(t), OwnBuffer(t), this_cpu_buffer_pop(t)
    PROVE  OwnBuffer(t)' /\ InBuffer'
<1>1. CASE PopOffset(t) \/ PopFinal(t)
  BY <1>1, OffsetStep, Zenon
<1>2. CASE pc[t] = "head"
  <2>1. /\ UNCHANGED <<v, array, idx, exp>> /\ item' = [item EXCEPT ![t] = array[idx[t]][exp[t]]]
        /\ pc'[t] = "enter"
    BY <1>2, Zenon DEF this_cpu_buffer_pop, PopOffset, PopFinal, At, Goto, Set, Shaped, shared
  <2>2. exp[t] \in 1 .. BufLen /\ idx[t] \in Cpu
    BY <1>2, Zenon DEF OwnBuffer, Located
  <2>3. InBuffer'
    BY <2>1, <2>2, Zenon DEF InBuffer
  <2>4. pc'[t] \notin Cs \cup {"penter"}
    BY <2>1, Zenon DEF Cs, PopCs, PushCs
  <2> QED
    BY <2>1, <2>2, <2>3, <2>4, Zenon DEF OwnBuffer, Cs
<1>3. CASE ~(PopOffset(t) \/ PopFinal(t)) /\ pc[t] # "head"
  <2>1. /\ UNCHANGED <<v, array, idx, exp, item>> /\ pc[t] \in {"load", "load2"}
        /\ \/ pc'[t] = "start"
           \/ pc[t] = "load" /\ pc'[t] = "load2" /\ v[idx[t]] = exp[t]
           \/ pc[t] = "load2" /\ pc'[t] = "final" /\ array[idx[t]][exp[t]] = item[t]
    BY <1>3, Zenon DEF this_cpu_buffer_pop, At, Goto, Shaped, shared, locals
  <2>2. InBuffer'
    BY <2>1, Zenon DEF InBuffer
  <2>3. CASE pc'[t] = "start"
    BY <2>2, <2>3, FreeOfBuffer, Zenon DEF NoBuffer
  <2>4. CASE pc'[t] # "start"
    <3>1. /\ exp'[t] \in 1 .. BufLen /\ v'[idx'[t]] = exp'[t]
          /\ pc'[t] \in {"load2", "final"} /\ (pc'[t] = "final" => item'[t] = array'[idx'[t]][exp'[t]])
      BY <2>1, <2>4, Zenon DEF OwnBuffer, Cs, PopCs
    <3>2. pc'[t] \notin PushCs \cup {"penter", "copy2", "pcopy2", "pfinal"}
      BY <3>1, Zenon DEF PushCs
    <3> QED
      BY <2>2, <3>1, <3>2, Zenon DEF OwnBuffer
  <2> QED
    BY <2>3, <2>4, Zenon
<1> QED
  BY <1>1, <1>2, <1>3, Zenon

\* The push of a pointer above the offset, and then the offset.
LEMMA BufferPushStep ==
    ASSUME Shaped, Buffers, InBuffer, NEW t \in Thread, Located(t), OwnBuffer(t), this_cpu_buffer_push(t)
    PROVE  OwnBuffer(t)' /\ InBuffer'
<1>1. CASE PushOffset(t) \/ PushFinal(t)
  BY <1>1, OffsetStep, Zenon
<1>2. CASE ~(PushOffset(t) \/ PushFinal(t)) /\ pc[t] = "pload"
  <2>1. /\ UNCHANGED <<v, array, idx, exp, item>>
        /\ pc'[t] = "push" \/ (pc'[t] = "spec" /\ v[idx[t]] = exp[t])
    BY <1>2, Zenon DEF this_cpu_buffer_push, At, Goto, Shaped, shared, locals
  <2>2. InBuffer'
    BY <2>1, Zenon DEF InBuffer
  <2>3. CASE pc'[t] = "push"
    BY <2>2, <2>3, FreeOfBuffer, Zenon DEF NoBuffer
  <2>4. CASE pc'[t] = "spec" /\ v[idx[t]] = exp[t]
    <3>1. exp'[t] \in 0 .. BufLen - 1 /\ v'[idx'[t]] = exp'[t]
      BY <1>2, <2>1, <2>4, Zenon DEF OwnBuffer, PushCs
    <3>2. pc'[t] \notin PopCs \cup {"head", "enter", "copy2", "final", "pcopy2", "pfinal"}
      BY <2>4, Zenon DEF PopCs
    <3> QED
      BY <2>2, <3>1, <3>2, Zenon DEF OwnBuffer
  <2> QED
    BY <2>1, <2>3, <2>4, Zenon
<1>3. CASE ~(PushOffset(t) \/ PushFinal(t)) /\ pc[t] # "pload"
  <2>1. /\ UNCHANGED <<v, idx, exp, item>> /\ pc[t] = "spec" /\ pc'[t] = "pfinal"
        /\ array' = [array EXCEPT ![idx[t]][exp[t] + 1] = item[t]]
    BY <1>3, Zenon DEF this_cpu_buffer_push, At, Goto, Shaped, locals
  <2>2. pc[t] \in Cs /\ pc[t] \in PushCs /\ pc[t] \in Cs \ {"load", "pload"}
    BY <2>1, Zenon DEF Cs, PushCs
  <2>3. /\ idx[t] \in Cpu /\ exp[t] + 1 \in 1 .. BufLen /\ exp[t] \in 0 .. BufLen - 1 /\ v[idx[t]] = exp[t]
    BY <2>2, OffsetHeld, Zenon DEF OwnBuffer
  <2>4. array \in [Cpu -> [1 .. BufLen -> Pair]] /\ item[t] \in Pair
    BY Zenon DEF InBuffer
  <2>5. array'[idx[t]][exp[t] + 1] = item[t] /\ array' \in [Cpu -> [1 .. BufLen -> Pair]]
    <3>1. [array[idx[t]] EXCEPT ![exp[t] + 1] = item[t]] \in [1 .. BufLen -> Pair]
      BY <2>3, <2>4, Zenon
    <3>2. array' = [array EXCEPT ![idx[t]] = [array[idx[t]] EXCEPT ![exp[t] + 1] = item[t]]]
      BY <2>1, Zenon
    <3>3. array' \in [Cpu -> [1 .. BufLen -> Pair]]
      BY <2>3, <2>4, <3>1, <3>2, Zenon
    <3>4. array'[idx[t]] = [array[idx[t]] EXCEPT ![exp[t] + 1] = item[t]]
      BY <2>3, <2>4, <3>2, Zenon
    <3> QED
      BY <2>3, <2>4, <3>3, <3>4, Zenon
  <2>6. InBuffer'
    BY <2>1, <2>5, Zenon DEF InBuffer
  <2>7. pc'[t] \notin PopCs \cup {"head", "enter", "copy2", "final", "pcopy2"}
    BY <2>1, Zenon DEF PopCs
  <2>8. /\ exp'[t] \in 0 .. BufLen - 1 /\ v'[idx'[t]] = exp'[t]
        /\ item'[t] = array'[idx'[t]][exp'[t] + 1]
    BY <2>1, <2>3, <2>5, Zenon
  <2> QED
    BY <2>6, <2>7, <2>8, Zenon DEF OwnBuffer
<1> QED
  BY <1>1, <1>2, <1>3, Zenon

\* Two pairs with the same words are the same.
LEMMA PairsEqual ==
    ASSUME NEW a \in Pair, NEW b \in Pair, a[1] = b[1], a[2] = b[2] PROVE a = b
BY DEF Pair

\* The pop of an item, copied word by word out of the buffer.
LEMMA MemcpyPopStep ==
    ASSUME Shaped, Buffers, InBuffer, NEW t \in Thread, Located(t), OwnBuffer(t),
           this_cpu_memcpy_buffer_pop(t)
    PROVE  OwnBuffer(t)' /\ InBuffer'
<1>1. CASE PopOffset(t) \/ PopFinal(t)
  BY <1>1, OffsetStep, Zenon
<1>2. CASE ~(PopOffset(t) \/ PopFinal(t)) /\ pc[t] = "load"
  <2>1. /\ UNCHANGED <<v, array, idx, exp, item>>
        /\ pc'[t] = "start" \/ (pc'[t] = "copy1" /\ v[idx[t]] = exp[t])
    <3>1. ASSUME NEW w \in {1, 2}, pc[t] = IF w = 1 THEN "copy1" ELSE "copy2" PROVE FALSE
      BY <1>2, <3>1, Zenon
    <3> QED
      BY <1>2, <3>1, Zenon DEF this_cpu_memcpy_buffer_pop, At, Goto, Shaped, shared, locals
  <2>2. InBuffer'
    BY <2>1, Zenon DEF InBuffer
  <2>3. CASE pc'[t] = "start"
    BY <2>2, <2>3, FreeOfBuffer, Zenon DEF NoBuffer
  <2>4. CASE pc'[t] = "copy1" /\ v[idx[t]] = exp[t]
    <3>1. exp'[t] \in 1 .. BufLen /\ v'[idx'[t]] = exp'[t]
      BY <1>2, <2>1, <2>4, Zenon DEF OwnBuffer, PopCs
    <3>2. pc'[t] \notin PushCs \cup {"penter", "copy2", "final", "pcopy2", "pfinal"}
      BY <2>4, Zenon DEF PushCs
    <3> QED
      BY <2>2, <3>1, <3>2, Zenon DEF OwnBuffer
  <2> QED
    BY <2>1, <2>3, <2>4, Zenon
<1>3. CASE ~(PopOffset(t) \/ PopFinal(t)) /\ pc[t] # "load"
  <2>1. PICK w \in {1, 2} :
            /\ pc[t] = IF w = 1 THEN "copy1" ELSE "copy2"
            /\ item' = [item EXCEPT ![t][w] = array[idx[t]][exp[t]][w]]
            /\ pc'[t] = IF w = 1 THEN "copy2" ELSE "final"
            /\ UNCHANGED <<v, array, idx, exp>>
    BY <1>3, Zenon DEF this_cpu_memcpy_buffer_pop, At, Goto, Shaped, shared
  <2>2. /\ pc[t] \in Cs /\ pc[t] \in PopCs /\ pc[t] \in Cs \ {"load", "pload"} /\ pc'[t] \in {"copy2", "final"}
        /\ pc[t] = "copy2" <=> w # 1
    BY <2>1, Zenon DEF Cs, PopCs
  <2>3. /\ idx[t] \in Cpu /\ exp[t] \in 1 .. BufLen /\ array[idx[t]][exp[t]] \in Pair /\ v[idx[t]] = exp[t]
        /\ w # 1 => item[t][1] = array[idx[t]][exp[t]][1]
    BY <2>2, OffsetHeld, Zenon DEF OwnBuffer
  <2>4. item \in [Thread -> Pair] /\ item[t] \in Pair
    BY Zenon DEF InBuffer
  <2>5. /\ item'[t] = [item[t] EXCEPT ![w] = array[idx[t]][exp[t]][w]]
        /\ item' = [item EXCEPT ![t] = [item[t] EXCEPT ![w] = array[idx[t]][exp[t]][w]]]
    BY <2>1, <2>4, Zenon
  <2>6. [item[t] EXCEPT ![w] = array[idx[t]][exp[t]][w]] \in Pair
    BY <2>3, <2>4, Zenon DEF Pair
  <2>7. item' \in [Thread -> Pair]
    BY <2>4, <2>5, <2>6, Zenon
  <2>8. InBuffer'
    BY <2>1, <2>7, Zenon DEF InBuffer
  <2>9. item'[t][w] = array[idx[t]][exp[t]][w] /\ (w # 1 => item'[t][1] = item[t][1])
    BY <2>4, <2>5 DEF Pair
  <2>10. CASE w = 1
    <3>1. /\ exp'[t] \in 1 .. BufLen /\ v'[idx'[t]] = exp'[t] /\ pc'[t] = "copy2"
          /\ item'[t][1] = array'[idx'[t]][exp'[t]][1]
      BY <2>1, <2>3, <2>9, <2>10, Zenon
    <3>2. pc'[t] \notin PushCs \cup {"penter", "final", "pcopy2", "pfinal"}
      BY <3>1, Zenon DEF PushCs
    <3> QED
      BY <2>8, <3>1, <3>2, Zenon DEF OwnBuffer
  <2>11. CASE w = 2
    <3>1. item'[t] = array[idx[t]][exp[t]]
      <4>1. item'[t] \in Pair
        BY <2>5, <2>6, Zenon
      <4>2. w # 1
        BY <2>11
      <4>3. item'[t][1] = array[idx[t]][exp[t]][1] /\ item'[t][2] = array[idx[t]][exp[t]][2]
        BY <2>3, <2>9, <2>11, <4>2, Zenon
      <4> QED
        BY <2>3, <4>1, <4>3, PairsEqual, Zenon
    <3>2. /\ exp'[t] \in 1 .. BufLen /\ v'[idx'[t]] = exp'[t] /\ pc'[t] = "final"
          /\ item'[t] = array'[idx'[t]][exp'[t]]
      BY <2>1, <2>3, <2>11, <3>1
    <3>3. pc'[t] \notin PushCs \cup {"penter", "copy2", "pcopy2", "pfinal"}
      BY <3>2, Zenon DEF PushCs
    <3> QED
      BY <2>8, <3>2, <3>3, Zenon DEF OwnBuffer
  <2> QED
    BY <2>1, <2>10, <2>11, Zenon
<1> QED
  BY <1>1, <1>2, <1>3, Zenon

\* The push of an item, copied word by word above the offset.
LEMMA MemcpyPushStep ==
    ASSUME Shaped, Buffers, InBuffer, NEW t \in Thread, Located(t), OwnBuffer(t),
           this_cpu_memcpy_buffer_push(t)
    PROVE  OwnBuffer(t)' /\ InBuffer'
<1>1. CASE PushOffset(t) \/ PushFinal(t)
  BY <1>1, OffsetStep, Zenon
<1>2. CASE ~(PushOffset(t) \/ PushFinal(t)) /\ pc[t] = "pload"
  <2>1. /\ UNCHANGED <<v, array, idx, exp, item>>
        /\ pc'[t] = "push" \/ (pc'[t] = "pcopy1" /\ v[idx[t]] = exp[t])
    <3>1. ASSUME NEW w \in {1, 2}, pc[t] = IF w = 1 THEN "pcopy1" ELSE "pcopy2" PROVE FALSE
      BY <1>2, <3>1, Zenon
    <3> QED
      BY <1>2, <3>1, Zenon DEF this_cpu_memcpy_buffer_push, At, Goto, Shaped, shared, locals
  <2>2. InBuffer'
    BY <2>1, Zenon DEF InBuffer
  <2>3. CASE pc'[t] = "push"
    BY <2>2, <2>3, FreeOfBuffer, Zenon DEF NoBuffer
  <2>4. CASE pc'[t] = "pcopy1" /\ v[idx[t]] = exp[t]
    <3>1. exp'[t] \in 0 .. BufLen - 1 /\ v'[idx'[t]] = exp'[t]
      BY <1>2, <2>1, <2>4, Zenon DEF OwnBuffer, PushCs
    <3>2. pc'[t] \notin PopCs \cup {"head", "enter", "copy2", "final", "pcopy2", "pfinal"}
      BY <2>4, Zenon DEF PopCs
    <3> QED
      BY <2>2, <3>1, <3>2, Zenon DEF OwnBuffer
  <2> QED
    BY <2>1, <2>3, <2>4, Zenon
<1>3. CASE ~(PushOffset(t) \/ PushFinal(t)) /\ pc[t] # "pload"
  <2>1. PICK w \in {1, 2} :
            /\ pc[t] = IF w = 1 THEN "pcopy1" ELSE "pcopy2"
            /\ array' = [array EXCEPT ![idx[t]][exp[t] + 1][w] = item[t][w]]
            /\ pc'[t] = IF w = 1 THEN "pcopy2" ELSE "pfinal"
            /\ UNCHANGED <<v, idx, exp, item>>
    BY <1>3, Zenon DEF this_cpu_memcpy_buffer_push, At, Goto, Shaped, locals
  <2>2. /\ pc[t] \in Cs /\ pc[t] \in PushCs /\ pc[t] \in Cs \ {"load", "pload"}
        /\ pc[t] = "pcopy2" <=> w # 1
    BY <2>1, Zenon DEF Cs, PushCs
  <2> DEFINE old == array[idx[t]][exp[t] + 1]
             new == [old EXCEPT ![w] = item[t][w]]
             row == [array[idx[t]] EXCEPT ![exp[t] + 1] = new]
  <2>3. /\ idx[t] \in Cpu /\ exp[t] \in 0 .. BufLen - 1 /\ exp[t] + 1 \in 1 .. BufLen
        /\ old \in Pair /\ v[idx[t]] = exp[t]
        /\ w # 1 => item[t][1] = old[1]
    BY <2>2, OffsetHeld, Zenon DEF OwnBuffer
  <2>4. array \in [Cpu -> [1 .. BufLen -> Pair]] /\ item[t] \in Pair
    BY Zenon DEF InBuffer
  <2>5. array' = [array EXCEPT ![idx[t]] = row]
    BY <2>1, Zenon
  <2>6. new \in Pair
    BY <2>3, <2>4, Zenon DEF Pair
  <2>7. row \in [1 .. BufLen -> Pair] /\ row[exp[t] + 1] = new
    <3> HIDE DEF new
    <3> QED
      BY <2>3, <2>4, <2>6, Zenon
  <2>8. array' \in [Cpu -> [1 .. BufLen -> Pair]] /\ array'[idx[t]][exp[t] + 1] = new
    <3> HIDE DEF row, new
    <3> QED
      BY <2>3, <2>4, <2>5, <2>7, Zenon
  <2>9. InBuffer'
    BY <2>1, <2>8, Zenon DEF InBuffer
  <2>10. new[w] = item[t][w] /\ (w # 1 => new[1] = old[1])
    <3> HIDE DEF old
    <3> QED
      BY <2>3, <2>4 DEF Pair
  <2>11. CASE w = 1
    <3>1. /\ exp'[t] \in 0 .. BufLen - 1 /\ v'[idx'[t]] = exp'[t] /\ pc'[t] = "pcopy2"
          /\ item'[t][1] = array'[idx'[t]][exp'[t] + 1][1]
      <4> HIDE DEF new
      <4> QED
        BY <2>1, <2>3, <2>8, <2>10, <2>11, Zenon
    <3>2. pc'[t] \notin PopCs \cup {"head", "enter", "copy2", "final", "pfinal"}
      BY <3>1, Zenon DEF PopCs
    <3> QED
      BY <2>9, <3>1, <3>2, Zenon DEF OwnBuffer
  <2>12. CASE w = 2
    <3> HIDE DEF new, old
    <3>1. new = item[t]
      BY <2>3, <2>4, <2>6, <2>10, <2>12, PairsEqual
    <3>2. pc'[t] = "pfinal"
      BY <2>1, <2>12
    <3>3. /\ exp'[t] \in 0 .. BufLen - 1 /\ v'[idx'[t]] = exp'[t]
          /\ item'[t] = array'[idx'[t]][exp'[t] + 1]
      BY <2>1, <2>3, <2>8, <3>1, Zenon
    <3>4. pc'[t] \notin PopCs \cup {"head", "enter", "copy2", "final", "pcopy2"}
      BY <3>2, Zenon DEF PopCs
    <3> QED
      BY <2>9, <3>3, <3>4, Zenon DEF OwnBuffer
  <2> QED
    BY <2>1, <2>11, <2>12, Zenon
<1> QED
  BY <1>1, <1>2, <1>3, Zenon

\* A step of a thread keeps the buffers and what it knows of one.
LEMMA OwnBufferStep ==
    ASSUME Shaped, Buffers, InBuffer, NEW t \in Thread, Located(t), OwnBuffer(t), Step(t)
    PROVE  OwnBuffer(t)' /\ InBuffer'
<1>1. CASE ReadIndex(t)
  <2>1. UNCHANGED <<v, array, item>> /\ pc'[t] \in {"offset", "expect"}
    BY <1>1, Zenon DEF ReadIndex, At, Goto, Shaped, shared, Buffers
  <2>2. pc'[t] \in NoBuffer /\ InBuffer'
    BY <2>1, Zenon DEF NoBuffer, InBuffer
  <2> QED
    BY <2>2, FreeOfBuffer, Zenon
<1>2. CASE Enter(t)
  <2>1. /\ UNCHANGED <<v, array, item, idx, exp>>
        /\ \/ pc'[t] \in {"start", "push"}
           \/ pc[t] = "enter" /\ pc'[t] = "load"
           \/ pc[t] = "penter" /\ pc'[t] = "pload"
    BY <1>2, Zenon DEF Enter, At, Goto, Shaped, shared, locals
  <2>2. InBuffer'
    BY <2>1, Zenon DEF InBuffer
  <2>3. CASE pc'[t] \in {"start", "push"}
    BY <2>2, <2>3, FreeOfBuffer, Zenon DEF NoBuffer
  <2>4. CASE pc[t] = "enter" /\ pc'[t] = "load"
    <3>1. exp'[t] \in 1 .. BufLen
      BY <2>1, <2>4, Zenon DEF OwnBuffer
    <3>2. pc'[t] \notin PushCs \cup {"penter", "copy2", "final", "pcopy2", "pfinal"} \cup (Cs \ {"load", "pload"})
      BY <2>4, Zenon DEF PushCs
    <3> QED
      BY <2>2, <3>1, <3>2, Zenon DEF OwnBuffer
  <2>5. CASE pc[t] = "penter" /\ pc'[t] = "pload"
    <3>1. exp'[t] \in 0 .. BufLen - 1
      BY <2>1, <2>5, Zenon DEF OwnBuffer
    <3>2. pc'[t] \notin PopCs \cup {"head", "enter", "copy2", "final", "pcopy2", "pfinal"} \cup (Cs \ {"load", "pload"})
      BY <2>5, Zenon DEF PopCs
    <3> QED
      BY <2>2, <3>1, <3>2, Zenon DEF OwnBuffer
  <2> QED
    BY <2>1, <2>3, <2>4, <2>5, Zenon
<1>3. CASE test_percpu_spinlock_thread(t)
  <2>1. UNCHANGED <<v, array, item>> /\ pc'[t] \in {"add", "check"}
    BY <1>3, Zenon DEF test_percpu_spinlock_thread, At, Goto, Shaped, shared, locals
  <2>2. pc'[t] \in NoBuffer /\ InBuffer'
    BY <2>1, Zenon DEF NoBuffer, InBuffer
  <2> QED
    BY <2>2, FreeOfBuffer, Zenon
<1>4. ~(rseq_this_cpu_lock(t) \/ rseq_percpu_unlock(t) \/ test_percpu_inc_thread(t)
        \/ this_cpu_list_pop(t) \/ this_cpu_list_push(t))
  BY Zenon DEF rseq_this_cpu_lock, rseq_percpu_unlock, test_percpu_inc_thread, this_cpu_list_pop,
       this_cpu_list_push, Buffers
<1> QED
  BY <1>1, <1>2, <1>3, <1>4, BufferPopStep, BufferPushStep, MemcpyPopStep, MemcpyPushStep, Zenon DEF Step

\* A step of a thread keeps the whole.
LEMMA FinalStep == ASSUME FinalInv, NEW t \in Thread, Step(t) PROVE FinalInv'
<1>1. Shaped /\ CpusDistinct /\ \A u \in Thread : Located(u)
  BY Zenon DEF FinalInv
<1>2. Effects(t)
  BY <1>1, StepEffects, Zenon
<1>3. Shaped' /\ cpu' = cpu /\ test' = test
  BY <1>2, Zenon DEF Effects
<1>4. CpusDistinct'
  BY <1>1, <1>3, Zenon DEF CpusDistinct
<1>5. \A u \in Thread : Located(u)'
  BY <1>1, <1>2, LocatedKept, Zenon
<1>6. ASSUME Counting PROVE \A u \in Thread : OwnCount(u)'
  BY <1>1, <1>2, <1>6, CountKept, Zenon DEF FinalInv
<1>7. ASSUME test = "list" PROVE Separate' /\ \A u \in Thread : OwnList(u)'
  <2>1. Separate /\ \A u \in Thread : Located(u) /\ OwnList(u)
    BY <1>1, <1>7, Zenon DEF FinalInv
  <2>2. Separate'
    BY <1>1, <1>2, <1>7, <2>1, SeparateStep, Zenon
  <2>3. OwnList(t)'
    BY <1>1, <1>2, <1>7, <2>1, OwnListStep, Zenon
  <2>4. ASSUME NEW u \in Thread, u # t PROVE OwnList(u)'
    BY <1>1, <1>2, <1>7, <2>1, <2>4, OthersList, Zenon
  <2> QED
    BY <2>2, <2>3, <2>4, Zenon
<1>8. ASSUME Buffers PROVE InBuffer' /\ \A u \in Thread : OwnBuffer(u)'
  <2>1. InBuffer /\ \A u \in Thread : Located(u) /\ OwnBuffer(u)
    BY <1>1, <1>8, Zenon DEF FinalInv
  <2>2. InBuffer' /\ OwnBuffer(t)'
    BY <1>1, <1>8, <2>1, OwnBufferStep, Zenon
  <2>3. ASSUME NEW u \in Thread, u # t PROVE OwnBuffer(u)'
    BY <1>1, <1>2, <1>8, <2>1, <2>3, OthersBuffer, Zenon
  <2> QED
    BY <2>2, <2>3, Zenon
<1>9. (Counting' <=> Counting) /\ (Buffers' <=> Buffers)
  BY <1>3, Zenon DEF Counting, Buffers
<1> QED
  BY <1>3, <1>4, <1>5, <1>6, <1>7, <1>8, <1>9, Zenon DEF FinalInv

\* A thread that goes on where it was, or at the head of its loop.
Resumed(u) ==
    \/ pc'[u] = pc[u] /\ (pc[u] \in Cs => cpu'[u] = cpu[u])
    \/ pc'[u] = "start"
    \/ pc'[u] = "push" /\ pc[u] \in Pushing

\* What a thread knows holds at the head of the loop, where it knows nothing.
LEMMA FinalResumed ==
    ASSUME FinalInv, Shaped', CpusDistinct', UNCHANGED <<test, shared, locals>>,
           \A u \in Thread : Resumed(u)
    PROVE  FinalInv'
<1>1. UNCHANGED <<test, v, next, array, idx, exp, val, item>>
  BY Zenon DEF shared, locals
<1>2. ASSUME NEW u \in Thread PROVE Located(u)'
  <2>1. Located(u) /\ Resumed(u)
    BY <1>2, Zenon DEF FinalInv
  <2>2. CASE pc'[u] \in {"start", "push"}
    <3>1. pc'[u] \notin Cs
      BY <2>2, Zenon DEF Cs, PopCs, PushCs
    <3>2. pc'[u] # "start" => pc[u] # "start"
      BY <2>1, <2>2, Zenon DEF Resumed, Pushing, PushCs
    <3> QED
      BY <1>1, <2>1, <3>1, <3>2, Zenon DEF Located
  <2>3. CASE pc'[u] = pc[u] /\ (pc[u] \in Cs => cpu'[u] = cpu[u])
    BY <1>1, <2>1, <2>3, Zenon DEF Located
  <2> QED
    BY <2>1, <2>2, <2>3, Zenon DEF Resumed
<1>3. ASSUME Counting, NEW u \in Thread PROVE OwnCount(u)'
  <2>1. OwnCount(u) /\ Resumed(u)
    BY <1>3, Zenon DEF FinalInv
  <2>2. pc'[u] = "start" \/ pc'[u] = pc[u]
    BY <2>1, Zenon DEF OwnCount, Resumed
  <2>3. "start" \notin Pushing
    BY Zenon DEF Pushing, PushCs
  <2> QED
    BY <1>1, <2>1, <2>2, <2>3, Zenon DEF OwnCount
<1>4. ASSUME test = "list" PROVE Separate' /\ \A u \in Thread : OwnList(u)'
  <2>1. PICK home \in [Node -> Cpu \cup {Off}] : Homes(home)
    BY <1>4, Zenon DEF FinalInv, Separate
  <2>2. ASSUME NEW u \in Thread, pc'[u] \in Pushing PROVE pc[u] \in Pushing /\ item'[u] = item[u]
    <3>1. Resumed(u) /\ pc'[u] # "start"
      BY <2>2, Zenon DEF Pushing, PushCs
    <3> QED
      BY <1>1, <2>2, <3>1, Zenon DEF Resumed
  <2>3. Homes(home)'
    BY <1>1, <2>1, <2>2, HomesSame, Zenon
  <2>4. Separate'
    BY <2>3, Zenon DEF Separate, Node, BufLen, NrCpus
  <2>5. ASSUME NEW u \in Thread PROVE OwnList(u)'
    <3>1. OwnList(u) /\ Resumed(u)
      BY <1>4, <2>5, Zenon DEF FinalInv
    <3> QED
      BY <1>1, <3>1, Zenon DEF OwnList, Resumed
  <2> QED
    BY <2>4, <2>5, Zenon
<1>5. ASSUME Buffers PROVE InBuffer' /\ \A u \in Thread : OwnBuffer(u)'
  <2>1. InBuffer'
    BY <1>1, <1>5, Zenon DEF FinalInv, InBuffer
  <2>2. ASSUME NEW u \in Thread PROVE OwnBuffer(u)'
    <3>1. OwnBuffer(u) /\ Resumed(u)
      BY <1>5, <2>2, Zenon DEF FinalInv
    <3>2. CASE pc'[u] \in {"start", "push"}
      BY <2>2, <3>2, FreeOfBuffer, Zenon DEF NoBuffer
    <3>3. CASE pc'[u] = pc[u]
      BY <1>1, <3>1, <3>3, Zenon DEF OwnBuffer
    <3> QED
      BY <3>1, <3>2, <3>3, Zenon DEF Resumed
  <2> QED
    BY <2>1, <2>2, Zenon
<1>6. (Counting' <=> Counting) /\ (Buffers' <=> Buffers)
  BY <1>1, Zenon DEF Counting, Buffers
<1> QED
  BY <1>1, <1>2, <1>3, <1>4, <1>5, <1>6, Zenon DEF FinalInv

\* The scheduler keeps the invariant: a thread in a critical section that loses
\* its CPU goes on at the abort handler, and one without a CPU is in none.
LEMMA FinalScheduled ==
    ASSUME FinalInv, NEW t \in Thread, Preempt(t) \/ Schedule(t) PROVE FinalInv'
<1>0. Shaped /\ CpusDistinct /\ \A u \in Thread : Located(u)
  BY Zenon DEF FinalInv
<1>1. CASE Preempt(t)
  <2>1. cpu' = [cpu EXCEPT ![t] = Off] /\ UNCHANGED <<test, shared, locals>>
    BY <1>1, Zenon DEF Preempt, Set
  <2>2. PICK l \in Resumes(pc[t]) : pc' = [pc EXCEPT ![t] = l]
    BY <1>1, Zenon DEF Preempt, Set
  <2>3. \/ l = pc[t] /\ pc[t] \notin Cs
        \/ l = "start"
        \/ l = "push" /\ pc[t] \in Pushing
    BY <2>2, Zenon DEF Resumes, Cs, Pushing
  <2>4. \A u \in Thread : Resumed(u)
    BY <1>0, <2>1, <2>2, <2>3, Zenon DEF Resumed, Shaped
  <2>5. Shaped' /\ CpusDistinct'
    BY <1>0, <2>1, <2>2, Zenon DEF Shaped, CpusDistinct, shared, locals, Node, BufLen, NrCpus
  <2> QED
    BY <2>1, <2>4, <2>5, FinalResumed, Zenon
<1>2. CASE Schedule(t)
  <2>1. cpu[t] = Off /\ pc' = pc /\ UNCHANGED <<test, shared, locals>>
    BY <1>2, Zenon DEF Schedule, Set
  <2>2. PICK c \in Cpu \ {cpu[u] : u \in Thread} : cpu' = [cpu EXCEPT ![t] = c]
    BY <1>2, Zenon DEF Schedule, Set
  <2>3. pc[t] \notin Cs
    <3>1. ASSUME pc[t] \in Cs PROVE cpu[t] \in Cpu
      BY <1>0, <3>1, Zenon DEF Located, Cs, PopCs, PushCs
    <3>2. Off \notin Cpu
      BY ClientAssumption DEF Off
    <3> QED
      BY <2>1, <3>1, <3>2, Zenon
  <2>4. \A u \in Thread : Resumed(u)
    BY <1>0, <2>1, <2>2, <2>3, Zenon DEF Resumed, Shaped
  <2>5. Shaped' /\ CpusDistinct'
    BY <1>0, <2>1, <2>2, Zenon DEF Shaped, CpusDistinct, shared, locals, Node, BufLen, NrCpus
  <2> QED
    BY <2>1, <2>4, <2>5, FinalResumed, Zenon
<1> QED
  BY <1>1, <1>2, Zenon

\* Every step keeps the invariant.
LEMMA FinalNext == FinalInv /\ [Next]_vars => FinalInv'
<1> SUFFICES ASSUME FinalInv, [Next]_vars PROVE FinalInv'
  OBVIOUS
<1>1. CASE UNCHANGED vars
  <2>1. UNCHANGED <<test, shared, locals, cpu, pc>>
    BY <1>1, Zenon DEF vars
  <2>2. Shaped' /\ CpusDistinct'
    BY <2>1, Zenon DEF FinalInv, Shaped, CpusDistinct, shared, locals, Node, BufLen, NrCpus
  <2>3. \A u \in Thread : Resumed(u)
    BY <2>1, Zenon DEF Resumed
  <2> QED
    BY <2>1, <2>2, <2>3, FinalResumed, Zenon
<1>2. ASSUME NEW t \in Thread, Step(t) \/ Preempt(t) \/ Schedule(t) PROVE FinalInv'
  BY <1>2, FinalStep, FinalScheduled, Zenon
<1> QED
  BY <1>1, <1>2, Zenon DEF Next, Finished

\* A number has one quotient.
LEMMA Quotient ==
    ASSUME NEW k \in Nat \ {0}, NEW q \in Nat, NEW p \in Nat, NEW r \in 0 .. k - 1, NEW s \in 0 .. k - 1,
           q * k + r = p * k + s
    PROVE  q = p
<1>1. ASSUME NEW a \in Nat, NEW b \in Nat, a < b PROVE a * k + k <= b * k
  <2>1. PICK d \in Nat : b = a + 1 + d
    <3>1. b - a - 1 \in Nat /\ b = a + 1 + (b - a - 1)
      BY <1>1
    <3> QED
      BY <3>1, Zenon
  <2>2. b * k = a * k + k + d * k /\ d * k \in Nat /\ a * k \in Nat
    BY <2>1
  <2> QED
    BY <2>2
<1>2. q * k \in Nat /\ p * k \in Nat
  OBVIOUS
<1>3. CASE q < p
  BY <1>1, <1>2, <1>3
<1>4. CASE p < q
  BY <1>1, <1>2, <1>4
<1> QED
  BY <1>3, <1>4

\* The quotient and the remainder of a node.
LEMMA Divided ==
    ASSUME NEW n \in Nat
    PROVE  /\ n \div Items \in Nat /\ n % Items \in 0 .. Items - 1
           /\ n = (n \div Items) * Items + (n % Items)
BY ClientAssumption

\* The lists the test starts with are separate: the nodes of a CPU are those
\* with its quotient.
LEMMA ListsSeparate == ASSUME Init, test = "list" PROVE Separate
<1> DEFINE Q(n) == (n - 1) \div Items
           home == [n \in Node |-> IF Q(n) \in Cpu THEN Q(n) ELSE Off]
<1>1. Items \in Nat \ {0} /\ Cpu \subseteq Nat /\ BufLen \in Nat
  BY ClientAssumption, Sizes
<1>2. home \in [Node -> Cpu \cup {Off}]
  BY Zenon
<1>3. /\ \A c \in Cpu : v[c] = c * Items + Items /\ v[c] \in Node
      /\ \A n \in Node : next[n] = IF (n - 1) % Items = 0 THEN NULL ELSE n - 1
  BY Sizes, Zenon DEF Init, Counting, NodeOf
<1>4. \A n \in Node : n \in Nat /\ n - 1 \in Nat /\ n <= BufLen
  BY <1>1 DEF Node
<1>5. ASSUME NEW c \in Cpu PROVE v[c] \in Node /\ home[v[c]] = c
  <2>1. c \in Nat /\ v[c] \in Node /\ v[c] - 1 \in Nat
    BY <1>1, <1>3, <1>4, Zenon
  <2>2. Q(v[c]) \in Nat /\ (v[c] - 1) % Items \in 0 .. Items - 1
        /\ v[c] - 1 = Q(v[c]) * Items + ((v[c] - 1) % Items)
    BY <2>1, Divided, Zenon
  <2>3. c * Items + (Items - 1) = Q(v[c]) * Items + ((v[c] - 1) % Items)
    <3>1. v[c] = c * Items + Items /\ c * Items \in Nat
      BY <1>1, <1>3, <2>1
    <3>2. v[c] - 1 = c * Items + (Items - 1)
      BY <1>1, <3>1
    <3> QED
      BY <2>2, <3>2, Zenon
  <2>4. Items - 1 \in 0 .. Items - 1
    BY <1>1
  <2>5. Q(v[c]) = c
    <3>1. PICK q \in Nat, r \in 0 .. Items - 1 : q = Q(v[c]) /\ r = (v[c] - 1) % Items
      BY <2>2, Zenon
    <3>2. c * Items + (Items - 1) = q * Items + r
      BY <2>3, <3>1, Zenon
    <3>3. c = q
      BY <1>1, <2>1, <2>4, <3>2, Quotient, Zenon
    <3> QED
      BY <3>1, <3>3, Zenon
  <2> QED
    BY <2>1, <2>5, Zenon
<1>6. ASSUME NEW n \in Node, home[n] # Off, next[n] # NULL
      PROVE  next[n] \in Node /\ home[next[n]] = home[n] /\ next[n] # v[home[n]]
  <2>1. /\ (n - 1) % Items # 0 /\ next[n] = n - 1 /\ n - 1 # NULL /\ n \in Nat /\ n - 1 \in Nat
        /\ Q(n) \in Cpu /\ home[n] = Q(n) /\ n <= BufLen
    BY <1>3, <1>4, <1>6, Zenon
  <2>2. n - 1 \in Node /\ n - 2 \in Nat /\ (n - 1) - 1 = n - 2
    BY <1>1, <2>1 DEF Node, NULL
  <2>3. /\ Q(n) \in Nat /\ (n - 1) % Items \in 0 .. Items - 1 /\ n - 1 = Q(n) * Items + ((n - 1) % Items)
    BY <2>1, Divided, Zenon
  <2>4. /\ Q(n - 1) \in Nat /\ (n - 2) % Items \in 0 .. Items - 1 /\ n - 2 = Q(n - 1) * Items + ((n - 2) % Items)
    <3>1. Q(n - 1) = (n - 2) \div Items
      BY <2>2, Zenon
    <3> QED
      BY <2>2, <3>1, Divided, Zenon
  <2>5. Q(n - 1) = Q(n)
    <3>1. PICK q \in Nat, r \in 0 .. Items - 1 : q = Q(n) /\ r = (n - 1) % Items
      BY <2>3, Zenon
    <3>2. PICK p \in Nat, s \in 0 .. Items - 1 : p = Q(n - 1) /\ s = (n - 2) % Items
      BY <2>4, Zenon
    <3>3. n - 1 = q * Items + r /\ n - 2 = p * Items + s /\ r # 0
      BY <2>1, <2>3, <2>4, <3>1, <3>2, Zenon
    <3> HIDE DEF Q
    <3>4. r - 1 \in 0 .. Items - 1 /\ q * Items \in Nat /\ p * Items \in Nat
      BY <1>1, <3>3
    <3>5. q * Items + (r - 1) = p * Items + s
      BY <2>1, <3>3, <3>4
    <3>6. q = p
      BY <1>1, <3>4, <3>5, Quotient
    <3> QED
      BY <3>1, <3>2, <3>6, Zenon
  <2>6. home[n - 1] = home[n]
    BY <2>1, <2>2, <2>5, Zenon
  <2>7. n - 1 # v[home[n]]
    <3>1. v[home[n]] = Q(n) * Items + Items
      BY <1>3, <2>1, Zenon
    <3> HIDE DEF Q
    <3>2. Q(n) * Items \in Nat
      BY <1>1, <2>3
    <3> QED
      BY <1>1, <2>3, <3>1, <3>2
  <2> QED
    BY <2>1, <2>2, <2>6, <2>7, Zenon
<1>7. ASSUME NEW m \in Node, NEW n \in Node, next[m] = next[n], next[m] # NULL PROVE m = n
  <2>1. m - 1 = n - 1 /\ m \in Nat /\ n \in Nat
    BY <1>3, <1>4, <1>7, Zenon
  <2> QED
    BY <2>1
<1>8. \A t \in Thread : pc[t] \notin Pushing
  BY Zenon DEF Init, Pushing, PushCs
<1>9. Homes(home)
  <2> HIDE DEF home
  <2> QED
    BY <1>5, <1>6, <1>7, <1>8, Zenon DEF Homes
<1> QED
  BY <1>2, <1>9, Zenon DEF Separate

\* The program starts in the invariant.
LEMMA FinalInit == Init => FinalInv
<1> SUFFICES ASSUME Init PROVE FinalInv
  OBVIOUS
<1>1. Shaped /\ CpusDistinct
  BY Zenon DEF Init, Shaped, CpusDistinct
<1>2. \A t \in Thread : pc[t] = "start"
  BY Zenon DEF Init
<1>3. "start" \notin Cs \cup Pushing \cup {"head", "enter", "penter"}
  BY Zenon DEF Cs, PopCs, PushCs, Pushing
<1>4. \A t \in Thread : Located(t)
  BY <1>2, <1>3, Zenon DEF Located
<1>5. \A t \in Thread : OwnCount(t) /\ OwnList(t)
  BY <1>2, <1>3, Zenon DEF OwnCount, OwnList
<1>6. \A t \in Thread : OwnBuffer(t)
  BY <1>2, <1>3, Zenon DEF OwnBuffer, Cs
<1>7. ASSUME Buffers PROVE InBuffer
  <2>1. ASSUME NEW n \in Int PROVE Two(n) \in Pair
    BY DEF Two, Pair
  <2>2. Items \in 0 .. BufLen /\ BufLen \in Nat
    BY Sizes, ClientAssumption
  <2>3. ASSUME NEW c \in Cpu, NEW i \in 1 .. BufLen
        PROVE  (IF i <= Items THEN Two(NodeOf(c, i)) ELSE Two(NULL)) \in Pair
    <3>1. NodeOf(c, i) \in Int /\ NULL \in Int
      BY <2>2, ClientAssumption DEF NodeOf, NULL
    <3> QED
      BY <2>1, <3>1, Zenon
  <2>4. v = [c \in Cpu |-> Items]
    BY <1>7, Zenon DEF Init, Counting, Buffers
  <2>5. v \in [Cpu -> 0 .. BufLen]
    BY <2>2, <2>4, Zenon
  <2>6. array \in [Cpu -> [1 .. BufLen -> Pair]]
    BY <2>3, Zenon DEF Init
  <2>7. item \in [Thread -> Pair]
    <3>1. Two(NULL) \in Pair
      BY <2>1 DEF NULL
    <3> QED
      BY <3>1, Zenon DEF Init
  <2> QED
    BY <2>5, <2>6, <2>7, Zenon DEF InBuffer
<1> QED
  BY <1>1, <1>4, <1>5, <1>6, <1>7, ListsSeparate, Zenon DEF FinalInv

\* pseudocode.h on the helpers, for the callers of param_test.c and any number of
\* threads, CPUs and items: at every final store the words that were loaded and
\* compared are unchanged, and so are the node, the item or the pointer that was
\* linked or copied, although other threads unlock and link nodes from other CPUs.
THEOREM FinalStores == Spec => []FinalAsPseudocode
<1>1. ASSUME FinalInv PROVE FinalAsPseudocode
  <2>1. SUFFICES ASSUME NEW t \in Thread
        PROVE  /\ pc[t] = "final" =>
                    CASE test = "spinlock" -> v[idx[t]] = 0
                      [] test = "inc" -> v[idx[t]] = val[t]
                      [] test = "list" -> v[idx[t]] = val[t] /\ next[val[t]] = exp[t]
                      [] OTHER -> v[idx[t]] = exp[t] /\ array[idx[t]][exp[t]] = item[t]
               /\ pc[t] = "pfinal" =>
                    /\ v[idx[t]] = exp[t]
                    /\ IF test = "list" THEN next[item[t][1]] = exp[t]
                                        ELSE array[idx[t]][exp[t] + 1] = item[t]
    BY <1>1, Zenon DEF FinalAsPseudocode
  <2>2. test \in {"spinlock", "inc", "list", "buffer", "memcpy"}
    BY <1>1, ClientAssumption, Zenon DEF FinalInv, Shaped
  <2>3. CASE Counting
    <3>1. OwnCount(t) /\ test \in {"spinlock", "inc"}
      BY <1>1, <2>3, Zenon DEF FinalInv, Counting
    <3>2. pc[t] # "pfinal"
      BY <3>1, Zenon DEF OwnCount, Pushing, PushCs
    <3> QED
      BY <3>1, <3>2, Zenon DEF OwnCount
  <2>4. CASE test = "list"
    <3>1. OwnList(t)
      BY <1>1, <2>4, Zenon DEF FinalInv
    <3> QED
      BY <2>4, <3>1, Zenon DEF OwnList
  <2>5. CASE Buffers
    <3>1. OwnBuffer(t) /\ test \in {"buffer", "memcpy"}
      BY <1>1, <2>5, Zenon DEF FinalInv, Buffers
    <3>2. pc[t] \in {"final", "pfinal"} => pc[t] \in Cs \ {"load", "pload"}
      BY Zenon DEF Cs, PopCs, PushCs
    <3> QED
      BY <3>1, <3>2, Zenon DEF OwnBuffer
  <2> QED
    BY <2>2, <2>3, <2>4, <2>5, Zenon DEF Counting, Buffers
<1>2. FinalInv => FinalAsPseudocode
  BY <1>1
<1> QED
  BY <1>2, FinalInit, FinalNext, PTL DEF Spec

=============================================================================
