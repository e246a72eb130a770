----------------------------- MODULE RseqClient -----------------------------
(***************************************************************************)
(* The per-CPU algorithms the library is for, as tests/param_test.c has    *)
(* them: a lock, a counter, a list, a buffer of pointers and a buffer of   *)
(* items, each a retry loop around helpers.                                *)
(*                                                                         *)
(* A helper is what RseqMachine is shown to make of it: it compares the    *)
(* index once, then it runs on that CPU to its final store or it starts    *)
(* again at its abort handler, that is at the head of the loop.  Its loads *)
(* and stores are steps of their own, and so are the plain accesses of the *)
(* callers, from any CPU, which pseudocode.h knows nothing of.             *)
(***************************************************************************)
EXTENDS Integers, Sequences, FiniteSets, FiniteSetsExt

CONSTANTS
    Thread,
    Cpu,
    Tests,      \* the tests of param_test.c to run
    Items,      \* BUFFER_ITEM_PER_CPU, and what test_percpu_list() puts in a list
    Reps,       \* opt_reps
    MaxHits     \* preemptions that hit a loop after its index was read

NULL == 0
Off == -1

ASSUME ClientAssumption ==
    /\ Cpu \subseteq Nat /\ \E last \in Cpu : \A c \in Cpu : c <= last
    /\ Tests \subseteq {"spinlock", "inc", "list", "buffer", "memcpy"}
    /\ Items \in Nat \ {0} /\ {Reps, MaxHits} \subseteq Nat

VARIABLES
    test,
    v,          \* the word a helper compares: lock, count, head or offset
    next,       \* of the list's nodes
    array,      \* of the buffers: pairs of words
    count,      \* of the lock's data
    cpu,        \* the CPU a thread runs on, or Off
    pc, idx, exp, val, item, reps,
    hits

locals == <<idx, exp, val, item>>
shared == <<v, next, array, count>>
vars == <<test, shared, cpu, pc, locals, reps, hits>>

NrCpus == Max(Cpu) + 1
BufLen == NrCpus * Items
Node == 1 .. BufLen
Two(n) == <<n, n>>
Counting == test \in {"spinlock", "inc"}

\* Items nodes for every CPU: the list's last one is its head.
NodeOf(c, j) == c * Items + j

Init ==
    /\ test \in Tests
    /\ v = [c \in Cpu |-> IF Counting THEN 0
                          ELSE IF test = "list" THEN NodeOf(c, Items) ELSE Items]
    /\ next = [n \in Node |-> IF (n - 1) % Items = 0 THEN NULL ELSE n - 1]
    /\ array = [c \in Cpu |-> [i \in 1 .. BufLen |->
                                 IF i <= Items THEN Two(NodeOf(c, i)) ELSE Two(NULL)]]
    /\ count = [c \in Cpu |-> 0]
    /\ cpu = [t \in Thread |-> Off]
    /\ pc = [t \in Thread |-> "start"]
    /\ idx = [t \in Thread |-> 0] /\ exp = [t \in Thread |-> 0] /\ val = [t \in Thread |-> 0]
    /\ item = [t \in Thread |-> Two(NULL)]
    /\ reps = [t \in Thread |-> 0]
    /\ hits = 0

-----------------------------------------------------------------------------
At(t, l) == cpu[t] # Off /\ pc[t] = l
Goto(t, l) == pc' = [pc EXCEPT ![t] = l] /\ UNCHANGED <<test, cpu, reps, hits>>
Set(x, t, n) == [x EXCEPT ![t] = n]

\* The next iteration of the thread's loop.
Again(t) ==
    /\ reps' = [reps EXCEPT ![t] = @ + 1]
    /\ pc' = [pc EXCEPT ![t] = IF reps'[t] = Reps THEN "done" ELSE "start"]
    /\ UNCHANGED <<test, cpu, hits>>

\* get_current_cpu_id(), at the head of every loop.
ReadIndex(t) ==
    \/ /\ At(t, "start")
       /\ idx' = Set(idx, t, cpu[t])
       /\ Goto(t, IF test \in {"buffer", "memcpy"} THEN "offset" ELSE "enter")
       /\ UNCHANGED <<shared, exp, val, item>>
    \/ /\ At(t, "push")
       /\ idx' = Set(idx, t, cpu[t])
       /\ Goto(t, "expect")
       /\ UNCHANGED <<shared, exp, val, item>>

\* The helper compares its index, or aborts.
Enter(t) ==
    \/ /\ At(t, "enter")
       /\ Goto(t, IF cpu[t] = idx[t] THEN "load" ELSE "start")
       /\ UNCHANGED <<shared, locals>>
    \/ /\ At(t, "penter")
       /\ Goto(t, IF cpu[t] = idx[t] THEN "pload" ELSE "push")
       /\ UNCHANGED <<shared, locals>>

-----------------------------------------------------------------------------
\* Mutant: a lock that is held is taken.
LockUncompared(t) ==
    /\ test = "spinlock"
    /\ \/ /\ At(t, "load")
          /\ Goto(t, "final")
          /\ UNCHANGED <<shared, locals>>
       \/ /\ At(t, "final")
          /\ v' = Set(v, idx[t], 1)
          /\ Goto(t, "count")
          /\ UNCHANGED <<next, array, count, locals>>

\* rseq_load_cbne_store__ptr() of the lock.
rseq_this_cpu_lock(t) ==
    /\ test = "spinlock"
    /\ \/ /\ At(t, "load")
          /\ Goto(t, IF v[idx[t]] = 0 THEN "final" ELSE "start")
          /\ UNCHANGED <<shared, locals>>
       \/ /\ At(t, "final")
          /\ v' = Set(v, idx[t], 1)
          /\ Goto(t, "count")
          /\ UNCHANGED <<next, array, count, locals>>

\* The assertion, and the store that releases the lock, of any CPU.
rseq_percpu_unlock(t) ==
    /\ test = "spinlock"
    /\ \/ /\ At(t, "check")
          /\ Goto(t, IF v[idx[t]] = 1 THEN "unlock" ELSE "failed")
          /\ UNCHANGED <<shared, locals>>
       \/ /\ At(t, "unlock")
          /\ v' = Set(v, idx[t], 0)
          /\ Again(t)
          /\ UNCHANGED <<next, array, count, locals>>

\* count++ under the lock.
test_percpu_spinlock_thread(t) ==
    \/ /\ At(t, "count")
       /\ val' = Set(val, t, count[idx[t]])
       /\ Goto(t, "add")
       /\ UNCHANGED <<shared, idx, exp, item>>
    \/ /\ At(t, "add")
       /\ count' = Set(count, idx[t], val[t] + 1)
       /\ Goto(t, "check")
       /\ UNCHANGED <<v, next, array, locals>>

\* rseq_load_add_store__ptr().
test_percpu_inc_thread(t) ==
    /\ test = "inc"
    /\ \/ /\ At(t, "load")
          /\ val' = Set(val, t, v[idx[t]])
          /\ Goto(t, "final")
          /\ UNCHANGED <<shared, idx, exp, item>>
       \/ /\ At(t, "final")
          /\ v' = Set(v, idx[t], val[t] + 1)
          /\ Again(t)
          /\ UNCHANGED <<next, array, count, locals>>

-----------------------------------------------------------------------------
\* rseq_load_cbeq_store_add_load_store__ptr(): the head and its next.
this_cpu_list_pop(t) ==
    /\ test = "list"
    /\ \/ /\ At(t, "load")
          /\ val' = Set(val, t, v[idx[t]])
          /\ IF val'[t] = NULL THEN Again(t) ELSE Goto(t, "load2")
          /\ UNCHANGED <<shared, idx, exp, item>>
       \/ /\ At(t, "load2")
          /\ exp' = Set(exp, t, next[val[t]])
          /\ Goto(t, "final")
          /\ UNCHANGED <<shared, idx, val, item>>
       \/ /\ At(t, "final")
          /\ v' = Set(v, idx[t], exp[t])
          /\ item' = Set(item, t, Two(val[t]))
          /\ Goto(t, "push")
          /\ UNCHANGED <<next, array, count, idx, exp, val>>

\* Mutant: the head is not compared again.
PushUncompared(t) ==
    /\ test = "list"
    /\ \/ /\ At(t, "expect")
          /\ exp' = Set(exp, t, v[idx[t]])
          /\ Goto(t, "link")
          /\ UNCHANGED <<shared, idx, val, item>>
       \/ /\ At(t, "link")
          /\ next' = Set(next, item[t][1], exp[t])
          /\ Goto(t, "penter")
          /\ UNCHANGED <<v, array, count, locals>>
       \/ /\ At(t, "pload")
          /\ Goto(t, "pfinal")
          /\ UNCHANGED <<shared, locals>>
       \/ /\ At(t, "pfinal")
          /\ v' = Set(v, idx[t], item[t][1])
          /\ item' = Set(item, t, Two(NULL))
          /\ Again(t)
          /\ UNCHANGED <<next, array, count, idx, exp, val>>

\* The node is linked to the head that was read, and rseq_load_cbne_store__ptr().
this_cpu_list_push(t) ==
    /\ test = "list"
    /\ \/ /\ At(t, "expect")
          /\ exp' = Set(exp, t, v[idx[t]])
          /\ Goto(t, "link")
          /\ UNCHANGED <<shared, idx, val, item>>
       \/ /\ At(t, "link")
          /\ next' = Set(next, item[t][1], exp[t])
          /\ Goto(t, "penter")
          /\ UNCHANGED <<v, array, count, locals>>
       \/ /\ At(t, "pload")
          /\ Goto(t, IF v[idx[t]] = exp[t] THEN "pfinal" ELSE "push")
          /\ UNCHANGED <<shared, locals>>
       \/ /\ At(t, "pfinal")
          /\ v' = Set(v, idx[t], item[t][1])
          /\ item' = Set(item, t, Two(NULL))
          /\ Again(t)
          /\ UNCHANGED <<next, array, count, idx, exp, val>>

-----------------------------------------------------------------------------
\* The offset of the buffer a pop finds; 0 is an empty one.
PopOffset(t) ==
    /\ At(t, "offset")
    /\ exp' = Set(exp, t, v[idx[t]])
    /\ IF exp'[t] = 0 THEN Again(t) ELSE Goto(t, IF test = "buffer" THEN "head" ELSE "enter")
    /\ UNCHANGED <<shared, idx, val, item>>

\* The final store of a pop, with the item that was read or copied.
PopFinal(t) ==
    /\ At(t, "final")
    /\ v' = Set(v, idx[t], exp[t] - 1)
    /\ Goto(t, "push")
    /\ UNCHANGED <<next, array, count, locals>>

\* The test gives up on a full buffer.
PushOffset(t) ==
    /\ At(t, "expect")
    /\ exp' = Set(exp, t, v[idx[t]])
    /\ Goto(t, IF exp'[t] = BufLen THEN "failed" ELSE "penter")
    /\ UNCHANGED <<shared, idx, val, item>>

PushFinal(t) ==
    /\ At(t, "pfinal")
    /\ v' = Set(v, idx[t], exp[t] + 1)
    /\ item' = Set(item, t, Two(NULL))
    /\ Again(t)
    /\ UNCHANGED <<next, array, count, idx, exp, val>>

\* Mutant: the pointer is not compared again.
PopComparesOffset(t) ==
    /\ test = "buffer"
    /\ \/ PopOffset(t) \/ PopFinal(t)
       \/ /\ At(t, "head")
          /\ item' = Set(item, t, array[idx[t]][exp[t]])
          /\ Goto(t, "enter")
          /\ UNCHANGED <<shared, idx, exp, val>>
       \/ /\ At(t, "load")
          /\ Goto(t, IF v[idx[t]] = exp[t] THEN "final" ELSE "start")
          /\ UNCHANGED <<shared, locals>>

\* The pointer is read before rseq_load_cbne_load_cbne_store__ptr().
this_cpu_buffer_pop(t) ==
    /\ test = "buffer"
    /\ \/ PopOffset(t) \/ PopFinal(t)
       \/ /\ At(t, "head")
          /\ item' = Set(item, t, array[idx[t]][exp[t]])
          /\ Goto(t, "enter")
          /\ UNCHANGED <<shared, idx, exp, val>>
       \/ /\ At(t, "load")
          /\ Goto(t, IF v[idx[t]] = exp[t] THEN "load2" ELSE "start")
          /\ UNCHANGED <<shared, locals>>
       \/ /\ At(t, "load2")
          /\ Goto(t, IF array[idx[t]][exp[t]] = item[t] THEN "final" ELSE "start")
          /\ UNCHANGED <<shared, locals>>

\* rseq_load_cbne_store_store__ptr().
this_cpu_buffer_push(t) ==
    /\ test = "buffer"
    /\ \/ PushOffset(t) \/ PushFinal(t)
       \/ /\ At(t, "pload")
          /\ Goto(t, IF v[idx[t]] = exp[t] THEN "spec" ELSE "push")
          /\ UNCHANGED <<shared, locals>>
       \/ /\ At(t, "spec")
          /\ array' = [array EXCEPT ![idx[t]][exp[t] + 1] = item[t]]
          /\ Goto(t, "pfinal")
          /\ UNCHANGED <<v, next, count, locals>>

\* rseq_load_cbne_memcpy_store__ptr(): out of the buffer, word by word.
this_cpu_memcpy_buffer_pop(t) ==
    /\ test = "memcpy"
    /\ \/ PopOffset(t) \/ PopFinal(t)
       \/ /\ At(t, "load")
          /\ Goto(t, IF v[idx[t]] = exp[t] THEN "copy1" ELSE "start")
          /\ UNCHANGED <<shared, locals>>
       \/ \E w \in {1, 2} :
            /\ At(t, IF w = 1 THEN "copy1" ELSE "copy2")
            /\ item' = [item EXCEPT ![t][w] = array[idx[t]][exp[t]][w]]
            /\ Goto(t, IF w = 1 THEN "copy2" ELSE "final")
            /\ UNCHANGED <<shared, idx, exp, val>>

\* The same helper into the buffer.
this_cpu_memcpy_buffer_push(t) ==
    /\ test = "memcpy"
    /\ \/ PushOffset(t) \/ PushFinal(t)
       \/ /\ At(t, "pload")
          /\ Goto(t, IF v[idx[t]] = exp[t] THEN "pcopy1" ELSE "push")
          /\ UNCHANGED <<shared, locals>>
       \/ \E w \in {1, 2} :
            /\ At(t, IF w = 1 THEN "pcopy1" ELSE "pcopy2")
            /\ array' = [array EXCEPT ![idx[t]][exp[t] + 1][w] = item[t][w]]
            /\ Goto(t, IF w = 1 THEN "pcopy2" ELSE "pfinal")
            /\ UNCHANGED <<v, next, count, locals>>

-----------------------------------------------------------------------------
(* The scheduler.  A thread it takes off its CPU inside a critical section *)
(* goes on at the abort handler.                                           *)
PopCs == {"load", "load2", "copy1", "copy2", "final"}
PushCs == {"pload", "spec", "pcopy1", "pcopy2", "pfinal"}
Pushing == PushCs \cup {"push", "expect", "link", "penter"}

\* The locations where a preemption costs an iteration of a loop.
Exposed == PopCs \cup PushCs \cup {"offset", "head", "enter", "expect", "link", "penter"}

Resumes(l) ==
    IF l \in PopCs THEN {"start"}
    ELSE IF l \in PushCs THEN {"push"}
    ELSE {l} \cup (IF l = "enter" THEN {"start"} ELSE {})
             \cup (IF l = "penter" THEN {"push"} ELSE {})

Preempt(t) ==
    /\ cpu[t] # Off
    /\ pc[t] \in Exposed => hits < MaxHits
    /\ hits' = IF pc[t] \in Exposed THEN hits + 1 ELSE hits
    /\ cpu' = Set(cpu, t, Off)
    /\ \E l \in Resumes(pc[t]) : pc' = Set(pc, t, l)
    /\ UNCHANGED <<test, shared, locals, reps>>

Schedule(t) ==
    /\ cpu[t] = Off /\ pc[t] # "done"
    /\ \E c \in Cpu \ {cpu[u] : u \in Thread} : cpu' = Set(cpu, t, c)
    /\ UNCHANGED <<test, shared, pc, locals, reps, hits>>

Step(t) ==
    \/ ReadIndex(t) \/ Enter(t)
    \/ rseq_this_cpu_lock(t) \/ test_percpu_spinlock_thread(t) \/ rseq_percpu_unlock(t)
    \/ test_percpu_inc_thread(t)
    \/ this_cpu_list_pop(t) \/ this_cpu_list_push(t)
    \/ this_cpu_buffer_pop(t) \/ this_cpu_buffer_push(t)
    \/ this_cpu_memcpy_buffer_pop(t) \/ this_cpu_memcpy_buffer_push(t)

Finished ==
    /\ \A t \in Thread : pc[t] = "done" /\ cpu[t] = Off
    /\ UNCHANGED vars

Next == Finished \/ \E t \in Thread : Step(t) \/ Preempt(t) \/ Schedule(t)

Spec == Init /\ [][Next]_vars

\* A thread that is not in the middle of a loop gives its CPU to one that waits.
GivesWay(t) == pc[t] \notin Exposed /\ Preempt(t)

-----------------------------------------------------------------------------
\* Where the nodes are: in the list or the buffer of a CPU, or with a thread
\* that has taken one and not given it back.
InList[n \in Node \cup {NULL}, k \in 0 .. BufLen] ==
    IF n = NULL \/ k = 0 THEN << >> ELSE <<n>> \o InList[next[n], k - 1]
Stored(c) ==
    IF test = "list" THEN [i \in DOMAIN InList[v[c], BufLen] |-> Two(InList[v[c], BufLen][i])]
    ELSE SubSeq(array[c], 1, v[c])
Places(n) ==
    {p \in Cpu \X Node : p[2] <= Len(Stored(p[1])) /\ Stored(p[1])[p[2]] = Two(n)}
    \cup {<<Off, t>> : t \in {t \in Thread : pc[t] \in Pushing /\ item[t] = Two(n)}}

\* param_test.c:870-874 asserts at the end that all entries are accounted for.
\* At every moment each node, whole, is in one list, in one buffer or with one
\* thread, whatever was preempted between reading the head or the offset and
\* the final store.
NodesKept ==
    ~Counting =>
        /\ \A n \in Node : Cardinality(Places(n)) = 1
        /\ MapThenSumSet(LAMBDA c : Len(Stored(c)), Cpu)
             + Cardinality({t \in Thread : pc[t] \in Pushing}) = Cardinality(Node)

\* rseq_this_cpu_lock() gives the lock of a CPU to one thread at a time, and it
\* is marked as taken exactly as long as that thread, wherever it runs, has not
\* released it.
Holds(t, c) == pc[t] \in {"count", "add", "check", "unlock"} /\ idx[t] = c
LockHeldByOne ==
    test = "spinlock" =>
        \A c \in Cpu :
            /\ v[c] = 1 <=> \E t \in Thread : Holds(t, c)
            /\ \A t, u \in Thread : Holds(t, c) /\ Holds(u, c) => t = u

\* The counters add up to the increments that were made: none is lost when a
\* thread is preempted in the addition, or holds the lock of a CPU it has left.
Counted ==
    Counting =>
        MapThenSumSet(LAMBDA c : IF test = "inc" THEN v[c] ELSE count[c], Cpu)
        = MapThenSumSet(LAMBDA t : reps[t], Thread)
          + Cardinality({t \in Thread : pc[t] \in {"check", "unlock"}})

\* The assertion of rseq_percpu_unlock() holds, and no push finds a buffer full
\* ("Worse-case is every item in same CPU").
NoFailure == \A t \in Thread : pc[t] # "failed"

\* No node and no increment is lost, and no check of the program fails.
NothingLost == NodesKept /\ Counted /\ NoFailure

\* What pseudocode.h says of the helpers is true of these callers, with their
\* plain stores from other CPUs: at the final store the words that were loaded
\* and compared are still what they were, and the attempted stores complete.
FinalAsPseudocode ==
    \A t \in Thread :
        LET c == idx[t]
        IN  CASE pc[t] = "final" ->
                   CASE test = "spinlock" -> v[c] = 0
                     [] test = "inc" -> v[c] = val[t]
                     [] test = "list" -> v[c] = val[t] /\ next[val[t]] = exp[t]
                     [] OTHER -> v[c] = exp[t] /\ array[c][exp[t]] = item[t]
              [] pc[t] = "pfinal" ->
                   /\ v[c] = exp[t]
                   /\ IF test = "list" THEN next[item[t][1]] = exp[t]
                                       ELSE array[c][exp[t] + 1] = item[t]
              [] OTHER -> TRUE

=============================================================================
