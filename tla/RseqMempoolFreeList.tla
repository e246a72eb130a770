------------------------ MODULE RseqMempoolFreeList -------------------------
(***************************************************************************)
(* The part of the pool's invariant about what the threads know, the items *)
(* they hold and the list linked through the free ones.                    *)
(***************************************************************************)
EXTENDS RseqMempoolInvariant

ThreadStep(t) ==
    \/ Step(t)
    \/ \E k \in Kind : Malloc(t, k)
    \/ MallocInitTooLong(t)
    \/ \E i \in Item : Free(t, i)
    \/ \E c \in Cpu, i \in Item : Store(t, c, i)

\* The steps that write to the memory of items.
LEMMA MemorySteps ==
    ASSUME NEW t \in Thread, ThreadStep(t)
    PROVE  MemKept \/ FillInit(t) \/ FillCpu(t) \/ Link(t) \/ \E c \in Cpu, i \in Item : Store(t, c, i)
BY Zenon
   DEF ThreadStep, Step, MemKept, Malloc, Call, MallocInitTooLong, Free, Lock, ReadHead, Pop, Bump, CreateRange,
       Exhausted, MappingFails, set_alloc_slot, Unlock, Filled, clear_alloc_slot, Push

\* A step of a thread changes neither the memory of a free item nor that of an
\* item another thread is allocating or freeing.
LEMMA ElsewhereKept ==
    ASSUME TypeOK, LocalInv, HeldInv, NEW t \in Thread, ThreadStep(t), NEW j \in Item,
           ~IsHeld(j) \/ \E u \in Thread : u # t /\ j \in Busy(u)
    PROVE  /\ init'[j] = init[j] /\ Ptr(j)' = Ptr(j)
           /\ \A c \in Cpu : View(c, j)' = View(c, j)
<1>1. ASSUME NEW i \in Item, OthersKept(i), j # i
      PROVE  /\ init'[j] = init[j] /\ Ptr(j)' = Ptr(j)
             /\ \A c \in Cpu : View(c, j)' = View(c, j)
  BY <1>1, Zenon DEF OthersKept
<1>2. CASE MemKept
  BY <1>2, MemKeptEffect, SMTT(30)
<1>3. CASE FillInit(t) \/ FillCpu(t) \/ Link(t)
  <2>1. item[t] \in Item /\ attr' = attr
    BY <1>3, ItemThere, Zenon DEF FillInit, FillCpu, Link, At
  <2>2. item[t] \in Busy(t)
    BY <1>3, <2>1, NullNotItem, Zenon DEF Busy, FillInit, FillCpu, Link, At
  <2>3. j # item[t]
    BY Zenon, <2>2 DEF HeldInv, HeldByOne, Held, IsHeld
  <2>4. node[t] \in Word
    BY Zenon DEF TypeOK, Word, NULL
  <2>5. OthersKept(item[t])
    BY <1>3, <2>1, <2>4, FillOthers, StoreLinkEffect, Zenon DEF Link
  <2>6. QED
    BY Zenon, <1>1, <2>1, <2>3, <2>5
<1>4. ASSUME NEW c \in Cpu, NEW i \in Item, Store(t, c, i)
      PROVE  /\ init'[j] = init[j] /\ Ptr(j)' = Ptr(j)
             /\ \A d \in Cpu : View(d, j)' = View(d, j)
  <2>1. j # i
    BY Zenon, <1>4 DEF Store, HeldInv, HeldByOne, Held, IsHeld
  <2>2. OthersKept(i)
    BY <1>4, StoreCpuOthers, Zenon DEF Store, Word
  <2>3. QED
    BY <1>1, <2>1, <2>2, Zenon
<1>5. QED
  BY <1>2, <1>3, <1>4, MemorySteps, Zenon

\* A thread's knowledge survives what it depends on being left alone.
LEMMA KnowsKept ==
    ASSUME NEW u \in Thread, Knows(u),
           pc'[u] = pc[u], kind'[u] = kind[u], item'[u] = item[u], node'[u] = node[u],
           Inside(u) => free_list_head' = free_list_head,
           pc[u] = "push" => Ptr(item[u])' = Ptr(item[u])
    PROVE  Knows(u)'
<1>1. CASE pc[u] = "push"
  <2>1. free_list_head' = free_list_head
    BY <1>1, Zenon DEF Inside
  <2>2. Ptr(item[u])' = Ptr(item[u])
    BY Zenon, <1>1
  <2>3. QED
    BY <1>1, <2>1, <2>2, Zenon DEF Knows
<1>2. CASE pc[u] # "push"
  BY <1>2, Zenon DEF Knows, Inside
<1>3. QED
  BY Zenon, <1>1, <1>2

\* The locals of the other threads.
LEMMA OthersLocals ==
    ASSUME TypeOK, NEW t \in Thread, ThreadStep(t), NEW u \in Thread, u # t
    PROVE  /\ pc'[u] = pc[u] /\ kind'[u] = kind[u] /\ item'[u] = item[u] /\ node'[u] = node[u]
           /\ cpu'[u] = cpu[u] /\ owned'[u] = owned[u]
<1>0. /\ pc \in [Thread -> Location] /\ kind \in [Thread -> Kind] /\ item \in [Thread -> Item \cup {NULL}]
      /\ node \in [Thread -> Item \cup {NULL}] /\ cpu \in [Thread -> 0 .. NCpu]
      /\ owned \in [Thread -> SUBSET Item]
  BY Zenon DEF TypeOK
<1>1. CASE \E k \in Kind : Malloc(t, k)
  BY <1>0, <1>1, SMTT(30) DEF Malloc, Call, Goto
<1>2. CASE \E i \in Item : Free(t, i)
  BY <1>0, <1>2, SMTT(30) DEF Free, Call, Goto
<1>3. CASE MallocInitTooLong(t) \/ \E c \in Cpu, i \in Item : Store(t, c, i)
  BY <1>0, <1>3, SMTT(30) DEF MallocInitTooLong, Store, callvars, uservars
<1>4. CASE Lock(t) \/ Exhausted(t) \/ MappingFails(t)
  BY <1>0, <1>4, SMTT(30) DEF Lock, Exhausted, MappingFails, Goto, callvars, uservars
<1>5. CASE ReadHead(t) \/ Pop(t)
  BY <1>0, <1>5, SMTT(30) DEF ReadHead, Pop, Goto, uservars
<1>6. CASE Bump(t) \/ CreateRange(t)
  BY <1>0, <1>6, SMTT(30) DEF Bump, CreateRange, TakeUnused, Goto, uservars
<1>7. CASE set_alloc_slot(t) \/ clear_alloc_slot(t)
  BY <1>0, <1>7, SMTT(30) DEF set_alloc_slot, clear_alloc_slot, Goto, callvars, uservars
<1>8. CASE Unlock(t)
  BY <1>0, <1>8, SMTT(30) DEF Unlock, Return, Goto, callvars, uservars
<1>9. CASE Filled(t)
  BY <1>0, <1>9, SMTT(30) DEF Filled, Return, Goto, callvars, uservars
<1>10. CASE FillInit(t) \/ FillCpu(t)
  BY <1>0, <1>10, SMTT(30) DEF FillInit, FillCpu, Goto, uservars
<1>11. CASE Link(t) \/ Push(t)
  BY Zenon, <1>0, <1>11 DEF Link, Push, Goto, callvars, uservars
<1>12. QED
  BY <1>1, <1>2, <1>3, <1>4, <1>5, <1>6, <1>7, <1>8, <1>9, <1>10, <1>11, Zenon DEF ThreadStep, Step

\* The head of the free list is changed inside the mutex.
LEMMA HeadChange ==
    ASSUME NEW t \in Thread, ThreadStep(t), free_list_head' # free_list_head
    PROVE  Inside(t)
BY Zenon DEF ThreadStep, Step, Malloc, Call, MallocInitTooLong, Free, Store, Lock, ReadHead, Pop, Bump,
       TakeUnused, CreateRange, Exhausted, MappingFails, set_alloc_slot, Unlock, FillInit, FillCpu,
       Filled, clear_alloc_slot, Link, Push, At, Inside, poolvars

\* What the threads know stays true.
LEMMA LocalNext ==
    ASSUME TypeOK, LocalInv, HeldInv, ChainInv, LockInv, OneInside, RangesInv, ~DoubleFree,
           NEW t \in Thread, ThreadStep(t)
    PROVE  LocalInv'
<1> USE NullNotItem
<1>0. /\ pc \in [Thread -> Location] /\ kind \in [Thread -> Kind] /\ item \in [Thread -> Item \cup {NULL}]
      /\ node \in [Thread -> Item \cup {NULL}] /\ cpu \in [Thread -> 0 .. NCpu]
      /\ free_list_head \in Item \cup {NULL}
  BY SMTT(30) DEF TypeOK
<1>1. ASSUME NEW u \in Thread, u # t PROVE Knows(u)'
  <2>1. Inside(u) => free_list_head' = free_list_head
    BY <1>1, HeadChange DEF LockInv, OneInside
  <2>2. pc[u] = "push" => Ptr(item[u])' = Ptr(item[u])
    <3>1. SUFFICES ASSUME pc[u] = "push" PROVE Ptr(item[u])' = Ptr(item[u])
      OBVIOUS
    <3>2. item[u] \in Item /\ kind[u] = "free"
      BY <3>1, ItemThere, Zenon DEF LocalInv, Knows
    <3>3. item[u] \in Busy(u)
      BY <3>1, <3>2 DEF Busy
    <3>4. PICK j \in Item : j = item[u]
      BY <3>2, SMTT(30)
    <3>5. Ptr(j)' = Ptr(j)
      BY <1>1, <3>3, <3>4, ElsewhereKept
    <3>6. item'[u] = j
      BY <1>1, <3>4, OthersLocals
    <3>7. QED
      BY <3>4, <3>5, <3>6, Zenon DEF Ptr, __rseq_percpu_to_free_list_ptr
  <2>3. QED
    BY <1>1, <2>1, <2>2, KnowsKept, OthersLocals DEF LocalInv
<1>2. Knows(t) /\ (Knows(t)' => LocalInv')
  BY <1>1, Zenon DEF LocalInv
<1>3. ASSUME NEW l, Goto(t, l) PROVE pc'[t] = l
  BY <1>0, <1>3, Zenon DEF Goto
<1>4. CASE (\E k \in Kind : Malloc(t, k)) \/ \E i \in Item : Free(t, i)
  <2>1. CASE \E k \in Kind : Malloc(t, k)
    <3>1. PICK k \in Kind : Malloc(t, k)
      BY <2>1, Zenon
    <3>2. pc[t] = "idle" /\ Goto(t, "lock") /\ kind' = [kind EXCEPT ![t] = k] /\ k # "free" /\ item' = item
      BY <3>1, Zenon DEF Malloc, Call, At
    <3>3. pc'[t] = "lock" /\ kind'[t] # "free" /\ item'[t] = NULL
      BY <1>0, <1>2, <1>3, <3>2, Zenon DEF Knows
    <3>4. QED
      BY <1>2, <3>3 DEF Knows
  <2>2. CASE \E i \in Item : Free(t, i)
    <3>1. PICK i \in Item : Free(t, i)
      BY <2>2, Zenon
    <3>2. Goto(t, "lock") /\ kind' = [kind EXCEPT ![t] = "free"] /\ item' = [item EXCEPT ![t] = i]
      BY <3>1, Zenon DEF Free, Call
    <3>3. pc'[t] = "lock" /\ kind'[t] = "free" /\ item'[t] # NULL
      BY <1>0, <1>3, <3>2, Zenon
    <3>4. QED
      BY <1>2, <3>3 DEF Knows
  <2>3. QED
    BY <1>4, <2>1, <2>2, Zenon
<1>5. CASE MallocInitTooLong(t) \/ \E c \in Cpu, i \in Item : Store(t, c, i)
  <2>1. pc[t] = "idle" /\ pc' = pc /\ kind' = kind /\ item' = item
    BY <1>5, Zenon DEF MallocInitTooLong, Store, At, callvars
  <2>2. pc'[t] = "idle" /\ kind'[t] # "free" /\ item'[t] = NULL
    BY <1>2, <2>1, Zenon DEF Knows
  <2>3. QED
    BY <1>2, <2>2 DEF Knows
<1>6. CASE Lock(t)
  <2>1. pc[t] = "lock" /\ Goto(t, IF kind[t] = "free" THEN "clear" ELSE "node") /\ kind' = kind /\ item' = item
    BY <1>6, Zenon DEF Lock, At, callvars
  <2>2. item[t] # NULL <=> kind[t] = "free"
    BY <1>2, <2>1, Zenon DEF Knows
  <2>3. \/ kind'[t] = "free" /\ pc'[t] = "clear" /\ item'[t] # NULL
        \/ kind'[t] # "free" /\ pc'[t] = "node" /\ item'[t] = NULL
    BY <1>3, <2>1, <2>2, Zenon
  <2>4. QED
    BY <1>2, <2>3 DEF Knows
<1>7. CASE Exhausted(t) \/ MappingFails(t)
  <2>1. pc[t] = "range" /\ (Goto(t, "full") \/ Goto(t, "nomem")) /\ kind' = kind /\ item' = item
    BY <1>7, Zenon DEF Exhausted, MappingFails, At, callvars
  <2>2. pc'[t] \in {"full", "nomem"} /\ kind'[t] # "free" /\ item'[t] = NULL
    BY <1>2, <1>3, <2>1, Zenon DEF Knows
  <2>3. QED
    BY <1>2, <2>2 DEF Knows
<1>8. CASE ReadHead(t)
  <2>1. /\ pc[t] = "node" /\ Goto(t, IF free_list_head # NULL THEN "pop" ELSE "range")
        /\ kind' = kind /\ item' = item /\ free_list_head' = free_list_head
        /\ node' = [node EXCEPT ![t] = free_list_head]
    BY <1>8, Zenon DEF ReadHead, At, poolvars
  <2>2. kind'[t] # "free" /\ item'[t] = NULL /\ node'[t] = free_list_head'
    BY <1>0, <1>2, <2>1, Zenon DEF Knows
  <2>3. \/ pc'[t] = "pop" /\ free_list_head' # NULL
        \/ pc'[t] = "range" /\ free_list_head' = NULL
    BY <1>3, <2>1, Zenon
  <2>4. QED
    BY <1>2, <2>2, <2>3 DEF Knows
<1>9. CASE Pop(t)
  <2>1. pc[t] = "pop" /\ Goto(t, "slot") /\ kind' = kind /\ item' = [item EXCEPT ![t] = node[t]]
    BY <1>9, Zenon DEF Pop, At
  <2>2. pc'[t] = "slot" /\ kind'[t] # "free" /\ item'[t] # NULL
    BY <1>0, <1>2, <1>3, <2>1, Zenon DEF Knows
  <2>3. QED
    BY <1>2, <2>2 DEF Knows
<1>10. CASE Bump(t) \/ CreateRange(t)
  <2>1. PICK r \in Ranges : TakeUnused(t, r) /\ next_unused[r] < ItemsPerRange
    <3>1. CASE Bump(t)
      <4>1. RoomLeft /\ TakeUnused(t, Head(range_list))
        BY <3>1, Zenon DEF Bump
      <4>2. Head(range_list) = nr_ranges /\ nr_ranges \in Ranges
        BY Zenon DEF RangesInv, TypeOK
      <4>3. next_unused[nr_ranges] + 1 <= ItemsPerRange
        BY <4>1, <4>2, Zenon DEF RoomLeft
      <4>4. next_unused[nr_ranges] \in Nat /\ ItemsPerRange \in Nat
        BY <4>2, MempoolAssumption DEF TypeOK
      <4>5. next_unused[nr_ranges] < ItemsPerRange
        BY <4>3, <4>4
      <4>6. QED
        BY <4>1, <4>2, <4>5, Zenon
    <3>2. CASE CreateRange(t)
      <4>1. nr_ranges < MaxNrRanges /\ TakeUnused(t, nr_ranges + 1)
        BY <3>2, Zenon DEF CreateRange
      <4>2. nr_ranges \in Ranges /\ MaxNrRanges \in Nat /\ ItemsPerRange \in Nat \ {0}
        BY MempoolAssumption, Zenon DEF TypeOK
      <4>3. nr_ranges + 1 \in Ranges /\ nr_ranges + 1 > nr_ranges
        BY <4>1, <4>2 DEF Ranges
      <4>4. next_unused[nr_ranges + 1] = 0
        BY <4>3, Zenon DEF RangesInv
      <4>5. next_unused[nr_ranges + 1] < ItemsPerRange
        BY <4>2, <4>4
      <4>6. QED
        BY <4>1, <4>3, <4>5, Zenon
    <3>3. QED
      BY <1>10, <3>1, <3>2, Zenon
  <2>2. <<r, next_unused[r]>> \in Item
    <3>1. next_unused[r] \in Nat /\ ItemsPerRange \in Nat
      BY MempoolAssumption DEF TypeOK
    <3>2. next_unused[r] \in 0 .. ItemsPerRange - 1
      BY <2>1, <3>1
    <3>3. QED
      BY <3>2, Zenon DEF Item
  <2>3. /\ pc[t] = "range" /\ kind' = kind
        /\ Goto(t, "slot") /\ item' = [item EXCEPT ![t] = <<r, next_unused[r]>>]
    BY <1>10, <2>1, Zenon DEF TakeUnused, Bump, CreateRange, At
  <2>4. pc'[t] = "slot" /\ kind'[t] # "free" /\ item'[t] # NULL
    <3>1. item'[t] \in Item
      BY <1>0, <2>2, <2>3, Zenon
    <3>2. QED
      BY <1>2, <1>3, <2>3, <3>1, Zenon DEF Knows
  <2>5. QED
    BY <1>2, <2>4 DEF Knows
<1>11. CASE set_alloc_slot(t)
  <2>1. pc[t] = "slot" /\ Goto(t, "unlock") /\ item' = item
    BY <1>11, Zenon DEF set_alloc_slot, At, callvars
  <2>2. pc'[t] = "unlock" /\ item'[t] # NULL
    BY <1>2, <1>3, <2>1, Zenon DEF Knows
  <2>3. QED
    BY <1>2, <2>2 DEF Knows
<1>12. CASE clear_alloc_slot(t)
  <2>1. /\ pc[t] = "clear" /\ Goto(t, IF attr.poison_set THEN "fill" ELSE "link")
        /\ item' = item /\ kind' = kind /\ free_list_head' = free_list_head
        /\ node' = [node EXCEPT ![t] = free_list_head]
    BY <1>12, Zenon DEF clear_alloc_slot, At
  <2>2. pc'[t] \in {"fill", "link"}
    BY <1>3, <2>1, Zenon
  <2>3. kind'[t] = "free" /\ item'[t] # NULL /\ node'[t] = free_list_head'
    BY <1>0, <1>2, <2>1, Zenon DEF Knows
  <2>4. QED
    BY <1>2, <2>2, <2>3 DEF Knows
<1>13. CASE Unlock(t) \/ Filled(t)
  <2>1. CASE Return(t)
    <3>1. pc'[t] = "idle" /\ kind'[t] = "malloc" /\ item'[t] = NULL
      BY <1>0, <1>3, <2>1, Zenon DEF Return
    <3>2. QED
      BY <1>2, <3>1 DEF Knows
  <2>2. CASE Unlock(t) /\ ~Return(t)
    <3>1. pc[t] = "unlock" /\ kind[t] \in {"zmalloc", "malloc_init"} /\ Goto(t, "fill") /\ kind' = kind /\ item' = item
      BY <2>2, Zenon DEF Unlock, callvars
    <3>2. pc'[t] = "fill" /\ kind'[t] \in {"zmalloc", "malloc_init"} /\ item'[t] # NULL
      BY <1>2, <1>3, <3>1, Zenon DEF Knows
    <3>3. QED
      BY <1>2, <3>2 DEF Knows
  <2>3. CASE Filled(t) /\ ~Return(t)
    <3>1. /\ pc[t] = "fill_cpu" /\ kind[t] = "free" /\ Goto(t, "link")
          /\ kind' = kind /\ item' = item /\ node' = node /\ free_list_head' = free_list_head
      BY <2>3, Zenon DEF Filled, At, callvars, poolvars
    <3>2. pc'[t] = "link" /\ kind'[t] = "free" /\ item'[t] # NULL /\ node'[t] = free_list_head'
      BY <1>2, <1>3, <3>1, Zenon DEF Knows
    <3>3. QED
      BY <1>2, <3>2 DEF Knows
  <2>4. QED
    BY <1>13, <2>1, <2>2, <2>3, Zenon
<1>14. CASE FillInit(t) \/ FillCpu(t)
  <2>1. /\ pc[t] \in {"fill", "fill_cpu"} /\ (Goto(t, "fill_cpu") \/ (pc[t] = "fill_cpu" /\ pc' = pc))
        /\ kind' = kind /\ item' = item /\ node' = node /\ free_list_head' = free_list_head
    BY <1>14, Zenon DEF FillInit, FillCpu, At, poolvars
  <2>2. pc'[t] = "fill_cpu"
    BY <1>3, <2>1, Zenon
  <2>3. /\ kind'[t] # "malloc" /\ item'[t] # NULL
        /\ kind'[t] = "free" => node'[t] = free_list_head'
    BY <1>2, <2>1, Zenon DEF Knows
  <2>4. QED
    BY <1>2, <2>2, <2>3 DEF Knows
<1>15. CASE Link(t)
  <2>1. item[t] \in Item /\ node[t] \in Word /\ attr' = attr
    BY <1>0, <1>15, ItemThere DEF Link, At, Word, NULL
  <2>2. PICK j \in Item : j = item[t]
    BY <2>1, Zenon
  <2>3. Ptr(j)' = node[t]
    BY <1>15, <2>1, <2>2, StoreLinkEffect, Zenon DEF Link
  <2>4. /\ item' = item /\ node' = node /\ kind' = kind /\ pc[t] = "link"
        /\ Goto(t, "push") /\ free_list_head' = free_list_head
    BY <1>15, Zenon DEF Link, At, callvars, poolvars
  <2>5. Ptr(item[t])' = node'[t]
    BY <2>2, <2>3, <2>4, Zenon DEF Ptr, __rseq_percpu_to_free_list_ptr
  <2>6. pc'[t] = "push" /\ kind'[t] = "free" /\ item'[t] # NULL /\ node'[t] = free_list_head'
    BY <1>2, <1>3, <2>4, Zenon DEF Knows
  <2>7. QED
    BY <1>2, <2>5, <2>6 DEF Knows
<1>16. CASE Push(t)
  <2>1. pc[t] = "push" /\ Goto(t, "unlock") /\ item' = item
    BY <1>16, Zenon DEF Push, At, callvars
  <2>2. pc'[t] = "unlock" /\ item'[t] # NULL
    BY <1>2, <1>3, <2>1, Zenon DEF Knows
  <2>3. QED
    BY <1>2, <2>2 DEF Knows
<1>17. QED
  BY <1>4, <1>5, <1>6, <1>7, <1>8, <1>9, <1>10, <1>11, <1>12, <1>13, <1>14, <1>15, <1>16, Zenon
     DEF ThreadStep, Step

-----------------------------------------------------------------------------
\* An item was allocated if it lies below its range's next_unused.
LEMMA EverAllocatedIs ==
    TypeOK /\ RangesInv => EverAllocated = {i \in Item : i[2] < next_unused[i[1]]}
<1> SUFFICES ASSUME TypeOK, RangesInv
             PROVE  EverAllocated = {i \in Item : i[2] < next_unused[i[1]]}
  OBVIOUS
<1>1. ASSUME NEW i \in Item, i[2] < next_unused[i[1]]
      PROVE  i[1] \in {range_list[k] : k \in DOMAIN range_list}
  <2>1. i[1] \in Ranges /\ i[2] \in Nat
    BY MempoolAssumption DEF Item
  <2>2. next_unused[i[1]] # 0
    BY <1>1, <2>1 DEF TypeOK
  <2>3. ~(i[1] > nr_ranges)
    BY <2>1, <2>2, Zenon DEF RangesInv
  <2>4. nr_ranges \in Ranges
    BY Zenon DEF TypeOK
  <2>5. i[1] \in 1 .. nr_ranges
    BY <2>1, <2>3, <2>4, MempoolAssumption DEF Ranges
  <2>6. QED
    BY Zenon, <2>5 DEF RangesInv
<1>2. QED
  BY Zenon, <1>1 DEF EverAllocated

\* How a step of thread t moves items between the pool and the thread.
Keeps(t) == Held(t)' = Held(t) /\ EverAllocated' = EverAllocated /\ free_list_head' = free_list_head
Pops(t) ==
    /\ free_list_head \in FreeItems /\ free_list_head' = Ptr(free_list_head) /\ MemKept
    /\ Held(t)' = Held(t) \cup {free_list_head} /\ EverAllocated' = EverAllocated
Bumps(t, i) ==
    /\ i \notin EverAllocated /\ EverAllocated' = EverAllocated \cup {i}
    /\ Held(t)' = Held(t) \cup {i} /\ free_list_head' = free_list_head /\ MemKept
Pushes(t) ==
    /\ item[t] \in Held(t) /\ Held(t)' = Held(t) \ {item[t]} /\ item[t] \in Item
    /\ EverAllocated' = EverAllocated
    /\ Ptr(item[t]) = free_list_head /\ free_list_head' = item[t] /\ MemKept

\* A step takes an item from the free list, takes an unused one, puts one back
\* on the list, or moves none.
LEMMA Moves ==
    ASSUME TypeOK, LocalInv, HeldInv, ChainInv, RangesInv, RangesInv', TypeOK', ~DoubleFree,
           NEW t \in Thread, ThreadStep(t)
    PROVE  /\ Keeps(t) \/ Pops(t) \/ (\E i \in Item : Bumps(t, i)) \/ Pushes(t)
           /\ (owned[t] \cap Busy(t) = {})'
<1> USE NullNotItem
<1>0. /\ pc \in [Thread -> Location] /\ kind \in [Thread -> Kind] /\ item \in [Thread -> Item \cup {NULL}]
      /\ node \in [Thread -> Item \cup {NULL}] /\ owned \in [Thread -> SUBSET Item]
      /\ free_list_head \in Item \cup {NULL}
  BY SMTT(30) DEF TypeOK
<1>1. Knows(t) /\ owned[t] \cap Busy(t) = {}
  BY Zenon DEF LocalInv, HeldInv
<1>2. UNCHANGED next_unused => EverAllocated' = EverAllocated
  <2>1. EverAllocated = {i \in Item : i[2] < next_unused[i[1]]}
    BY Zenon, EverAllocatedIs
  <2>2. EverAllocated' = {i \in Item : i[2] < next_unused'[i[1]]}
    <3>1. (TypeOK /\ RangesInv => EverAllocated = {i \in Item : i[2] < next_unused[i[1]]})'
      BY EverAllocatedIs, PTL
    <3>2. QED
      BY Zenon, <3>1
  <2>3. QED
    BY Zenon, <2>1, <2>2
<1>3. CASE (\E k \in Kind : Malloc(t, k)) \/ \E i \in Item : Free(t, i)
  <2>1. UNCHANGED <<next_unused, free_list_head>>
    BY <1>3, Zenon DEF Malloc, Free, Call, poolvars
  <2>2. Held(t)' = Held(t) /\ (owned[t] \cap Busy(t) = {})'
    <3>1. CASE \E k \in Kind : Malloc(t, k)
      <4>1. PICK k \in Kind : Malloc(t, k)
        BY <3>1, Zenon
      <4>2. /\ pc[t] = "idle" /\ pc' = [pc EXCEPT ![t] = "lock"] /\ kind' = [kind EXCEPT ![t] = k]
            /\ k # "free" /\ item' = item /\ owned' = owned
        BY <4>1, Zenon DEF Malloc, Call, At, Goto
      <4>3. /\ pc'[t] = "lock" /\ kind'[t] # "free" /\ item[t] = NULL /\ kind[t] # "free"
        BY <1>0, <1>1, <4>2, Zenon DEF Knows
      <4>4. Busy(t) = {} /\ Busy(t)' = {}
        BY <4>2, <4>3 DEF Busy
      <4>5. QED
        BY <4>2, <4>4, Zenon DEF Held
    <3>2. CASE \E i \in Item : Free(t, i)
      <4>1. PICK i \in Item : Free(t, i)
        BY <3>2, Zenon
      <4>2. /\ pc[t] = "idle" /\ pc' = [pc EXCEPT ![t] = "lock"] /\ kind' = [kind EXCEPT ![t] = "free"]
            /\ i \in owned[t] /\ item' = [item EXCEPT ![t] = i] /\ owned' = [owned EXCEPT ![t] = @ \ {i}]
        BY <4>1, Zenon DEF Free, Call, At, Goto
      <4>3. /\ pc'[t] = "lock" /\ kind'[t] = "free" /\ item'[t] = i /\ owned'[t] = owned[t] \ {i}
            /\ item[t] = NULL /\ kind[t] # "free"
        BY <1>0, <1>1, <4>2, Zenon DEF Knows
      <4>4. Busy(t) = {} /\ Busy(t)' = {i}
        BY <4>2, <4>3 DEF Busy
      <4>5. QED
        BY <4>2, <4>3, <4>4, Zenon DEF Held
    <3>3. QED
      BY <1>3, <3>1, <3>2, Zenon
  <2>3. QED
    BY <1>2, <2>1, <2>2, SMTT(30) DEF Keeps
<1>4. CASE MallocInitTooLong(t) \/ \E c \in Cpu, i \in Item : Store(t, c, i)
  BY <1>1, <1>2, <1>4, Zenon
     DEF MallocInitTooLong, Store, Held, Busy, Keeps, callvars, uservars, poolvars
<1>5. CASE Lock(t) \/ Exhausted(t) \/ MappingFails(t) \/ ReadHead(t)
  <2>1. UNCHANGED <<next_unused, free_list_head, owned, item, kind>>
    BY <1>5, SMTT(30) DEF Lock, Exhausted, MappingFails, ReadHead, poolvars, callvars, uservars
  <2>2. Busy(t)' = Busy(t)
    BY Zenon, <1>0, <1>1, <1>5, <2>1 DEF Lock, Exhausted, MappingFails, ReadHead, At, Goto, Busy, Knows
  <2>3. QED
    BY <1>1, <1>2, <2>1, <2>2, Zenon DEF Keeps, Held
<1>6. CASE Pop(t)
  <2>1. node[t] = free_list_head /\ free_list_head # NULL /\ Busy(t) = {} /\ kind[t] # "free"
    BY <1>1, <1>6, Zenon DEF Pop, At, Knows, Busy
  <2>2. free_list_head \in FreeItems
    BY <2>1, HeadLink, Zenon
  <2>3. free_list_head' = Ptr(free_list_head) /\ MemKept /\ UNCHANGED <<next_unused, owned>>
    BY <1>6, <2>1, Zenon DEF Pop, MemKept, Ptr, uservars
  <2>4. Busy(t)' = {free_list_head}
    BY Zenon, <1>0, <1>6, <2>1 DEF Pop, Goto, Busy
  <2>5. free_list_head \notin owned[t]
    BY Zenon, <2>2 DEF FreeItems, IsHeld, Held
  <2>6. QED
    BY <1>2, <2>1, <2>2, <2>3, <2>4, <2>5, Zenon DEF Pops, Held
<1>7. CASE Bump(t) \/ CreateRange(t)
  <2>1. PICK r \in Ranges : TakeUnused(t, r) /\ next_unused[r] < ItemsPerRange
    <3>1. CASE Bump(t)
      <4>1. RoomLeft /\ TakeUnused(t, Head(range_list))
        BY <3>1, Zenon DEF Bump
      <4>2. Head(range_list) = nr_ranges /\ nr_ranges \in Ranges
        BY Zenon DEF RangesInv, TypeOK
      <4>3. next_unused[nr_ranges] + 1 <= ItemsPerRange
        BY <4>1, <4>2, Zenon DEF RoomLeft
      <4>4. next_unused[nr_ranges] \in Nat /\ ItemsPerRange \in Nat
        BY <4>2, MempoolAssumption DEF TypeOK
      <4>5. next_unused[nr_ranges] < ItemsPerRange
        BY <4>3, <4>4
      <4>6. QED
        BY <4>1, <4>2, <4>5, Zenon
    <3>2. CASE CreateRange(t)
      <4>1. nr_ranges < MaxNrRanges /\ TakeUnused(t, nr_ranges + 1)
        BY <3>2, Zenon DEF CreateRange
      <4>2. nr_ranges \in Ranges /\ MaxNrRanges \in Nat /\ ItemsPerRange \in Nat \ {0}
        BY Zenon, MempoolAssumption DEF TypeOK
      <4>3. nr_ranges + 1 \in Ranges /\ nr_ranges + 1 > nr_ranges
        BY <4>1, <4>2 DEF Ranges
      <4>4. next_unused[nr_ranges + 1] = 0
        BY <4>3, Zenon DEF RangesInv
      <4>5. QED
        BY <4>1, <4>2, <4>3, <4>4
    <3>3. QED
      BY <1>7, <3>1, <3>2, SMTT(30)
  <2>2. DEFINE new == <<r, next_unused[r]>>
  <2>3. /\ new \in Item /\ new[1] = r /\ new[2] = next_unused[r] /\ next_unused[r] \in Nat
    <3>1. next_unused[r] \in 0 .. ItemsPerRange /\ ItemsPerRange \in Nat
      BY MempoolAssumption, Zenon DEF TypeOK
    <3>2. QED
      BY <2>1, <3>1 DEF Item
  <2>4. /\ next_unused \in [Ranges -> 0 .. ItemsPerRange]
        /\ next_unused' = [next_unused EXCEPT ![r] = @ + 1]
    BY <2>1, Zenon DEF TypeOK, TakeUnused
  <2>5. EverAllocated = {i \in Item : i[2] < next_unused[i[1]]}
    BY Zenon, EverAllocatedIs
  <2>6. EverAllocated' = {i \in Item : i[2] < next_unused'[i[1]]}
    <3>1. (TypeOK /\ RangesInv => EverAllocated = {i \in Item : i[2] < next_unused[i[1]]})'
      BY EverAllocatedIs, PTL
    <3>2. QED
      BY Zenon, <3>1
  <2>7. new \notin EverAllocated
    BY <2>3, <2>5
  <2>8. ASSUME NEW i \in Item
        PROVE  i[2] < next_unused'[i[1]] <=> i[2] < next_unused[i[1]] \/ i = new
    <3>1. i[1] \in Ranges /\ i[2] \in Nat /\ i = <<i[1], i[2]>>
      BY MempoolAssumption DEF Item
    <3>2. CASE i[1] # r
      BY Zenon, <2>3, <2>4, <3>1, <3>2
    <3>3. CASE i[1] = r
      <4>1. next_unused'[r] = next_unused[r] + 1
        BY Zenon, <2>4
      <4>2. i = new <=> i[2] = next_unused[r]
        BY Zenon, <2>3, <3>1, <3>3
      <4>3. QED
        BY <2>3, <3>1, <3>3, <4>1, <4>2
    <3>4. QED
      BY Zenon, <3>2, <3>3
  <2>9. EverAllocated' = EverAllocated \cup {new}
    BY Zenon, <2>3, <2>5, <2>6, <2>8
  <2>10. /\ pc[t] = "range" /\ pc'[t] = "slot" /\ item'[t] = new /\ UNCHANGED <<free_list_head, owned, kind>>
         /\ MemKept
    BY <1>0, <1>7, <2>1, Zenon DEF TakeUnused, Goto, Bump, CreateRange, At, MemKept, uservars
  <2>11. Busy(t) = {} /\ Busy(t)' = {new}
    BY <1>1, <2>3, <2>10, Zenon DEF Busy, Knows
  <2>12. new \notin owned[t]
    BY Zenon, <2>7 DEF HeldInv, Held
  <2>13. Bumps(t, new)
    BY <2>7, <2>9, <2>10, <2>11, Zenon DEF Bumps, Held
  <2>14. QED
    BY <2>3, <2>10, <2>11, <2>12, <2>13, Zenon
<1>8. CASE set_alloc_slot(t) \/ clear_alloc_slot(t) \/ FillInit(t) \/ FillCpu(t) \/ Link(t)
  <2>1. UNCHANGED <<next_unused, free_list_head, owned, item, kind>>
    BY <1>8, Zenon
       DEF set_alloc_slot, clear_alloc_slot, FillInit, FillCpu, Link, poolvars, callvars, uservars
  <2>2. Busy(t)' = Busy(t)
    BY <1>0, <1>1, <1>8, <2>1, Zenon
       DEF set_alloc_slot, clear_alloc_slot, FillInit, FillCpu, Link, At, Goto, Busy, Knows
  <2>3. QED
    BY <1>1, <1>2, <2>1, <2>2, Zenon DEF Keeps, Held
<1>9. CASE Unlock(t) \/ Filled(t)
  <2>1. UNCHANGED <<next_unused, free_list_head>>
    BY Zenon, <1>9 DEF Unlock, Filled, poolvars
  <2>2. CASE Return(t)
    <3>1. Busy(t)' = {}
      BY Zenon, <1>0, <2>2 DEF Return, Goto, Busy
    <3>2. owned'[t] = Held(t)
      <4>1. CASE kind[t] # "free" /\ item[t] # NULL
        <5>1. owned'[t] = owned[t] \cup {item[t]}
          BY <1>0, <2>2, <4>1, SMTT(30) DEF Return
        <5>2. Busy(t) = {item[t]}
          BY Zenon, <1>9, <4>1 DEF Unlock, Filled, At, Busy
        <5>3. QED
          BY Zenon, <5>1, <5>2 DEF Held
      <4>2. CASE kind[t] = "free" \/ item[t] = NULL
        <5>1. owned' = owned
          BY Zenon, <2>2, <4>2 DEF Return
        <5>2. kind[t] = "free" => Unlock(t) /\ pc[t] = "unlock"
          BY <1>0, <1>1, <1>9, <2>2, Zenon DEF Unlock, Filled, Return, At, Goto, Knows
        <5>3. Busy(t) = {}
          BY Zenon, <4>2, <5>2 DEF Busy
        <5>4. QED
          BY <5>1, <5>3, SMTT(30) DEF Held
      <4>3. QED
        BY Zenon, <4>1, <4>2
    <3>3. QED
      BY <1>2, <2>1, <3>1, <3>2, Zenon DEF Keeps, Held
  <2>3. CASE ~Return(t)
    <3>1. Busy(t)' = Busy(t) /\ owned' = owned
      BY <1>0, <1>1, <1>9, <2>3, Zenon DEF Unlock, Filled, At, Goto, Busy, Knows, callvars, uservars
    <3>2. QED
      BY <1>1, <1>2, <2>1, <3>1, Zenon DEF Keeps, Held
  <2>4. QED
    BY <2>2, <2>3, Zenon
<1>10. CASE Push(t)
  <2>1. item[t] \in Item /\ kind[t] = "free" /\ Ptr(item[t]) = free_list_head /\ pc[t] = "push"
    BY Zenon, <1>0, <1>1, <1>10 DEF Push, At, Knows
  <2>2. Busy(t) = {item[t]} /\ Busy(t)' = {}
    BY Zenon, <1>0, <1>10, <2>1 DEF Push, Goto, Busy, callvars
  <2>3. UNCHANGED <<next_unused, owned>> /\ MemKept /\ free_list_head' = item[t]
    BY Zenon, <1>10 DEF Push, MemKept, uservars
  <2>4. QED
    BY <1>1, <1>2, <2>1, <2>2, <2>3, Zenon DEF Pushes, Held
<1>11. QED
  BY <1>3, <1>4, <1>5, <1>6, <1>7, <1>8, <1>9, <1>10, ZenonT(40) DEF ThreadStep, Step

\* The items of the other threads stay theirs.
LEMMA OthersHeld ==
    ASSUME TypeOK, NEW t \in Thread, ThreadStep(t), NEW u \in Thread, u # t
    PROVE  Held(u)' = Held(u) /\ Busy(u)' = Busy(u) /\ owned'[u] = owned[u]
BY OthersLocals, Zenon DEF Held, Busy

\* Held items stay held by one thread in one role.
LEMMA HeldNext ==
    ASSUME TypeOK, LocalInv, HeldInv, ChainInv, RangesInv, RangesInv', TypeOK', ~DoubleFree,
           NEW t \in Thread, ThreadStep(t)
    PROVE  HeldInv'
<1>1. \A u \in Thread : u # t => Held(u)' = Held(u) /\ (owned[u] \cap Busy(u) = {})'
  BY OthersHeld, Zenon DEF HeldInv
<1>2. (owned[t] \cap Busy(t) = {})'
  BY Moves, ZenonT(40)
<1>3. \A u \in Thread : Held(u) \subseteq EverAllocated
  BY Zenon DEF HeldInv
<1>4. \A u, v \in Thread : u # v => Held(u) \cap Held(v) = {}
  BY Zenon DEF HeldInv, HeldByOne
<1>5. SUFFICES /\ \A u \in Thread : Held(u)' \subseteq EverAllocated'
               /\ \A u \in Thread : u # t => Held(t)' \cap Held(u) = {}
  BY <1>1, <1>2, <1>4, SMTT(30) DEF HeldInv, HeldByOne
<1>6. CASE Keeps(t)
  BY <1>1, <1>3, <1>4, <1>6, SMTT(30) DEF Keeps
<1>7. CASE Pops(t)
  <2>1. free_list_head \in EverAllocated /\ \A u \in Thread : free_list_head \notin Held(u)
    BY Zenon, <1>7 DEF Pops, FreeItems, IsHeld
  <2>2. QED
    BY <1>1, <1>3, <1>4, <1>7, <2>1 DEF Pops
<1>8. ASSUME NEW i \in Item, Bumps(t, i)
      PROVE  /\ \A u \in Thread : Held(u)' \subseteq EverAllocated'
             /\ \A u \in Thread : u # t => Held(t)' \cap Held(u) = {}
  BY <1>1, <1>3, <1>4, <1>8, SMTT(30) DEF Bumps
<1>9. CASE Pushes(t)
  BY <1>1, <1>3, <1>4, <1>9 DEF Pushes
<1>10. QED
  BY <1>6, <1>7, <1>8, <1>9, Moves, Zenon

\* The free items after a step.
LEMMA FreeNext ==
    ASSUME TypeOK, LocalInv, HeldInv, ChainInv, RangesInv, RangesInv', TypeOK', ~DoubleFree,
           NEW t \in Thread, ThreadStep(t)
    PROVE  /\ Keeps(t) => FreeItems' = FreeItems
           /\ Pops(t) => FreeItems' = FreeItems \ {free_list_head}
           /\ \A i \in Item : Bumps(t, i) => FreeItems' = FreeItems
           /\ Pushes(t) => item[t] \notin FreeItems /\ FreeItems' = FreeItems \cup {item[t]}
<1>1. \A u \in Thread : u # t => Held(u)' = Held(u)
  BY Zenon, OthersHeld
<1>2. \A u \in Thread : Held(u) \subseteq EverAllocated
  BY Zenon DEF HeldInv
<1>3. \A u, v \in Thread : u # v => Held(u) \cap Held(v) = {}
  BY Zenon DEF HeldInv, HeldByOne
<1>4. FreeItems = {j \in EverAllocated : \A u \in Thread : j \notin Held(u)}
  BY Zenon DEF FreeItems, IsHeld
<1>5. FreeItems' = {j \in EverAllocated' : \A u \in Thread : j \notin Held(u)'}
  BY Zenon DEF FreeItems, IsHeld
<1>6. Keeps(t) => FreeItems' = FreeItems
  BY Zenon, <1>1, <1>4, <1>5 DEF Keeps
<1>7. Pops(t) => FreeItems' = FreeItems \ {free_list_head}
  BY Zenon, <1>1, <1>4, <1>5 DEF Pops
<1>8. \A i \in Item : Bumps(t, i) => FreeItems' = FreeItems
  BY <1>1, <1>2, <1>4, <1>5, SMTT(30) DEF Bumps
<1>9. Pushes(t) => item[t] \notin FreeItems /\ FreeItems' = FreeItems \cup {item[t]}
  BY <1>1, <1>2, <1>3, <1>4, <1>5 DEF Pushes
<1>10. QED
  BY <1>6, <1>7, <1>8, <1>9, SMTT(30)

\* The free list after a step: the same, one item shorter or one longer.
LEMMA ChainNext ==
    ASSUME TypeOK, LocalInv, HeldInv, ChainInv, RangesInv, RangesInv', TypeOK', ~DoubleFree,
           NEW t \in Thread, ThreadStep(t)
    PROVE  ChainInv'
<1> USE NullNotItem
<1>0. PICK n \in Nat : \E s \in [1 .. n -> Item] : ListedAs(n, s)
  BY Zenon DEF ChainInv
<1>1. PICK s \in [1 .. n -> Item] : ListedAs(n, s)
  BY Zenon, <1>0
<1>2. /\ \A j, k \in 1 .. n : s[j] = s[k] => j = k
      /\ {s[k] : k \in 1 .. n} = FreeItems
      /\ free_list_head = IF n = 0 THEN NULL ELSE s[1]
      /\ \A k \in 1 .. n : Ptr(s[k]) = IF k = n THEN NULL ELSE s[k + 1]
  BY Zenon, <1>1 DEF ListedAs, Ptr
<1>3. \A k \in 1 .. n : Ptr(s[k])' = Ptr(s[k])
  <2>1. ASSUME NEW k \in 1 .. n PROVE Ptr(s[k])' = Ptr(s[k])
    <3>1. s[k] \in FreeItems /\ s[k] \in Item
      BY Zenon, <1>2
    <3>2. ~IsHeld(s[k])
      BY Zenon, <3>1 DEF FreeItems
    <3>3. QED
      BY <3>1, <3>2, ElsewhereKept, Zenon
  <2>2. QED
    BY Zenon, <2>1
<1>4. SUFFICES \E m \in Nat : \E r \in [1 .. m -> Item] :
                   /\ \A j, k \in 1 .. m : r[j] = r[k] => j = k
                   /\ {r[k] : k \in 1 .. m} = FreeItems'
                   /\ free_list_head' = IF m = 0 THEN NULL ELSE r[1]
                   /\ \A k \in 1 .. m : Ptr(r[k])' = IF k = m THEN NULL ELSE r[k + 1]
  BY Zenon DEF ChainInv, ListedAs, Ptr
<1>5. CASE FreeItems' = FreeItems /\ free_list_head' = free_list_head
  <2>1. \A k \in 1 .. n : Ptr(s[k])' = IF k = n THEN NULL ELSE s[k + 1]
    BY Zenon, <1>2, <1>3
  <2>2. QED
    BY Zenon, <1>2, <1>5, <2>1
<1>6. CASE Pops(t)
  <2>1. n # 0 /\ free_list_head = s[1] /\ n - 1 \in Nat /\ 1 \in 1 .. n
    BY <1>2, <1>6 DEF Pops
  <2>2. DEFINE m == n - 1
               r == [k \in 1 .. m |-> s[k + 1]]
  <2>3. \A k \in 1 .. m : k + 1 \in 1 .. n /\ k # n /\ k \in 1 .. n /\ (k = m <=> k + 1 = n)
    BY <2>1
  <2>4. r \in [1 .. m -> Item]
    BY Zenon, <2>3
  <2>5. \A j, k \in 1 .. m : r[j] = r[k] => j = k
    <3>1. ASSUME NEW j \in 1 .. m, NEW k \in 1 .. m, r[j] = r[k] PROVE j = k
      <4>1. s[j + 1] = s[k + 1] /\ j + 1 \in 1 .. n /\ k + 1 \in 1 .. n
        BY <2>3, <3>1, SMTT(30)
      <4>2. j + 1 = k + 1
        BY <1>2, <4>1, SMTT(30)
      <4>3. QED
        BY <4>2
    <3>2. QED
      BY Zenon, <3>1
  <2>6. {r[k] : k \in 1 .. m} = FreeItems'
    <3>1. FreeItems' = FreeItems \ {s[1]}
      BY Zenon, <1>6, <2>1, FreeNext
    <3>2. ASSUME NEW k \in 1 .. m PROVE r[k] \in FreeItems \ {s[1]}
      <4>1. s[k + 1] \in FreeItems /\ k + 1 \in 1 .. n /\ k + 1 # 1
        BY <1>2, <2>3, <3>2, SMTT(30)
      <4>2. s[k + 1] # s[1]
        BY <1>2, <2>1, <4>1, SMTT(30)
      <4>3. QED
        BY <4>1, <4>2, SMTT(30)
    <3>3. ASSUME NEW i \in FreeItems, i # s[1] PROVE \E k \in 1 .. m : r[k] = i
      <4>1. PICK k \in 1 .. n : s[k] = i
        BY Zenon, <1>2
      <4>2. k - 1 \in 1 .. m /\ (k - 1) + 1 = k
        BY <2>1, <3>3, <4>1
      <4>3. r[k - 1] = i
        BY <4>1, <4>2, SMTT(30)
      <4>4. QED
        BY <4>2, <4>3, SMTT(30)
    <3> HIDE DEF r
    <3>4. QED
      BY <3>1, <3>2, <3>3, SMTT(30)
  <2>7. free_list_head' = Ptr(s[1])
    BY <1>6, <2>1, SMTT(30) DEF Pops
  <2>8. Ptr(s[1]) = IF 1 = n THEN NULL ELSE s[2]
    BY <1>2, <2>1, SMTT(30)
  <2>9. free_list_head' = IF m = 0 THEN NULL ELSE r[1]
    <3>1. CASE n = 1
      <4>1. m = 0
        BY <3>1, SMTT(30)
      <4>2. QED
        BY Zenon, <2>7, <2>8, <3>1, <4>1
    <3>2. CASE n # 1
      <4>1. m # 0 /\ 1 \in 1 .. m
        BY <2>1, <3>2, SMTT(30)
      <4>2. QED
        BY <2>7, <2>8, <3>2, <4>1
    <3>3. QED
      BY Zenon, <3>1, <3>2
  <2>10. \A k \in 1 .. m : Ptr(r[k])' = IF k = m THEN NULL ELSE r[k + 1]
    <3>1. ASSUME NEW k \in 1 .. m PROVE Ptr(r[k])' = IF k = m THEN NULL ELSE r[k + 1]
      <4>1. Ptr(s[k + 1])' = IF k + 1 = n THEN NULL ELSE s[k + 2]
        BY <1>2, <1>3, <2>3
      <4>2. k # m => k + 1 \in 1 .. m /\ r[k + 1] = s[k + 2]
        BY <2>1
      <4>3. r[k] = s[k + 1]
        OBVIOUS
      <4>4. QED
        BY Zenon, <2>3, <4>1, <4>2, <4>3
    <3>2. QED
      BY <3>1, Zenon
  <2>11. m \in Nat
    BY Zenon, <2>1
  <2>12. QED
    BY <2>4, <2>5, <2>6, <2>9, <2>10, <2>11, Zenon
<1>7. CASE Pushes(t)
  <2>0. PICK i \in Item : i = item[t]
    BY <1>7, ZenonT(40) DEF Pushes
  <2>1. i \notin FreeItems /\ FreeItems' = FreeItems \cup {i} /\ free_list_head' = i /\ Ptr(i) = free_list_head
    BY Zenon, <1>7, <2>0, FreeNext DEF Pushes
  <2>2. DEFINE m == n + 1
               r == [k \in 1 .. m |-> IF k = 1 THEN i ELSE s[k - 1]]
  <2>3. \A k \in 1 .. m : k # 1 => k - 1 \in 1 .. n /\ (k = m <=> k - 1 = n)
    OBVIOUS
  <2>4. r \in [1 .. m -> Item]
    BY <2>3, SMTT(30)
  <2>5. \A j, k \in 1 .. m : r[j] = r[k] => j = k
    <3>1. ASSUME NEW j \in 1 .. m, NEW k \in 1 .. m, r[j] = r[k] PROVE j = k
      <4>1. j # 1 => s[j - 1] \in FreeItems
        BY <1>2, <2>3, SMTT(30)
      <4>2. k # 1 => s[k - 1] \in FreeItems
        BY Zenon, <1>2, <2>3
      <4>3. CASE j = 1 \/ k = 1
        BY Zenon, <2>1, <3>1, <4>1, <4>2, <4>3
      <4>4. CASE j # 1 /\ k # 1
        <5>1. s[j - 1] = s[k - 1] /\ j - 1 \in 1 .. n /\ k - 1 \in 1 .. n
          BY Zenon, <2>3, <3>1, <4>4
        <5>2. j - 1 = k - 1
          BY <1>2, <5>1, SMTT(30)
        <5>3. QED
          BY <5>2, SMTT(30)
      <4>5. QED
        BY <4>3, <4>4, SMTT(30)
    <3>2. QED
      BY Zenon, <3>1
  <2>6. {r[k] : k \in 1 .. m} = FreeItems'
    <3>1. ASSUME NEW k \in 1 .. m PROVE r[k] \in FreeItems \cup {i}
      BY Zenon, <1>2, <2>3
    <3>2. ASSUME NEW j \in FreeItems \cup {i} PROVE \E k \in 1 .. m : r[k] = j
      <4>1. CASE j = i
        BY <4>1
      <4>2. CASE j # i
        <5>1. PICK k \in 1 .. n : s[k] = j
          BY Zenon, <1>2, <4>2
        <5>2. k + 1 \in 1 .. m /\ k + 1 # 1 /\ (k + 1) - 1 = k
          OBVIOUS
        <5>3. r[k + 1] = j
          BY Zenon, <5>1, <5>2
        <5>4. QED
          BY Zenon, <5>2, <5>3
      <4>3. QED
        BY Zenon, <4>1, <4>2
    <3>3. QED
      BY <2>1, <3>1, <3>2, SMTT(30)
  <2>7. m \in Nat /\ m # 0 /\ 1 \in 1 .. m /\ free_list_head' = r[1]
    BY <2>1, SMTT(30)
  <2>8. \A k \in 1 .. m : Ptr(r[k])' = IF k = m THEN NULL ELSE r[k + 1]
    <3>1. ASSUME NEW k \in 1 .. m PROVE Ptr(r[k])' = IF k = m THEN NULL ELSE r[k + 1]
      <4>1. CASE k = 1
        <5>1. r[k] = i /\ Ptr(i)' = Ptr(i)
          BY Zenon, <1>7, <4>1, MemKeptEffect DEF Pushes
        <5>2. Ptr(i) = IF n = 0 THEN NULL ELSE s[1]
          BY Zenon, <1>2, <2>1
        <5>3. n # 0 => 2 \in 1 .. m /\ r[2] = s[1]
          BY SMTT(30)
        <5>4. QED
          BY <4>1, <5>1, <5>2, <5>3, SMTT(30)
      <4>2. CASE k # 1
        <5>1. k - 1 \in 1 .. n /\ r[k] = s[k - 1]
          BY <2>3, <4>2, SMTT(30)
        <5>2. Ptr(s[k - 1])' = IF k - 1 = n THEN NULL ELSE s[(k - 1) + 1]
          BY Zenon, <1>2, <1>3, <5>1
        <5>3. k # m => k + 1 \in 1 .. m /\ r[k + 1] = s[(k - 1) + 1]
          BY <4>2
        <5>4. QED
          BY Zenon, <2>3, <4>2, <5>1, <5>2, <5>3
      <4>3. QED
        BY <4>1, <4>2, SMTT(30)
    <3>2. QED
      BY <3>1, SMTT(30)
  <2>9. QED
    BY <2>4, <2>5, <2>6, <2>7, <2>8, Zenon
<1>8. QED
  BY <1>5, <1>6, <1>7, Moves, FreeNext, Zenon DEF Keeps, Bumps

=============================================================================
