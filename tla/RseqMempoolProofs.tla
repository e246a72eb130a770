------------------------- MODULE RseqMempoolProofs --------------------------
(***************************************************************************)
(* The part of the pool's invariant about the contents of the items, and   *)
(* the theorems: the whole invariant holds, and the properties with it,    *)
(* the verdict of rseq_mempool_destroy() and the refinement of the         *)
(* abstract allocator among them.                                          *)
(***************************************************************************)
EXTENDS RseqMempoolFreeList, NaturalsInduction, WellFoundedInduction

\* The attributes never change.
LEMMA AttrKept == ASSUME NEW t \in Thread, ThreadStep(t) PROVE attr' = attr
BY Zenon
   DEF ThreadStep, Step, Malloc, Call, MallocInitTooLong, Free, Store, Lock, ReadHead, Pop, Bump, CreateRange,
       Exhausted, MappingFails, set_alloc_slot, Unlock, FillInit, FillCpu, Filled, clear_alloc_slot, Link, Push

\* Every bit is set by set_alloc_slot() and cleared by clear_alloc_slot(), and
\* neither finds it as it would leave it.
LEMMA BitmapNext ==
    ASSUME TypeOK, LocalInv, HeldInv, BitmapInv, ~DoubleFree, NEW t \in Thread, ThreadStep(t)
    PROVE  /\ BitmapInv'
           /\ set_alloc_slot(t) \/ clear_alloc_slot(t) => alarm' = "none"
<1> USE NullNotItem
<1>0. /\ pc \in [Thread -> Location] /\ kind \in [Thread -> Kind] /\ item \in [Thread -> Item \cup {NULL}]
      /\ owned \in [Thread -> SUBSET Item]
  BY SMTT(30) DEF TypeOK
<1>1. Knows(t) /\ owned[t] \cap Busy(t) = {}
  BY Zenon DEF LocalInv, HeldInv
<1>2. \A u \in Thread : u # t => Marked(u)' = Marked(u)
  BY OthersLocals, ZenonT(40) DEF Marked, Busy
<1>3. \A u \in Thread : u # t => Marked(u) \cap Held(t) = {}
  BY Zenon DEF HeldInv, HeldByOne, Held, Marked
<1>4. attr' = attr
  BY Zenon, AttrKept
<1>5. CASE set_alloc_slot(t)
  <2>1. pc[t] = "slot" /\ kind[t] # "free" /\ item[t] \in Item /\ alarm = "none"
    BY <1>0, <1>1, <1>5, Zenon DEF set_alloc_slot, At, Running, Knows
  <2>2. Busy(t) = {item[t]} /\ Marked(t) = owned[t] /\ Marked(t)' = owned[t] \cup {item[t]}
    BY Zenon, <1>0, <1>5, <2>1 DEF Busy, Marked, set_alloc_slot, Goto, callvars, uservars
  <2>3. \A u \in Thread : item[t] \notin Marked(u)
    BY <1>1, <1>3, <2>2, Zenon DEF Held
  <2>4. attr.robust => item[t] \notin alloc_bitmap /\ alloc_bitmap' = alloc_bitmap \cup {item[t]}
    BY <1>5, <2>1, <2>3, Zenon DEF BitmapInv, set_alloc_slot
  <2>5. alarm' = "none"
    BY <1>5, <2>1, <2>4, SMTT(30) DEF set_alloc_slot
  <2>6. BitmapInv'
    BY <1>2, <1>4, <2>2, <2>4 DEF BitmapInv
  <2>7. QED
    BY Zenon, <2>5, <2>6
<1>6. CASE clear_alloc_slot(t)
  <2>1. pc[t] = "clear" /\ kind[t] = "free" /\ item[t] \in Item /\ alarm = "none"
    BY <1>0, <1>1, <1>6, Zenon DEF clear_alloc_slot, At, Running, Knows
  <2>2. Busy(t) = {item[t]} /\ Marked(t) = owned[t] \cup {item[t]} /\ Marked(t)' = owned[t]
    BY <1>0, <1>6, <2>1, Zenon DEF Busy, Marked, clear_alloc_slot, Goto, callvars, uservars
  <2>3. \A u \in Thread : u # t => item[t] \notin Marked(u)
    BY Zenon, <1>3, <2>2 DEF Held
  <2>4. attr.robust => item[t] \in alloc_bitmap /\ alloc_bitmap' = alloc_bitmap \ {item[t]}
    BY <1>6, <2>1, <2>2, Zenon DEF BitmapInv, clear_alloc_slot
  <2>5. alarm' = "none"
    BY <1>6, <2>1, <2>4, Zenon DEF clear_alloc_slot
  <2>6. item[t] \notin owned[t]
    BY <1>1, <2>2, SMTT(30)
  <2>7. BitmapInv'
    BY <1>2, <1>4, <2>2, <2>3, <2>4, <2>6 DEF BitmapInv
  <2>8. QED
    BY Zenon, <2>5, <2>7
<1>7. CASE ~set_alloc_slot(t) /\ ~clear_alloc_slot(t)
  <2>1. alloc_bitmap' = alloc_bitmap
    BY <1>7, Zenon
       DEF ThreadStep, Step, Malloc, Call, MallocInitTooLong, Free, Store, Lock, ReadHead, Pop,
           Bump, CreateRange, Exhausted, MappingFails, Unlock, FillInit, FillCpu, Filled, Link, Push, poolvars
  <2>2. Marked(t)' = Marked(t)
    <3>1. CASE (\E k \in Kind : Malloc(t, k)) \/ \E i \in Item : Free(t, i)
      BY <1>0, <1>1, <3>1, SMTT(30) DEF Malloc, Free, Call, At, Goto, Marked, Busy, Knows
    <3>2. CASE MallocInitTooLong(t) \/ \E c \in Cpu, i \in Item : Store(t, c, i)
      BY <3>2, Zenon DEF MallocInitTooLong, Store, Marked, Busy, callvars, uservars
    <3>3. CASE Lock(t) \/ Exhausted(t) \/ MappingFails(t) \/ ReadHead(t)
      BY <1>0, <1>1, <3>3, Zenon
         DEF Lock, Exhausted, MappingFails, ReadHead, At, Goto, Marked, Busy, Knows, callvars, uservars
    <3>4. CASE Pop(t) \/ Bump(t) \/ CreateRange(t)
      <4>1. pc[t] \in {"pop", "range"} /\ pc'[t] = "slot" /\ owned' = owned /\ kind' = kind
        BY <1>0, <3>4, Zenon DEF Pop, Bump, CreateRange, TakeUnused, At, Goto, uservars
      <4>2. QED
        BY <1>1, <4>1, Zenon DEF Marked, Knows
    <3>5. CASE FillInit(t) \/ FillCpu(t) \/ Link(t) \/ Push(t)
      BY <1>0, <1>1, <3>5, Zenon
         DEF FillInit, FillCpu, Link, Push, At, Goto, Marked, Busy, Knows, callvars, uservars
    <3>6. CASE (Unlock(t) \/ Filled(t)) /\ Return(t)
      <4>1. pc'[t] = "idle" /\ kind'[t] = "malloc"
        BY Zenon, <1>0, <3>6 DEF Return, Goto
      <4>2. Marked(t)' = owned'[t]
        BY <4>1, Zenon DEF Marked
      <4>3. CASE kind[t] # "free" /\ item[t] # NULL
        <5>1. owned'[t] = owned[t] \cup {item[t]}
          BY Zenon, <1>0, <3>6, <4>3 DEF Return
        <5>2. pc[t] \in {"unlock", "fill_cpu"}
          BY <1>1, <3>6, <4>3, Zenon DEF Unlock, Filled, At, Knows
        <5>3. QED
          BY <4>2, <4>3, <5>1, <5>2, Zenon DEF Marked, Busy
      <4>4. CASE kind[t] = "free" \/ item[t] = NULL
        <5>1. owned' = owned
          BY <3>6, <4>4, Zenon DEF Return
        <5>2. kind[t] = "free" => pc[t] = "unlock"
          BY <1>0, <1>1, <3>6, Zenon DEF Unlock, Filled, Return, At, Goto, Knows
        <5>3. QED
          BY <4>2, <4>4, <5>1, <5>2, Zenon DEF Marked, Busy
      <4>5. QED
        BY <4>3, <4>4, SMTT(30)
    <3>7. CASE (Unlock(t) \/ Filled(t)) /\ ~Return(t)
      BY <1>0, <1>1, <3>7, Zenon DEF Unlock, Filled, At, Goto, Marked, Busy, Knows, callvars, uservars
    <3>8. QED
      BY Zenon, <1>7, <3>1, <3>2, <3>3, <3>4, <3>5, <3>6, <3>7 DEF ThreadStep, Step
  <2>3. QED
    BY Zenon, <1>2, <1>4, <1>7, <2>1, <2>2 DEF BitmapInv
<1>8. QED
  BY <1>5, <1>6, <1>7, SMTT(30)

\* What the fills have written stays written.
LEMMA FillNext ==
    ASSUME TypeOK, LocalInv, HeldInv, FillInv, NEW t \in Thread, ThreadStep(t)
    PROVE  FillInv'
<1> USE NullNotItem
<1>0. /\ pc \in [Thread -> Location] /\ kind \in [Thread -> Kind] /\ item \in [Thread -> Item \cup {NULL}]
      /\ cpu \in [Thread -> 0 .. NCpu] /\ init \in [Item -> Word] /\ NCpu \in Nat
  BY Zenon, MempoolAssumption DEF TypeOK
<1>1. Knows(t) /\ attr' = attr
  BY Zenon, AttrKept DEF LocalInv
<1>2. ASSUME NEW u \in Thread, NEW i \in Item, u # t, item'[u] = i PROVE Filling(u, i)'
  <2>1. /\ pc'[u] = pc[u] /\ kind'[u] = kind[u] /\ item[u] = i /\ cpu'[u] = cpu[u]
    BY Zenon, <1>2, OthersLocals
  <2>2. Filling(u, i) /\ Value(u)' = Value(u)
    BY <1>1, <2>1, Zenon DEF FillInv, Value
  <2>3. CASE pc[u] \in {"fill_cpu", "link", "push"}
    <3>1. i \in Busy(u)
      BY <2>1, <2>3, Zenon DEF Busy
    <3>2. init'[i] = init[i] /\ \A c \in Cpu : View(c, i)' = View(c, i)
      BY <1>2, <3>1, ElsewhereKept, Zenon
    <3>3. QED
      BY <1>1, <2>1, <2>2, <3>2, Zenon DEF Filling, HasWord
  <2>4. CASE pc[u] \notin {"fill_cpu", "link", "push"}
    BY <2>1, <2>4, ZenonT(40) DEF Filling
  <2>5. QED
    BY <2>3, <2>4, SMTT(30)
<1>3. SUFFICES ASSUME NEW i \in Item, item'[t] = i PROVE Filling(t, i)'
  BY Zenon, <1>2 DEF FillInv
<1>4. CASE FillInit(t)
  <2>1. pc'[t] = "fill_cpu" /\ cpu'[t] = 0 /\ item[t] = i /\ Value(t)' = Value(t)
    BY <1>0, <1>1, <1>3, <1>4, SMTT(30) DEF FillInit, Goto, Value
  <2>2. attr.cow_init => init'[i] = Value(t)
    BY Zenon, <1>0, <1>4, <2>1 DEF FillInit
  <2>3. \A c \in Cpu : ~(c < 0)
    BY <1>0 DEF Cpu
  <2>4. QED
    BY <1>1, <2>1, <2>2, <2>3, ZenonT(40) DEF Filling
<1>5. CASE FillCpu(t)
  <2>1. /\ pc[t] = "fill_cpu" /\ pc' = pc /\ cpu[t] < NCpu /\ cpu'[t] = cpu[t] + 1 /\ item[t] = i
        /\ Value(t)' = Value(t)
    BY <1>0, <1>1, <1>3, <1>5, SMTT(30) DEF FillCpu, At, Value
  <2>2. cpu[t] \in Cpu /\ Value(t) \in Word
    BY <1>0, <2>1, ValueType DEF Cpu
  <2>3. PICK d \in Cpu : d = cpu[t]
    BY <2>2, SMTT(30)
  <2>4. init' = init /\ View(d, i)' = Value(t)
        /\ \A c \in Cpu : c # d => View(c, i)' = View(c, i)
    <3>1. CASE View(d, i) = Value(t)
      <4>1. MemKept
        BY <1>1, <1>5, <2>1, <2>3, <3>1, ZenonT(40) DEF FillCpu, MemKept
      <4>2. QED
        BY Zenon, <3>1, <4>1, MemKeptEffect
    <3>2. CASE View(d, i) # Value(t)
      <4>1. StoreCpu(d, i, Value(t))
        BY <1>5, <2>1, <2>3, <3>2, Zenon DEF FillCpu
      <4>2. QED
        BY <1>1, <2>2, <4>1, StoreCpuEffect
    <3>3. QED
      BY <3>1, <3>2, SMTT(30)
  <2>5. Filling(t, i)
    BY <2>1, Zenon DEF FillInv
  <2>6. \A c \in Cpu : c < cpu[t] + 1 => c = d \/ c < cpu[t]
    BY <1>0, <2>3 DEF Cpu
  <2>7. /\ attr.cow_init => init'[i] = Value(t)
        /\ \A c \in Cpu : c < cpu'[t] => View(c, i)' = Value(t)
    BY <2>1, <2>4, <2>5, <2>6, Zenon DEF Filling
  <2>8. QED
    BY <1>1, <2>1, <2>7, ZenonT(40) DEF Filling
<1>6. CASE Filled(t)
  <2>1. CASE kind[t] = "free"
    <3>1. /\ pc[t] = "fill_cpu" /\ cpu[t] = NCpu /\ pc'[t] = "link" /\ item[t] = i /\ MemKept
      BY <1>0, <1>3, <1>6, <2>1, SMTT(30) DEF Filled, At, Goto, MemKept, callvars
    <3>2. Filling(t, i) /\ Value(t) = attr.poison
      BY Zenon, <2>1, <3>1 DEF FillInv, Value
    <3>3. \A c \in Cpu : c < NCpu
      BY <1>0 DEF Cpu
    <3>4. HasWord(i, attr.poison)
      BY <3>1, <3>2, <3>3, Zenon DEF Filling, HasWord
    <3>5. init' = init /\ \A c \in Cpu : View(c, i)' = View(c, i)
      BY <3>1, MemKeptEffect, Zenon
    <3>6. QED
      BY <1>1, <3>1, <3>4, <3>5, ZenonT(40) DEF Filling, HasWord
  <2>2. CASE kind[t] # "free"
    <3>1. pc'[t] = "idle"
      BY Zenon, <1>0, <1>6, <2>2 DEF Filled, Return, Goto
    <3>2. QED
      BY <3>1, ZenonT(40) DEF Filling
  <2>3. QED
    BY Zenon, <2>1, <2>2
<1>7. CASE clear_alloc_slot(t)
  <2>1. attr.robust => attr.poison_set
    BY MempoolAssumption, SMTT(30) DEF TypeOK
  <2>2. pc'[t] \in {"fill", "link"} /\ (attr.robust => pc'[t] = "fill")
    BY Zenon, <1>0, <1>7, <2>1 DEF clear_alloc_slot, Goto
  <2>3. QED
    BY <1>1, <2>2, ZenonT(40) DEF Filling
<1>8. CASE Link(t)
  <2>1. pc[t] = "link" /\ item[t] = i /\ node[t] \in Word /\ StoreLink(item[t], node[t]) /\ pc'[t] = "push"
    BY <1>0, <1>3, <1>8, Zenon DEF Link, At, Goto, callvars, TypeOK, Word, NULL
  <2>2. attr.robust => init' = init /\ \A c \in Cpu : View(c, i)' = View(c, i)
    BY <1>1, <2>1, StoreLinkEffect, Zenon
  <2>3. attr.robust => HasWord(i, attr.poison)
    BY <2>1, ZenonT(40) DEF FillInv, Filling
  <2>4. QED
    BY <1>1, <2>1, <2>2, <2>3, Zenon DEF Filling, HasWord
<1>9. CASE pc'[t] \notin {"fill_cpu", "link", "push"}
  BY Zenon, <1>9 DEF Filling
<1>10. QED
  BY <1>0, <1>1, <1>4, <1>5, <1>6, <1>7, <1>8, <1>9, Zenon
    
        DEF ThreadStep, Step, Malloc, Call, MallocInitTooLong, Free, Store, Lock, ReadHead, Pop, Bump, TakeUnused,
         CreateRange, Exhausted, MappingFails, set_alloc_slot, Unlock, Return, Push, At, Goto

\* The free items of a robust pool stay poisoned, and those that become free are.
LEMMA PoisonNext ==
    ASSUME TypeOK, LocalInv, HeldInv, ChainInv, RangesInv, RangesInv', TypeOK', ~DoubleFree,
           FillInv, PoisonInv, NEW t \in Thread, ThreadStep(t)
    PROVE  PoisonInv'
<1>1. attr' = attr
  BY Zenon, AttrKept
<1>2. SUFFICES ASSUME attr.robust, NEW i \in FreeItems' PROVE HasWord(i, attr.poison)'
  BY <1>1, SMTT(30) DEF PoisonInv
<1>3. i \in Item
  BY Zenon, <1>2 DEF FreeItems, EverAllocated
<1>4. CASE i \in FreeItems
  <2>1. ~IsHeld(i) /\ HasWord(i, attr.poison)
    BY Zenon, <1>2, <1>4 DEF FreeItems, PoisonInv
  <2>2. init'[i] = init[i] /\ \A c \in Cpu : View(c, i)' = View(c, i)
    BY <1>3, <2>1, ElsewhereKept, Zenon
  <2>3. QED
    BY <1>1, <2>1, <2>2, Zenon DEF HasWord
<1>5. CASE i \notin FreeItems
  <2>1. Pushes(t) /\ i = item[t]
    BY <1>2, <1>5, Moves, FreeNext, SMTT(30)
  <2>2. init' = init /\ \A c \in Cpu : View(c, i)' = View(c, i)
    BY <2>1, MemKeptEffect, SMTT(30) DEF Pushes
  <2>3. free_list_head' # free_list_head
    <3>1. Ptr(item[t]) = free_list_head /\ free_list_head' = item[t]
      BY Zenon, <2>1 DEF Pushes
    <3>2. CASE free_list_head = item[t]
      <4>1. free_list_head # NULL
        BY Zenon, <1>3, <2>1, <3>2, NullNotItem
      <4>2. free_list_head \in FreeItems
        BY Zenon, <4>1, HeadLink
      <4>3. QED
        BY Zenon, <1>5, <2>1, <3>2, <4>2
    <3>3. QED
      BY Zenon, <3>1, <3>2
  <2>4. Push(t) \/ Pop(t)
    BY <2>3, Zenon
       DEF ThreadStep, Step, Malloc, Call, MallocInitTooLong, Free, Store, Lock, ReadHead, Bump,
       CreateRange, Exhausted, MappingFails, set_alloc_slot, Unlock, FillInit, FillCpu, Filled,
       clear_alloc_slot, Link, poolvars
  <2>5. pc[t] = "push"
    BY <1>3, <2>1, <2>4, NullNotItem, Zenon DEF Push, Pop, At, LocalInv, Knows
  <2>6. HasWord(i, attr.poison)
    BY <1>2, <1>3, <2>1, <2>5, Zenon DEF FillInv, Filling
  <2>7. QED
    BY <1>1, <2>2, <2>6, Zenon DEF HasWord
<1>6. QED
  BY Zenon, <1>4, <1>5

\* No step of a call calls abort().
LEMMA AlarmNext ==
    ASSUME TypeOK, LocalInv, HeldInv, ChainInv, BitmapInv, PoisonInv, ~DoubleFree,
           NEW t \in Thread, ThreadStep(t)
    PROVE  alarm' = "none" /\ destroyed' = FALSE
<1>1. Running /\ destroyed \in BOOLEAN
  BY Zenon
     DEF TypeOK, ThreadStep, Step, Malloc, Call, MallocInitTooLong, Free, Store, Lock, ReadHead, Pop, Bump,
         CreateRange, Exhausted, MappingFails, set_alloc_slot, Unlock, FillInit, FillCpu, Filled,
         clear_alloc_slot, Link, Push, At
<1>2. destroyed' = destroyed
  BY Zenon
     DEF ThreadStep, Step, Malloc, Call, MallocInitTooLong, Free, Store, Lock, ReadHead, Pop, Bump,
         CreateRange, Exhausted, MappingFails, set_alloc_slot, Unlock, Return, FillInit, FillCpu, Filled,
         clear_alloc_slot, Link, Push, uservars
<1>3. CASE Pop(t)
  <2>1. node[t] = free_list_head /\ free_list_head # NULL
    BY <1>3, Zenon DEF Pop, At, LocalInv, Knows
  <2>2. rseq_percpu_check_poison_item(node[t])
    BY <2>1, HeadLink, Zenon DEF rseq_percpu_check_poison_item, PoisonInv, HasWord
  <2>3. QED
    BY Zenon, <1>1, <1>2, <1>3, <2>2 DEF Pop, Running
<1>4. CASE set_alloc_slot(t) \/ clear_alloc_slot(t)
  BY Zenon, <1>1, <1>2, <1>4, BitmapNext DEF Running
<1>5. CASE ~Pop(t) /\ ~set_alloc_slot(t) /\ ~clear_alloc_slot(t)
  BY <1>1, <1>2, <1>5, Zenon
     DEF Running, ThreadStep, Step, Malloc, Call, MallocInitTooLong, Free, Store, Lock, ReadHead, Bump,
         CreateRange, Exhausted, MappingFails, Unlock, FillInit, FillCpu, Filled, Link, Push
<1>6. QED
  BY <1>3, <1>4, <1>5, Zenon

\* The pool stays full while the failing allocation is inside the mutex.
LEMMA FullNext ==
    ASSUME TypeOK, LocalInv, LockInv, OneInside, RangesInv, FullInv, NEW t \in Thread, ThreadStep(t)
    PROVE  FullInv'
<1>0. /\ pc \in [Thread -> Location] /\ next_unused \in [Ranges -> 0 .. ItemsPerRange]
      /\ nr_ranges \in Ranges /\ MaxNrRanges \in Nat \ {0} /\ ItemsPerRange \in Nat \ {0}
  BY Zenon, MempoolAssumption DEF TypeOK
<1>1. ASSUME NEW u \in Thread, u # t, pc'[u] = "full"
      PROVE  free_list_head' = NULL /\ \A r \in Ranges : next_unused'[r] = ItemsPerRange
  <2>1. pc[u] = "full"
    BY <1>1, OthersLocals, SMTT(30)
  <2>2. ~Inside(t)
    BY Zenon, <1>1, <2>1 DEF LockInv, OneInside, Inside
  <2>3. UNCHANGED <<free_list_head, next_unused>>
    BY <2>2, Zenon
       DEF ThreadStep, Step, Malloc, Call, MallocInitTooLong, Free, Store, Lock, ReadHead, Pop, Bump,
       TakeUnused, CreateRange, Exhausted, MappingFails, set_alloc_slot, Unlock, FillInit, FillCpu,
       Filled, clear_alloc_slot, Link, Push, At, Inside, poolvars
  <2>4. QED
    BY <2>1, <2>3, SMTT(30) DEF FullInv
<1>2. ASSUME pc'[t] = "full"
      PROVE  free_list_head' = NULL /\ \A r \in Ranges : next_unused'[r] = ItemsPerRange
  <2>1. CASE Exhausted(t)
    <3>1. /\ pc[t] = "range" /\ ~RoomLeft /\ nr_ranges >= MaxNrRanges
          /\ UNCHANGED <<free_list_head, next_unused>>
      BY <2>1, SMTT(30) DEF Exhausted, At, poolvars
    <3>2. free_list_head = NULL
      BY Zenon, <3>1 DEF LocalInv, Knows
    <3>3. next_unused[nr_ranges] = ItemsPerRange
      BY <1>0, <3>1 DEF RoomLeft, RangesInv
    <3>4. \A r \in Ranges : r = nr_ranges \/ r < nr_ranges
      BY <1>0, <3>1 DEF Ranges
    <3>5. \A r \in Ranges : next_unused[r] = ItemsPerRange
      BY <3>3, <3>4, Zenon DEF RangesInv
    <3>6. QED
      BY Zenon, <3>1, <3>2, <3>5
  <2>2. CASE pc' = pc /\ UNCHANGED <<free_list_head, next_unused>>
    BY Zenon, <1>2, <2>2 DEF FullInv
  <2>3. QED
    BY <1>0, <1>2, <2>1, <2>2, Zenon
       DEF ThreadStep, Step, Malloc, Call, MallocInitTooLong, Free, Store, Lock, ReadHead, Pop, Bump,
         TakeUnused, CreateRange, MappingFails, set_alloc_slot, Unlock, Return, FillInit, FillCpu,
         Filled, clear_alloc_slot, Link, Push, Goto, poolvars
<1>3. QED
  BY <1>1, <1>2, SMTT(30) DEF FullInv

-----------------------------------------------------------------------------
\* The pool has been created with one range and no thread has called yet.
LEMMA InitIInv == Init => IInv
<1> SUFFICES ASSUME Init PROVE IInv
  OBVIOUS
<1> USE NullNotItem
<1>0. /\ NCpu \in Nat \ {0} /\ ItemsPerRange \in Nat \ {0} /\ MaxNrRanges \in Nat \ {0} /\ MaxCalls \in Nat
  BY Zenon, MempoolAssumption
<1>1. TypeOK
  <2>1. nr_ranges \in Ranges /\ range_list \in Seq(Ranges) /\ next_unused \in [Ranges -> 0 .. ItemsPerRange]
    BY <1>0, SMTT(30) DEF Init, Ranges
  <2>2. cpu \in [Thread -> 0 .. NCpu] /\ calls \in [Thread -> 0 .. MaxCalls]
    BY <1>0 DEF Init
  <2>3. Zero \in Word
    BY Zenon DEF Word
  <2>4. init \in [Item -> Word] /\ links \in [Item -> Word] /\ percpu \in [Cpu -> [Item -> Word]]
    BY Zenon, <2>3 DEF Init
  <2>5. pc \in [Thread -> Location] /\ kind \in [Thread -> Kind]
    BY Zenon DEF Init, Location, Kind
  <2>6. QED
    BY <2>1, <2>2, <2>4, <2>5, Zenon DEF Init, TypeOK
<1>2. RangesInv
  <2>1. /\ range_list = <<1>> /\ nr_ranges = 1 /\ \A r \in Ranges : next_unused[r] = 0
    BY Zenon DEF Init
  <2>2. {range_list[k] : k \in DOMAIN range_list} = 1 .. nr_ranges
    BY <2>1
  <2>3. \A r \in Ranges : ~(r < 1)
    BY <1>0 DEF Ranges
  <2>4. QED
    BY <2>1, <2>2, <2>3, SMTT(30) DEF RangesInv
<1>3. \A t \in Thread : Held(t) = {} /\ Busy(t) = {} /\ Marked(t) = {} /\ owned[t] = {}
  BY Zenon DEF Init, Held, Busy, Marked
<1>4. EverAllocated = {}
  <2>1. EverAllocated = {i \in Item : i[2] < next_unused[i[1]]}
    BY Zenon, <1>1, <1>2, EverAllocatedIs
  <2>2. \A i \in Item : i[1] \in Ranges /\ ~(i[2] < 0)
    BY <1>0 DEF Item
  <2>3. QED
    BY <2>1, <2>2, SMTT(30) DEF Init
<1>5. FreeItems = {}
  BY Zenon, <1>4 DEF FreeItems
<1>6. ChainInv
  <2>1. DEFINE s == [k \in 1 .. 0 |-> Zero]
  <2>2. s \in [1 .. 0 -> Item] /\ ListedAs(0, s)
    BY <1>5, SMTT(30) DEF ListedAs, Init
  <2>3. QED
    BY <2>2, Zenon DEF ChainInv
<1>7. LockInv /\ OneInside /\ LocalInv /\ FullInv
  BY Zenon DEF Init, LockInv, OneInside, Inside, LocalInv, Knows, FullInv
<1>8. HeldInv
  BY <1>3, Zenon DEF HeldInv, HeldByOne
<1>9. MemInv
  BY <1>3, <1>5, Zenon DEF Init, MemInv, BitmapInv, FillInv, Filling, PoisonInv
<1>10. NoFalseAlarm
  BY Zenon DEF Init, NoFalseAlarm
<1>11. QED
  BY Zenon, <1>1, <1>2, <1>6, <1>7, <1>8, <1>9, <1>10 DEF IInv, PoolInv

\* Destroying the pool, and stuttering, leave the state of the pool alone.
LEMMA RestNext ==
    ASSUME IInv, Destroy \/ UNCHANGED vars
    PROVE  IInv'
<1>1. UNCHANGED <<attr, poolvars, lock, memvars, pc, callvars, owned>>
  BY Zenon DEF Destroy, vars, uservars
<1>2. MemKept
  BY Zenon, <1>1 DEF MemKept
<1>3. /\ \A t \in Thread : Held(t)' = Held(t) /\ Busy(t)' = Busy(t) /\ Marked(t)' = Marked(t)
                          /\ Value(t)' = Value(t)
      /\ EverAllocated' = EverAllocated
  BY <1>1, Zenon DEF Held, Busy, Marked, EverAllocated, callvars, poolvars, Value
<1>4. FreeItems' = FreeItems
  BY Zenon, <1>3 DEF FreeItems, IsHeld
<1>5. RangesInv' /\ LockInv' /\ OneInside' /\ FullInv'
  BY <1>1, Zenon DEF IInv, PoolInv, RangesInv, LockInv, OneInside, Inside, FullInv, poolvars, callvars
<1>6. LocalInv'
  BY <1>1, <1>2, MemKeptEffect, KnowsKept, Zenon DEF IInv, PoolInv, LocalInv, poolvars, callvars
<1>7. HeldInv'
  BY <1>1, <1>3, Zenon DEF IInv, PoolInv, HeldInv, HeldByOne
<1>8. ChainInv'
  <2>1. PICK n \in Nat : \E s \in [1 .. n -> Item] : ListedAs(n, s)
    BY Zenon DEF IInv, PoolInv, ChainInv
  <2>2. PICK s \in [1 .. n -> Item] : ListedAs(n, s)
    BY <2>1, SMTT(30)
  <2>3. ListedAs(n, s)'
    BY Zenon, <1>1, <1>2, <1>4, <2>2, MemKeptEffect DEF ListedAs, Ptr, poolvars
  <2>4. QED
    BY Zenon, <2>3 DEF ChainInv
<1>9. MemInv'
  <2>1. BitmapInv'
    BY Zenon, <1>1, <1>3 DEF IInv, MemInv, BitmapInv, poolvars
  <2>2. FillInv'
    <3>1. /\ init' = init /\ attr' = attr /\ pc' = pc /\ cpu' = cpu /\ item' = item
          /\ \A c, i : View(c, i)' = View(c, i)
      BY <1>1, <1>2, MemKeptEffect, Zenon DEF callvars
    <3>2. \A t \in Thread, i \in Item : Filling(t, i) => Filling(t, i)'
      BY <1>3, <3>1, Zenon DEF Filling, HasWord
    <3>3. QED
      BY <3>1, <3>2, Zenon DEF IInv, MemInv, FillInv
  <2>3. PoisonInv'
    BY <1>1, <1>2, <1>4, MemKeptEffect, Zenon DEF IInv, MemInv, PoisonInv, HasWord
  <2>4. QED
    BY <2>1, <2>2, <2>3, SMTT(30) DEF MemInv
<1>10. TypeOK'
  BY Zenon DEF IInv, TypeOK, Destroy, vars, poolvars, memvars, callvars, uservars
<1>11. NoFalseAlarm'
  BY SMTT(30) DEF IInv, NoFalseAlarm, Destroy, vars, callvars, uservars
<1>12. QED
  BY Zenon, <1>5, <1>6, <1>7, <1>8, <1>9, <1>10, <1>11 DEF IInv, PoolInv

\* Every step preserves the inductive invariant.
LEMMA NextIInv == ~DoubleFree /\ IInv /\ [Next]_vars => IInv'
<1> SUFFICES ASSUME ~DoubleFree, IInv, [Next]_vars PROVE IInv'
  OBVIOUS
<1>1. CASE Destroy \/ UNCHANGED vars
  BY <1>1, RestNext, SMTT(30)
<1>2. ASSUME NEW t \in Thread, ThreadStep(t), Next PROVE IInv'
  <2>0. /\ TypeOK /\ RangesInv /\ LockInv /\ OneInside /\ LocalInv /\ HeldInv /\ ChainInv /\ FullInv
        /\ BitmapInv /\ FillInv /\ PoisonInv
    BY Zenon DEF IInv, PoolInv, MemInv
  <2>1. TypeOK' /\ RangesInv'
    BY Zenon, <1>2, <2>0, TypeNext, RangesNext
  <2>2. LockInv' /\ OneInside'
    BY <1>2, <2>0, LockNext, SMTT(30)
  <2>3. LocalInv' /\ HeldInv' /\ ChainInv' /\ FullInv'
    BY <1>2, <2>0, <2>1, LocalNext, HeldNext, ChainNext, FullNext, SMTT(30)
  <2>4. BitmapInv' /\ FillInv' /\ PoisonInv'
    BY Zenon, <1>2, <2>0, <2>1, BitmapNext, FillNext, PoisonNext
  <2>5. NoFalseAlarm'
    BY <1>2, <2>0, AlarmNext, Zenon DEF NoFalseAlarm
  <2>6. QED
    BY Zenon, <2>1, <2>2, <2>3, <2>4, <2>5 DEF IInv, PoolInv, MemInv
<1>3. QED
  BY Zenon, <1>1, <1>2 DEF Next, ThreadStep

\* The inductive invariant holds in every state.
LEMMA Invariance == ASSUME ~DoubleFree PROVE Spec => []IInv
<1>1. IInv /\ [Next]_vars => IInv'
  BY Zenon, NextIInv
<1>2. QED
  BY <1>1, InitIInv, PTL DEF Spec

\* Type correctness of the pool.
THEOREM PoolTyped == ASSUME ~DoubleFree PROVE Spec => []TypeOK
<1>1. IInv => TypeOK
  BY SMTT(30) DEF IInv
<1>2. QED
  BY <1>1, Invariance, PTL

\* No item is held by two threads: __rseq_percpu_malloc() never returns an item
\* that another thread has, is being given, or has not finished freeing.
THEOREM PoolExclusive == ASSUME ~DoubleFree PROVE Spec => []HeldByOne
<1>1. IInv => HeldByOne
  BY Zenon DEF IInv, PoolInv, HeldInv
<1>2. QED
  BY <1>1, Invariance, PTL

\* The free list meets every free item once, and ends, whatever the threads
\* that are in the middle of librseq_mempool_percpu_free() have done so far.
THEOREM PoolFreeList == ASSUME ~DoubleFree PROVE Spec => []FreeListSound
<1>1. IInv => FreeListSound
  <2>1. SUFFICES ASSUME IInv PROVE FreeListSound
    OBVIOUS
  <2>2. PICK n \in Nat : \E s \in [1 .. n -> Item] : ListedAs(n, s)
    BY Zenon, <2>1 DEF IInv, PoolInv, ChainInv
  <2>3. PICK s \in [1 .. n -> Item] : ListedAs(n, s)
    BY <2>2, SMTT(30)
  <2>4. s \in Bijection(1 .. n, FreeItems)
    BY Zenon, <2>3 DEF ListedAs, Bijection, Injection, Surjection, IsInjective
  <2>5. Cardinality(FreeItems) = n
    BY <2>4, FS_CountingElements, SMTT(30) DEF ExistsBijection
  <2>6. s \in [1 .. n -> FreeItems]
    BY Zenon, <2>3 DEF ListedAs
  <2>7. QED
    BY Zenon, <2>3, <2>5, <2>6 DEF FreeListSound
<1>2. QED
  BY <1>1, Invariance, PTL

\* The checks of robust pools (set_alloc_slot(), clear_alloc_slot() and the
\* check of the poison on allocation) never abort a correct program.
THEOREM PoolNoFalseAlarm == ASSUME ~DoubleFree PROVE Spec => []NoFalseAlarm
<1>1. IInv => NoFalseAlarm
  BY Zenon DEF IInv
<1>2. QED
  BY <1>1, Invariance, PTL

\* __rseq_percpu_malloc() refuses for max_nr_ranges only when no item is left.
THEOREM PoolRefusal == ASSUME ~DoubleFree PROVE Spec => []RefusedWhenFull
<1>1. IInv => RefusedWhenFull
  <2>1. SUFFICES ASSUME IInv, NEW t \in Thread, pc[t] = "full", NEW i \in Item PROVE IsHeld(i)
    BY Zenon DEF RefusedWhenFull
  <2>2. free_list_head = NULL /\ \A r \in Ranges : next_unused[r] = ItemsPerRange
    BY Zenon, <2>1 DEF IInv, PoolInv, FullInv
  <2>3. i \in EverAllocated
    <3>1. EverAllocated = {j \in Item : j[2] < next_unused[j[1]]}
      BY Zenon, <2>1, EverAllocatedIs DEF IInv, PoolInv
    <3>2. i[1] \in Ranges /\ i[2] < ItemsPerRange
      BY MempoolAssumption, SMTT(30) DEF Item
    <3>3. QED
      BY Zenon, <2>2, <3>1, <3>2
  <2>4. FreeItems = {}
    <3>1. PICK n \in Nat : \E s \in [1 .. n -> Item] : ListedAs(n, s)
      BY Zenon, <2>1 DEF IInv, PoolInv, ChainInv
    <3>2. PICK s \in [1 .. n -> Item] : ListedAs(n, s)
      BY <3>1, SMTT(30)
    <3>3. n = 0
      BY <2>2, <3>2, NullNotItem DEF ListedAs
    <3>4. QED
      BY <3>2, <3>3 DEF ListedAs
  <2>5. QED
    BY Zenon, <2>3, <2>4 DEF FreeItems
<1>2. QED
  BY <1>1, Invariance, PTL

-----------------------------------------------------------------------------
(* Induction, for what the walk of the free list meets.                    *)

\* A set of natural numbers that is not empty has a least element.
LEMMA Least ==
    ASSUME NEW S \in SUBSET Nat, S # {}
    PROVE  \E x \in S : \A y \in S : ~(y < x)
<1>1. \E x \in S : \A y \in S : ~(<<y, x>> \in OpToRel(<, Nat))
  BY Zenon, NatLessThanWellFounded, WFMin
<1>2. QED
  BY Zenon, <1>1 DEF OpToRel

\* Induction over the natural numbers, for sets of them.
LEMMA SetInduction ==
    ASSUME NEW S, 0 \in S, \A n \in Nat : n \in S => n + 1 \in S
    PROVE  Nat \subseteq S
<1>1. SUFFICES ASSUME Nat \ S # {} PROVE FALSE
  OBVIOUS
<1>2. PICK x \in Nat \ S : \A y \in Nat \ S : ~(y < x)
  BY Zenon, <1>1, Least
<1>3. x # 0 /\ x - 1 \in Nat /\ x - 1 < x
  BY <1>2
<1>4. x - 1 \in S
  BY Zenon, <1>2, <1>3
<1>5. QED
  BY <1>2, <1>3, <1>4

-----------------------------------------------------------------------------
(* The verdict of rseq_mempool_destroy().                                  *)

\* Node k of the traversal, from the nodes before it.
FreeListStep(f, k) ==
    IF k = 0 THEN free_list_head
    ELSE IF f[k - 1] \in EverAllocated THEN Ptr(f[k - 1]) ELSE NULL

\* If anything meets the recursive definition of the traversal, the traversal does.
LEMMA FreeListUnfold ==
    ASSUME NEW g, g = [k \in 0 .. Cardinality(EverAllocated) |-> FreeListStep(g, k)]
    PROVE  FreeList = [k \in 0 .. Cardinality(EverAllocated) |-> FreeListStep(FreeList, k)]
BY Zenon DEF FreeList, FreeListStep, Ptr

\* The traversal of a free list that has every item that was ever allocated
\* meets them in the order of the list, and ends.
LEMMA FreeListIs ==
    ASSUME NEW n \in Nat, NEW s \in [1 .. n -> Item], ListedAs(n, s), FreeItems = EverAllocated
    PROVE  /\ Cardinality(EverAllocated) = n
           /\ \A k \in 0 .. n - 1 : FreeList[k] = s[k + 1]
           /\ FreeList[n] = NULL
<1>1. /\ \A j, k \in 1 .. n : s[j] = s[k] => j = k
      /\ {s[k] : k \in 1 .. n} = EverAllocated
      /\ free_list_head = IF n = 0 THEN NULL ELSE s[1]
      /\ \A k \in 1 .. n : Ptr(s[k]) = IF k = n THEN NULL ELSE s[k + 1]
  BY Zenon DEF ListedAs, Ptr
<1>2. Cardinality(EverAllocated) = n
  <2>1. s \in Bijection(1 .. n, EverAllocated)
    BY Zenon, <1>1 DEF Bijection, Injection, Surjection, IsInjective
  <2>2. QED
    BY Zenon, <2>1, FS_CountingElements DEF ExistsBijection
<1>3. DEFINE g == [k \in 0 .. n |-> IF k = n THEN NULL ELSE s[k + 1]]
<1>4. ASSUME NEW k \in 0 .. n PROVE g[k] = FreeListStep(g, k)
  <2>1. CASE k = 0
    BY <1>1, <2>1 DEF FreeListStep
  <2>2. CASE k # 0
    <3>1. k - 1 \in 0 .. n /\ k - 1 # n /\ k \in 1 .. n /\ (k - 1) + 1 = k
      BY <2>2
    <3>2. g[k - 1] = s[k]
      BY Zenon, <3>1
    <3>3. s[k] \in EverAllocated
      BY Zenon, <1>1, <3>1
    <3>4. FreeListStep(g, k) = Ptr(s[k])
      BY Zenon, <2>2, <3>2, <3>3 DEF FreeListStep
    <3>5. QED
      BY Zenon, <1>1, <3>1, <3>4
  <2>3. QED
    BY Zenon, <2>1, <2>2
<1>5. g = [k \in 0 .. n |-> FreeListStep(g, k)]
  BY Zenon, <1>4
<1>6. FreeList = [k \in 0 .. n |-> FreeListStep(FreeList, k)]
  <2> HIDE DEF g
  <2>1. QED
    BY Zenon, <1>2, <1>5, FreeListUnfold
<1>7. ASSUME NEW k \in 0 .. n, k # 0 => FreeList[k - 1] = g[k - 1] PROVE FreeList[k] = g[k]
  <2> HIDE DEF g
  <2>1. FreeList[k] = FreeListStep(FreeList, k)
    BY Zenon, <1>6
  <2>2. FreeListStep(FreeList, k) = FreeListStep(g, k)
    BY Zenon, <1>7 DEF FreeListStep
  <2>3. QED
    BY Zenon, <1>4, <2>1, <2>2
<1>8. DEFINE S == {k \in Nat : k \in 0 .. n => FreeList[k] = g[k]}
<1>9. Nat \subseteq S
  <2> HIDE DEF g
  <2>1. 0 \in S
    BY Zenon, <1>7
  <2>2. ASSUME NEW m \in Nat, m \in S PROVE m + 1 \in S
    <3>1. m + 1 \in 0 .. n => m \in 0 .. n /\ (m + 1) - 1 = m
      OBVIOUS
    <3>2. QED
      BY <1>7, <2>2, <3>1
  <2> HIDE DEF S
  <2>3. QED
    BY Zenon, <2>1, <2>2, SetInduction
<1>10. ASSUME NEW k \in 0 .. n PROVE FreeList[k] = g[k]
  <2> HIDE DEF g
  <2>1. k \in S
    <3> HIDE DEF S
    <3>1. QED
      BY <1>9
  <2>2. QED
    BY Zenon, <2>1
<1>11. QED
  BY <1>2, <1>10

\* Destroying a pool finds an error if and only if it is robust and an item is
\* still owned.
LEMMA DestroyFinds ==
    ASSUME IInv, Destroy
    PROVE  /\ (\A t \in Thread : owned[t] = {}) => alarm' = "none"
           /\ alarm' = "none" /\ attr.robust => \A t \in Thread : owned[t] = {}
<1>1. \A t \in Thread : pc[t] = "idle" /\ Held(t) = owned[t] /\ Marked(t) = owned[t]
  BY Zenon DEF Destroy, Held, Marked, Busy
<1>2. ASSUME attr.robust
      PROVE  alloc_bitmap = {} <=> \A t \in Thread : owned[t] = {}
  <2>1. \A t \in Thread : owned[t] \subseteq Item
    BY Zenon DEF IInv, TypeOK
  <2>2. alloc_bitmap \subseteq Item
    BY Zenon DEF IInv, TypeOK
  <2>3. \A i \in Item : i \in alloc_bitmap <=> \E t \in Thread : i \in owned[t]
    BY Zenon, <1>1, <1>2 DEF IInv, MemInv, BitmapInv
  <2>4. QED
    BY Zenon, <2>1, <2>2, <2>3
<1>3. ASSUME attr.robust, \A t \in Thread : owned[t] = {} PROVE check_free_list /\ check_pool_poison
  <2>1. FreeItems = EverAllocated
    BY Zenon, <1>1, <1>3 DEF FreeItems, IsHeld
  <2>2. PICK n \in Nat : \E s \in [1 .. n -> Item] : ListedAs(n, s)
    BY Zenon DEF IInv, PoolInv, ChainInv
  <2>3. PICK s \in [1 .. n -> Item] : ListedAs(n, s)
    BY Zenon, <2>2
  <2>4. /\ Cardinality(EverAllocated) = n
        /\ \A k \in 0 .. n - 1 : FreeList[k] = s[k + 1]
        /\ FreeList[n] = NULL
    BY Zenon, <2>1, <2>3, FreeListIs
  <2>5. \A k \in 0 .. n - 1 : s[k + 1] \in EverAllocated
    BY <2>1, <2>3 DEF ListedAs
  <2>6. check_free_list
    BY Zenon, <2>4, <2>5 DEF check_free_list
  <2>7. check_pool_poison
    BY <1>3, <2>1, Zenon
       DEF IInv, MemInv, PoisonInv, HasWord, check_pool_poison, rseq_percpu_check_poison_item
  <2>8. QED
    BY Zenon, <2>6, <2>7
<1>4. QED
  BY <1>2, <1>3, Zenon DEF Destroy

\* rseq_mempool_destroy() of a robust pool aborts if and only if an item was not
\* freed: its walk of the free list, its check of the poison and its check of the
\* bitmap agree with what the threads own, for any number of items and ranges.
THEOREM PoolVerdict == ASSUME ~DoubleFree PROVE Spec => []DestroyVerdict
<1>1. Init => DestroyVerdict
  BY Zenon DEF Init, DestroyVerdict
<1>2. IInv /\ DestroyVerdict /\ [Next]_vars => DestroyVerdict'
  <2> SUFFICES ASSUME IInv, DestroyVerdict, [Next]_vars PROVE DestroyVerdict'
    OBVIOUS
  <2>1. CASE Destroy
    <3>1. UNCHANGED <<attr, owned, pc>> /\ destroyed' = (alarm' = "none")
      BY Zenon, <2>1 DEF Destroy
    <3>2. alarm' # "none" => \E t \in Thread : owned[t] # {}
      BY Zenon, <2>1, DestroyFinds
    <3>3. destroyed' /\ attr.robust => \A t \in Thread : owned[t] = {}
      BY Zenon, <2>1, <3>1, DestroyFinds
    <3>4. QED
      BY <3>1, <3>2, <3>3, Zenon DEF DestroyVerdict
  <2>2. CASE UNCHANGED vars
    BY <2>2, Zenon DEF vars, uservars, DestroyVerdict
  <2>3. ASSUME NEW t \in Thread, ThreadStep(t) PROVE DestroyVerdict'
    BY <2>3, AlarmNext, Zenon DEF IInv, PoolInv, MemInv, DestroyVerdict
  <2>4. QED
    BY Zenon, <2>1, <2>2, <2>3 DEF Next, ThreadStep
<1>3. QED
  BY <1>1, <1>2, Invariance, PTL DEF Spec

-----------------------------------------------------------------------------
(* The pool implements the abstract allocator.                             *)

\* The refinement mapping: what a step of thread t does to it.
LEMMA MapTypes ==
    TypeOK => DataMap \in [Item -> [Cpu -> Word]]
<1>1. SUFFICES ASSUME TypeOK PROVE DataMap \in [Item -> [Cpu -> Word]]
  BY SMTT(30)
<1>2. Zero \in Word /\ \A c \in Cpu, i \in Item : View(c, i) \in Word
  BY Zenon, <1>1, ViewType DEF Word
<1>3. QED
  BY Zenon, <1>2 DEF DataMap

\* A step of a thread changes its own part of the abstract state only.
LEMMA MapStep ==
    ASSUME TypeOK, NEW t \in Thread, ThreadStep(t)
    PROVE  /\ WantMap' = [WantMap EXCEPT ![t] = IF pc'[t] = "idle" THEN "idle" ELSE kind'[t]]
           /\ HeldMap' = [HeldMap EXCEPT ![t] = Held(t)']
           /\ BusyMap' = [BusyMap EXCEPT ![t] = Busy(t)']
           /\ WantMap[t] = IF pc[t] = "idle" THEN "idle" ELSE kind[t]
           /\ HeldMap[t] = Held(t) /\ BusyMap[t] = Busy(t)
<1>1. \A u \in Thread : u # t => /\ pc'[u] = pc[u] /\ kind'[u] = kind[u]
                                 /\ Held(u)' = Held(u) /\ Busy(u)' = Busy(u)
  BY OthersLocals, OthersHeld, Zenon
<1>2. WantMap' = [WantMap EXCEPT ![t] = IF pc'[t] = "idle" THEN "idle" ELSE kind'[t]]
  BY <1>1, Zenon DEF WantMap
<1>3. HeldMap' = [HeldMap EXCEPT ![t] = Held(t)']
  BY <1>1, Zenon DEF HeldMap
<1>4. BusyMap' = [BusyMap EXCEPT ![t] = Busy(t)']
  BY <1>1, Zenon DEF BusyMap
<1>5. QED
  BY <1>2, <1>3, <1>4, Zenon DEF WantMap, HeldMap, BusyMap

\* An item the step leaves alone has the same abstract contents.
LEMMA DataKept ==
    ASSUME TypeOK, NEW t \in Thread, ThreadStep(t), NEW j \in Item,
           j \in Held(t)' <=> j \in Held(t), \A c \in Cpu : View(c, j)' = View(c, j)
    PROVE  DataMap'[j] = DataMap[j]
<1>1. IsHeld(j)' <=> IsHeld(j)
  BY OthersHeld, Zenon DEF IsHeld
<1>2. DataMap[j] = [c \in Cpu |-> IF IsHeld(j) THEN View(c, j) ELSE Zero]
  BY SMTT(30) DEF DataMap
<1>3. DataMap'[j] = [c \in Cpu |-> IF IsHeld(j)' THEN View(c, j)' ELSE Zero]
  BY Zenon DEF DataMap
<1>4. QED
  BY <1>1, <1>2, <1>3, Zenon

\* A step that changes neither memory nor what is held changes no data.
LEMMA AllDataKept ==
    ASSUME TypeOK, TypeOK', NEW t \in Thread, ThreadStep(t), Held(t)' = Held(t), MemKept
    PROVE  DataMap' = DataMap
<1>1. \A j \in Item : DataMap'[j] = DataMap[j]
  BY MemKeptEffect, DataKept, Zenon
<1>2. DataMap \in [Item -> [Cpu -> Word]] /\ DataMap' \in [Item -> [Cpu -> Word]]
  <2>1. (TypeOK => DataMap \in [Item -> [Cpu -> Word]])'
    BY MapTypes, PTL
  <2>2. QED
    BY Zenon, <2>1, MapTypes
<1>3. QED
  BY <1>1, <1>2

\* Every step of the pool is a step of the allocator, or changes nothing in it.
LEMMA StepRefines ==
    ASSUME IInv, IInv', ~DoubleFree, NEW t \in Thread, ThreadStep(t)
    PROVE  [Allocator!Next]_Allocator!vars
<1> USE NullNotItem
<1>0. /\ TypeOK /\ TypeOK' /\ RangesInv /\ RangesInv' /\ LocalInv /\ HeldInv /\ ChainInv /\ FillInv
      /\ Knows(t) /\ owned[t] \cap Busy(t) = {}
  BY Zenon DEF IInv, PoolInv, MemInv, LocalInv, HeldInv
<1>1. /\ pc \in [Thread -> Location] /\ kind \in [Thread -> Kind] /\ item \in [Thread -> Item \cup {NULL}]
      /\ owned \in [Thread -> SUBSET Item]
  BY <1>0, Zenon DEF TypeOK
<1>2. /\ WantMap' = [WantMap EXCEPT ![t] = IF pc'[t] = "idle" THEN "idle" ELSE kind'[t]]
      /\ HeldMap' = [HeldMap EXCEPT ![t] = Held(t)']
      /\ BusyMap' = [BusyMap EXCEPT ![t] = Busy(t)']
      /\ WantMap[t] = IF pc[t] = "idle" THEN "idle" ELSE kind[t]
      /\ HeldMap[t] = Held(t) /\ BusyMap[t] = Busy(t)
      /\ \A u \in Thread : HeldMap[u] = Held(u) /\ BusyMap[u] = Busy(u)
      /\ WantMap = [WantMap EXCEPT ![t] = WantMap[t]]
      /\ HeldMap = [HeldMap EXCEPT ![t] = HeldMap[t]]
      /\ BusyMap = [BusyMap EXCEPT ![t] = BusyMap[t]]
  BY <1>0, MapStep, Zenon DEF WantMap, HeldMap, BusyMap
<1>3. DataMap' \in [Item -> [Cpu -> Word]]
  <2>1. (TypeOK => DataMap \in [Item -> [Cpu -> Word]])'
    BY MapTypes, PTL
  <2>2. QED
    BY <1>0, <2>1, Zenon
<1>4. ASSUME NEW i \in Item, MemKept \/ OthersKept(i), \A j \in Item \ {i} : j \in Held(t)' <=> j \in Held(t)
      PROVE  Allocator!OnlyItem(i)
  <2>1. ASSUME NEW j \in Item \ {i} PROVE DataMap'[j] = DataMap[j]
    <3>1. \A c \in Cpu : View(c, j)' = View(c, j)
      BY <1>4, MemKeptEffect, Zenon DEF OthersKept
    <3>2. QED
      BY <1>0, <1>4, <2>1, <3>1, DataKept, Zenon
  <2>2. QED
    BY Zenon, <1>3, <2>1 DEF Allocator!OnlyItem
<1>5. ASSUME Held(t)' = Held(t), MemKept PROVE DataMap' = DataMap
  BY <1>0, <1>5, AllDataKept, ZenonT(40)
<1>6. ASSUME Held(t)' = Held(t), Busy(t)' = Busy(t), MemKept,
             (IF pc'[t] = "idle" THEN "idle" ELSE kind'[t]) = WantMap[t]
      PROVE  UNCHANGED Allocator!vars
  <2>1. WantMap' = WantMap
    BY <1>2, <1>6, Zenon
  <2>2. HeldMap' = HeldMap /\ BusyMap' = BusyMap
    BY <1>2, <1>6, Zenon
  <2>3. QED
    BY Zenon, <1>5, <1>6, <2>1, <2>2 DEF Allocator!vars
<1>7. ASSUME NEW k \in Kind, Malloc(t, k) PROVE Allocator!Next
  <2>1. /\ pc[t] = "idle" /\ pc'[t] = "lock" /\ kind'[t] = k /\ k # "free" /\ item' = item /\ owned' = owned
        /\ MemKept
    BY Zenon, <1>1, <1>7 DEF Malloc, Call, At, Goto, MemKept
  <2>2. Busy(t)' = Busy(t) /\ Held(t)' = Held(t)
    BY <1>0, <2>1, ZenonT(40) DEF Busy, Held, Knows
  <2>3. Allocator!Alloc(t, k)
    BY Zenon, <1>2, <1>5, <2>1, <2>2 DEF Allocator!Alloc
  <2>4. QED
    BY <2>3, SMTT(30) DEF Allocator!Next
<1>8. CASE MallocInitTooLong(t)
  BY <1>2, <1>6, <1>8, Zenon DEF MallocInitTooLong, Held, Busy, MemKept, callvars
<1>9. ASSUME NEW i \in Item, Free(t, i) PROVE Allocator!Next
  <2>1. /\ pc[t] = "idle" /\ pc'[t] = "lock" /\ kind'[t] = "free" /\ item'[t] = i /\ i \in owned[t]
        /\ owned'[t] = owned[t] \ {i} /\ MemKept
    BY Zenon, <1>1, <1>9 DEF Free, Call, At, Goto, MemKept
  <2>2. Busy(t)' = {i} /\ Busy(t) = {} /\ Held(t)' = Held(t) /\ i \in Held(t)
    BY <2>1, Zenon DEF Busy, Held
  <2>3. Allocator!Free(t, i)
    BY <1>2, <1>5, <2>1, <2>2, ZenonT(40) DEF Allocator!Free
  <2>4. QED
    BY <2>3, SMTT(30) DEF Allocator!Next
<1>10. CASE Lock(t) \/ ReadHead(t) \/ Exhausted(t) \/ MappingFails(t) \/ set_alloc_slot(t) \/ clear_alloc_slot(t)
  <2>1. /\ UNCHANGED <<owned, item, kind>> /\ MemKept /\ pc[t] # "idle" /\ pc'[t] # "idle"
    BY <1>1, <1>10, Zenon
       DEF Lock, ReadHead, Exhausted, MappingFails, set_alloc_slot, clear_alloc_slot, At, Goto,
                       MemKept, callvars, uservars
  <2>2. Busy(t)' = Busy(t)
    BY <1>0, <1>1, <1>10, <2>1, Zenon
       DEF Lock, ReadHead, Exhausted, MappingFails, set_alloc_slot, clear_alloc_slot,
                                   At, Goto, Busy, Knows
  <2>3. QED
    BY Zenon, <1>2, <1>6, <2>1, <2>2 DEF Held
<1>11. CASE Pop(t) \/ Bump(t) \/ CreateRange(t)
  <2>1. PICK i \in Item : /\ Held(t)' = Held(t) \cup {i} /\ MemKept /\ Busy(t)' = {i} /\ Busy(t) = {}
                          /\ \A u \in Thread : i \notin Held(u)
    <3>1. pc[t] \in {"pop", "range"} /\ pc'[t] = "slot" /\ kind' = kind /\ kind[t] # "free" /\ item[t] = NULL
          /\ owned' = owned
      BY <1>0, <1>1, <1>11, Zenon DEF Pop, Bump, CreateRange, TakeUnused, At, Goto, Knows, uservars
    <3>2. Busy(t) = {} /\ Busy(t)' = IF item'[t] = NULL THEN {} ELSE {item'[t]}
      BY <3>1, ZenonT(40) DEF Busy
    <3>3. Held(t) = owned[t]
      BY Zenon, <3>2 DEF Held
    <3>4. CASE Pops(t)
      <4>1. free_list_head \in Item /\ \A u \in Thread : free_list_head \notin Held(u)
        BY <3>4, Zenon DEF Pops, FreeItems, IsHeld, EverAllocated
      <4>2. Busy(t)' = {free_list_head}
        BY <3>1, <3>2, <3>3, <3>4, <4>1, Zenon DEF Pops, Held
      <4>3. QED
        BY <3>2, <3>4, <4>1, <4>2, Zenon DEF Pops
    <3>5. ASSUME NEW i \in Item, Bumps(t, i)
          PROVE  /\ Held(t)' = Held(t) \cup {i} /\ MemKept /\ Busy(t)' = {i} /\ Busy(t) = {}
                 /\ \A u \in Thread : i \notin Held(u)
      <4>1. \A u \in Thread : i \notin Held(u)
        BY <1>0, <3>5, Zenon DEF Bumps, HeldInv
      <4>2. Busy(t)' = {i}
        BY <3>1, <3>2, <3>3, <3>5, <4>1, Zenon DEF Bumps, Held
      <4>3. QED
        BY <3>2, <3>5, <4>1, <4>2, Zenon DEF Bumps
    <3>6. CASE Keeps(t) \/ Pushes(t)
      <4>1. Held(t)' \subseteq Held(t)
        BY <3>6, Zenon DEF Keeps, Pushes
      <4>2. item'[t] # NULL
        BY <1>0, <1>1, <1>11, <3>1, Zenon DEF LocalInv, IInv, PoolInv, Knows
      <4>3. item'[t] \in owned[t] /\ item'[t] \in Busy(t)' /\ owned'[t] = owned[t]
        BY <3>1, <3>2, <3>3, <4>1, <4>2, Zenon DEF Held
      <4>4. (owned[t] \cap Busy(t) = {})'
        BY Zenon DEF IInv, PoolInv, HeldInv
      <4>5. QED
        BY <4>3, <4>4, Zenon
    <3>7. QED
      BY <1>0, <3>4, <3>5, <3>6, Moves, Zenon
  <2>2. pc[t] # "idle" /\ pc'[t] # "idle" /\ kind' = kind /\ kind[t] # "free"
    BY <1>0, <1>1, <1>11, Zenon DEF Pop, Bump, CreateRange, TakeUnused, At, Goto, Knows
  <2>3. WantMap[t] = kind[t] /\ WantMap' = WantMap /\ kind[t] # "idle"
    <3>1. kind[t] # "idle"
      BY <1>1, SMTT(30) DEF Kind
    <3>2. WantMap[t] = kind[t] /\ WantMap' = [WantMap EXCEPT ![t] = kind[t]]
      BY <1>2, <2>2, SMTT(30)
    <3>3. QED
      BY <1>2, <3>1, <3>2, Zenon
  <2>4. Allocator!OnlyItem(i)
    BY Zenon, <1>4, <2>1
  <2>5. Allocator!Take(t, i)
    <3>1. WantMap[t] \notin {"idle", "free"} /\ BusyMap[t] = {} /\ \A u \in Thread : i \notin HeldMap[u]
      <4>1. WantMap[t] \notin {"idle", "free"}
        BY <2>2, <2>3, Zenon
      <4>2. BusyMap[t] = {}
        BY <2>1, Zenon DEF BusyMap
      <4>3. ASSUME NEW u \in Thread PROVE i \notin HeldMap[u]
        BY <2>1, Zenon DEF HeldMap
      <4>4. QED
        BY <4>1, <4>2, <4>3, Zenon
    <3>2. HeldMap' = [HeldMap EXCEPT ![t] = HeldMap[t] \cup {i}] /\ BusyMap' = [BusyMap EXCEPT ![t] = {i}]
      BY <1>2, <2>1, Zenon
    <3>3. QED
      BY <2>3, <2>4, <3>1, <3>2, Zenon DEF Allocator!Take
  <2>6. QED
    BY Zenon, <2>5 DEF Allocator!Next
<1>12. CASE FillInit(t) \/ FillCpu(t) \/ Link(t)
  <2>1. /\ item[t] \in Item /\ attr' = attr /\ UNCHANGED <<owned, item, kind>>
        /\ pc[t] \in {"fill", "fill_cpu", "link"} /\ pc'[t] \in {"fill", "fill_cpu", "push"}
    BY <1>0, <1>1, <1>12, ItemThere, Zenon DEF FillInit, FillCpu, Link, At, Goto, callvars, uservars
  <2>2. PICK i \in Item : i = item[t]
    BY Zenon, <2>1
  <2>3. Busy(t) = {i} /\ Busy(t)' = {i} /\ Held(t)' = Held(t)
    BY <2>1, <2>2, Zenon DEF Busy, Held
  <2>4. node[t] \in Word
    BY <1>0, Zenon DEF TypeOK, Word, NULL
  <2>5. OthersKept(i)
    BY <1>0, <1>12, <2>1, <2>2, <2>4, FillOthers, StoreLinkEffect, Zenon DEF Link
  <2>6. Allocator!OnlyItem(i)
    BY Zenon, <1>4, <2>3, <2>5
  <2>7. WantMap' = WantMap /\ HeldMap' = HeldMap /\ BusyMap' = BusyMap
    <3>1. WantMap[t] = kind[t] /\ WantMap' = [WantMap EXCEPT ![t] = kind[t]]
      BY <1>2, <2>1, ZenonT(40)
    <3>2. QED
      BY <1>2, <2>3, <3>1, Zenon
  <2>8. Allocator!Prepare(t, i)
    BY <1>2, <2>3, <2>6, <2>7, SMTT(30) DEF Allocator!Prepare
  <2>9. QED
    BY Zenon, <2>8 DEF Allocator!Next
<1>13. CASE (Unlock(t) \/ Filled(t)) /\ ~Return(t)
  <2>1. /\ UNCHANGED <<owned, item, kind>> /\ MemKept /\ pc[t] # "idle" /\ pc'[t] # "idle"
    BY Zenon, <1>1, <1>13 DEF Unlock, Filled, At, Goto, MemKept, callvars, uservars
  <2>2. Busy(t)' = Busy(t)
    BY <1>0, <1>1, <1>13, <2>1, Zenon DEF Unlock, Filled, At, Goto, Busy, Knows
  <2>3. QED
    BY Zenon, <1>2, <1>6, <2>1, <2>2 DEF Held
<1>14. CASE (Unlock(t) \/ Filled(t)) /\ Return(t)
  <2>1. /\ pc'[t] = "idle" /\ MemKept /\ pc[t] # "idle"
    BY <1>1, <1>14, ZenonT(40) DEF Unlock, Filled, Return, At, Goto, MemKept
  <2>2. Busy(t)' = {}
    BY Zenon, <2>1 DEF Busy
  <2>3. kind[t] = "free" => pc[t] = "unlock"
    BY <1>0, <1>1, <1>14, Zenon DEF Unlock, Filled, Return, At, Goto, Knows
  <2>4. Held(t)' = Held(t)
    <3>1. CASE kind[t] # "free" /\ item[t] # NULL
      <4>1. owned'[t] = owned[t] \cup {item[t]} /\ Busy(t) = {item[t]}
        BY <1>1, <1>14, <2>1, <3>1, SMTT(30) DEF Return, Busy
      <4>2. QED
        BY Zenon, <2>2, <4>1 DEF Held
    <3>2. CASE kind[t] = "free" \/ item[t] = NULL
      <4>1. owned' = owned /\ Busy(t) = {}
        BY <1>14, <2>3, <3>2, ZenonT(40) DEF Return, Busy
      <4>2. QED
        BY Zenon, <2>2, <4>1 DEF Held
    <3>3. QED
      BY <3>1, <3>2, Zenon
  <2>5. WantMap[t] = kind[t] /\ kind[t] # "idle" /\ WantMap' = [WantMap EXCEPT ![t] = "idle"]
    BY Zenon, <1>1, <1>2, <2>1 DEF Kind
  <2>6. HeldMap' = HeldMap /\ DataMap' = DataMap /\ BusyMap' = [BusyMap EXCEPT ![t] = {}]
    BY <1>2, <1>5, <2>1, <2>2, <2>4, Zenon
  <2>7. CASE Busy(t) = {}
    <3>1. BusyMap' = BusyMap
      BY <1>2, <2>6, <2>7, Zenon
    <3>2. Allocator!ReturnNothing(t)
      BY <1>2, <2>5, <2>6, <2>7, <3>1, Zenon DEF Allocator!ReturnNothing
    <3>3. QED
      BY Zenon, <3>2 DEF Allocator!Next
  <2>8. CASE Busy(t) # {}
    <3>1. kind[t] # "free" /\ item[t] \in Item /\ Busy(t) = {item[t]}
      BY Zenon, <1>1, <2>1, <2>3, <2>8 DEF Busy
    <3>2. PICK i \in Item : i = item[t]
      BY <3>1, Zenon
    <3>3. \A c \in Cpu : View(c, i) \in Promised(kind[t])
      <4>1. CASE kind[t] \in {"zmalloc", "malloc_init"}
        <5>1. pc[t] = "fill_cpu" /\ cpu[t] = NCpu
          <6>1. ~Unlock(t)
            BY <1>0, <1>1, <1>14, <2>1, <3>1, <4>1, Zenon DEF Unlock, Goto, Knows
          <6>2. QED
            BY <1>14, <6>1, Zenon DEF Filled, At
        <5>2. Filling(t, i) /\ Promised(kind[t]) = {Value(t)}
          BY <1>0, <3>2, <4>1, Zenon DEF FillInv, Promised, Value
        <5>3. \A c \in Cpu : c < NCpu
          BY MempoolAssumption DEF Cpu
        <5>4. QED
          BY <5>1, <5>2, <5>3, Zenon DEF Filling
      <4>2. CASE kind[t] \notin {"zmalloc", "malloc_init"}
        BY <1>0, <4>2, ViewType, ZenonT(40) DEF Promised
      <4>3. QED
        BY Zenon, <4>1, <4>2
    <3>4. IsHeld(i)
      BY <3>1, <3>2, SMTT(30) DEF IsHeld, Held
    <3>5. \A c \in Cpu : DataMap[i][c] \in Promised(WantMap[t])
      BY Zenon, <2>5, <3>3, <3>4 DEF DataMap
    <3>6. Allocator!Return(t, i)
      BY <1>2, <2>5, <2>6, <3>1, <3>2, <3>5, Zenon DEF Allocator!Return
    <3>7. QED
      BY <3>6, SMTT(30) DEF Allocator!Next
  <2>9. QED
    BY Zenon, <2>7, <2>8
<1>15. CASE Push(t)
  <2>1. /\ pc[t] = "push" /\ pc'[t] = "unlock" /\ kind[t] = "free" /\ item[t] \in Item /\ MemKept
        /\ UNCHANGED <<owned, item, kind>>
    BY <1>0, <1>1, <1>15, Zenon DEF Push, At, Goto, Knows, MemKept, callvars, uservars
  <2>2. PICK i \in Item : i = item[t]
    BY <2>1, Zenon
  <2>3. Busy(t) = {i} /\ Busy(t)' = {}
    BY <2>1, <2>2, Zenon DEF Busy
  <2>4. Held(t)' = Held(t) \ {i}
    BY <1>0, <2>1, <2>3, Zenon DEF Held
  <2>5. Allocator!OnlyItem(i)
    BY <1>4, <2>1, <2>4, Zenon
  <2>6. WantMap[t] = "free" /\ WantMap' = WantMap
    <3>1. WantMap[t] = "free" /\ WantMap' = [WantMap EXCEPT ![t] = "free"]
      BY <1>2, <2>1, Zenon
    <3>2. QED
      BY <1>2, <3>1, Zenon
  <2>7. Allocator!Release(t, i)
    BY <1>2, <2>3, <2>4, <2>5, <2>6, ZenonT(40) DEF Allocator!Release
  <2>8. QED
    BY Zenon, <2>7 DEF Allocator!Next
<1>16. ASSUME NEW c \in Cpu, NEW i \in Item, Store(t, c, i) PROVE Allocator!Next
  <2>1. /\ pc[t] = "idle" /\ UNCHANGED <<pc, kind, item, owned, attr>> /\ StoreCpu(c, i, UserValue)
    BY <1>16, Zenon DEF Store, At, callvars, uservars
  <2>2. Held(t)' = Held(t) /\ Busy(t)' = Busy(t)
    BY <2>1, Zenon DEF Held, Busy
  <2>3. OthersKept(i)
    BY <1>0, <2>1, StoreCpuOthers, Zenon DEF Word
  <2>4. Allocator!OnlyItem(i)
    BY Zenon, <1>4, <2>2, <2>3
  <2>5. \E u \in Thread : i \in HeldMap[u] \ BusyMap[u]
    BY <1>0, <1>2, <1>16, SMTT(30) DEF Store, HeldInv, Held
  <2>6. WantMap[t] = "idle" /\ WantMap' = WantMap /\ HeldMap' = HeldMap /\ BusyMap' = BusyMap
    <3>1. WantMap[t] = "idle" /\ WantMap' = [WantMap EXCEPT ![t] = "idle"]
      BY <1>2, <2>1, SMTT(30)
    <3>2. QED
      BY <1>2, <2>2, <3>1, Zenon
  <2>7. Allocator!Store(t, i)
    BY <2>4, <2>5, <2>6, Zenon DEF Allocator!Store
  <2>8. QED
    BY Zenon, <2>7 DEF Allocator!Next
<1>17. QED
  BY Zenon, <1>7, <1>8, <1>9, <1>10, <1>11, <1>12, <1>13, <1>14, <1>15, <1>16 DEF ThreadStep, Step

\* The pool implements the allocator mempool.h describes, for any number of
\* threads, CPUs, items and ranges and for every populate policy.
THEOREM PoolRefinement == ASSUME ~DoubleFree PROVE Spec => ImplementsAllocator
<1>1. Init => Allocator!Init
  <2>1. SUFFICES ASSUME Init PROVE Allocator!Init
    OBVIOUS
  <2>2. DataMap \in [Item -> [Cpu -> Word]]
    BY Zenon, <2>1, InitIInv, MapTypes DEF IInv
  <2>3. WantMap = [t \in Thread |-> "idle"] /\ HeldMap = [t \in Thread |-> {}] /\ BusyMap = [t \in Thread |-> {}]
    BY <2>1, Zenon DEF Init, WantMap, HeldMap, BusyMap, Held, Busy
  <2>4. QED
    BY Zenon, <2>2, <2>3 DEF Allocator!Init
<1>2. IInv /\ IInv' /\ [Next]_vars => [Allocator!Next]_Allocator!vars
  <2>1. SUFFICES ASSUME IInv, IInv', [Next]_vars PROVE [Allocator!Next]_Allocator!vars
    OBVIOUS
  <2>2. CASE Destroy \/ UNCHANGED vars
    <3>1. UNCHANGED <<attr, memvars, pc, callvars, owned>>
      BY Zenon, <2>2 DEF Destroy, vars, uservars
    <3>2. UNCHANGED <<WantMap, HeldMap, BusyMap, DataMap>>
      BY <3>1, Zenon DEF WantMap, HeldMap, BusyMap, DataMap, Held, Busy, IsHeld, View, memvars, callvars
    <3>3. QED
      BY <3>2, SMTT(30) DEF Allocator!vars
  <2>3. ASSUME NEW t \in Thread, ThreadStep(t) PROVE [Allocator!Next]_Allocator!vars
    BY Zenon, <2>1, <2>3, StepRefines
  <2>4. QED
    BY Zenon, <2>1, <2>2, <2>3 DEF Next, ThreadStep
<1>3. QED
  BY <1>1, <1>2, Invariance, PTL DEF Spec, ImplementsAllocator, Allocator!Spec

=============================================================================
