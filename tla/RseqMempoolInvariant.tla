----------------------- MODULE RseqMempoolInvariant -------------------------
(***************************************************************************)
(* The pool for any number of threads, CPUs, items, ranges and calls, for  *)
(* programs that free what they allocated, once: the inductive invariant,  *)
(* what the accesses to its memory do, and the invariant's parts about     *)
(* types, ranges and the lock.                                             *)
(***************************************************************************)
EXTENDS RseqMempool, FiniteSetTheorems, TLAPS

Ptr(i) == __rseq_percpu_to_free_list_ptr(i)

\* The ranges in the list are 1 .. nr_ranges, newest first; only the newest has
\* room left.
RangesInv ==
    /\ range_list # << >> /\ Head(range_list) = nr_ranges
    /\ {range_list[k] : k \in DOMAIN range_list} = 1 .. nr_ranges
    /\ \A r \in Ranges : /\ r > nr_ranges => next_unused[r] = 0
                         /\ r < nr_ranges => next_unused[r] = ItemsPerRange

\* The thread that is inside the mutex, and only that one, is at its code.
Inside(t) ==
    \/ pc[t] \in {"node", "pop", "range", "slot", "full", "nomem", "unlock", "clear", "link", "push"}
    \/ pc[t] \in {"fill", "fill_cpu"} /\ kind[t] = "free"
LockInv == \A t \in Thread : t \in lock <=> Inside(t)
OneInside == \A t, u \in lock : t = u

\* What a thread knows at each point of its call.
Knows(t) ==
    /\ pc[t] \in {"idle", "node", "pop", "range", "full", "nomem"} =>
           item[t] = NULL /\ kind[t] # "free"
    /\ pc[t] = "lock" => (item[t] # NULL <=> kind[t] = "free")
    /\ pc[t] = "slot" => kind[t] # "free"
    /\ pc[t] \in {"clear", "link", "push"} => kind[t] = "free"
    /\ pc[t] \in {"slot", "fill", "fill_cpu", "clear", "link", "push", "unlock"} => item[t] # NULL
    /\ pc[t] \in {"fill", "fill_cpu"} => kind[t] # "malloc"
    /\ pc[t] = "pop" => node[t] = free_list_head /\ node[t] # NULL
    /\ pc[t] = "range" => free_list_head = NULL
    /\ pc[t] \in {"fill", "fill_cpu", "link", "push"} /\ kind[t] = "free" =>
           node[t] = free_list_head
    /\ pc[t] = "push" => Ptr(item[t]) = node[t]
LocalInv == \A t \in Thread : Knows(t)

\* Held items were allocated, and are held by one thread in one role.
HeldInv ==
    /\ HeldByOne
    /\ \A t \in Thread : Held(t) \subseteq EverAllocated /\ owned[t] \cap Busy(t) = {}

ChainInv == \E n \in Nat : \E s \in [1 .. n -> Item] : ListedAs(n, s)

\* The bit of an item is set from set_alloc_slot() to clear_alloc_slot().
Marked(t) ==
    owned[t] \cup (IF kind[t] = "free"
                     THEN IF pc[t] \in {"lock", "clear"} THEN Busy(t) ELSE {}
                     ELSE IF pc[t] \in {"unlock", "fill", "fill_cpu"} THEN Busy(t) ELSE {})
BitmapInv == attr.robust => \A i \in Item : i \in alloc_bitmap <=> \E t \in Thread : i \in Marked(t)

\* What a fill has written so far, and the free items of a robust pool.
HasWord(i, w) == (attr.cow_init => init[i] = w) /\ \A c \in Cpu : View(c, i) = w
Filling(t, i) ==
    /\ pc[t] = "fill_cpu" =>
          /\ attr.cow_init => init[i] = Value(t)
          /\ \A c \in Cpu : c < cpu[t] => View(c, i) = Value(t)
    /\ pc[t] \in {"link", "push"} /\ attr.robust => HasWord(i, attr.poison)
FillInv == \A t \in Thread : \A i \in Item : item[t] = i => Filling(t, i)
PoisonInv == attr.robust => \A i \in FreeItems : HasWord(i, attr.poison)

\* An allocation that fails for the limit has found the free list empty and
\* every range used up.
FullInv ==
    \A t \in Thread : pc[t] = "full" =>
        free_list_head = NULL /\ \A r \in Ranges : next_unused[r] = ItemsPerRange

PoolInv == RangesInv /\ LockInv /\ OneInside /\ LocalInv /\ HeldInv /\ ChainInv /\ FullInv
MemInv == BitmapInv /\ FillInv /\ PoisonInv
IInv == TypeOK /\ PoolInv /\ MemInv /\ NoFalseAlarm

-----------------------------------------------------------------------------
\* The null pointer is not the address of an item.
LEMMA NullNotItem == NULL \notin Item /\ \A i \in Item : i # NULL
BY MempoolAssumption DEF NULL, Zero, Item, Ranges

\* The words a fill writes are words.
LEMMA ValueType == ASSUME TypeOK, NEW t \in Thread PROVE Value(t) \in Word
BY Zenon, MempoolAssumption DEF TypeOK, Value, Word, Attr, Kind

\* A CPU sees a word; so is a link.
LEMMA ViewType ==
    ASSUME TypeOK
    PROVE  /\ \A c \in Cpu, i \in Item : View(c, i) \in Word
           /\ \A i \in Item : Ptr(i) \in Word
<1>1. 0 \in Cpu
  BY MempoolAssumption DEF Cpu
<1>2. QED
  BY <1>1 DEF TypeOK, View, Ptr, __rseq_percpu_to_free_list_ptr

\* A store to CPU c's copy of item i changes what CPU c sees of i, and nothing
\* else that any CPU sees.
LEMMA StoreCpuEffect ==
    ASSUME TypeOK, NEW c \in Cpu, NEW i \in Item, NEW w \in Word, StoreCpu(c, i, w), attr' = attr
    PROVE  /\ percpu' \in [Cpu -> [Item -> Word]] /\ cowed' \subseteq Ranges \X Cpu
           /\ init' = init /\ links' = links
           /\ View(c, i)' = w
           /\ \A d \in Cpu, j \in Item : d # c \/ j # i => View(d, j)' = View(d, j)
<1>1. /\ cowed \subseteq Ranges \X Cpu /\ percpu \in [Cpu -> [Item -> Word]] /\ i[1] \in Ranges
  BY Zenon DEF TypeOK, Item
<1>2. \A j \in Item : View(c, j) \in Word
  BY Zenon, ViewType
<1>3. DEFINE page == [j \in Item |-> IF j = i THEN w
                                   ELSE IF j[1] = i[1] THEN View(c, j) ELSE percpu[c][j]]
<1>4. page \in [Item -> Word] /\ percpu' = [percpu EXCEPT ![c] = page]
  BY Zenon, <1>1, <1>2 DEF StoreCpu
<1>5. percpu'[c] = page /\ \A d \in Cpu : d # c => percpu'[d] = percpu[d]
  BY Zenon, <1>1, <1>4
<1>6. percpu' \in [Cpu -> [Item -> Word]] /\ cowed' \subseteq Ranges \X Cpu /\ init' = init /\ links' = links
  BY <1>1, <1>4 DEF StoreCpu
<1>7. View(c, i)' = w
  BY Zenon, <1>5 DEF View, StoreCpu
<1>8. ASSUME NEW d \in Cpu, NEW j \in Item, d # c \/ j # i
      PROVE  View(d, j)' = View(d, j)
  <2>1. CASE d # c
    BY Zenon, <1>5, <1>6, <2>1 DEF View, StoreCpu
  <2>2. CASE d = c /\ j # i /\ j[1] = i[1]
    BY <1>5, <2>2 DEF View, StoreCpu
  <2>3. CASE d = c /\ j # i /\ j[1] # i[1]
    BY Zenon, <1>5, <1>6, <2>3 DEF View, StoreCpu
  <2>4. QED
    BY Zenon, <1>8, <2>1, <2>2, <2>3
<1>9. QED
  BY Zenon, <1>6, <1>7, <1>8

\* The head of the free list leads to another item or ends.
LEMMA HeadLink ==
    ASSUME TypeOK, ChainInv, free_list_head # NULL
    PROVE  free_list_head \in FreeItems /\ Ptr(free_list_head) \in Item \cup {NULL}
<1>0. PICK n \in Nat : \E s \in [1 .. n -> Item] : ListedAs(n, s)
  BY Zenon DEF ChainInv
<1>1. PICK s \in [1 .. n -> Item] : ListedAs(n, s)
  BY Zenon, <1>0
<1>2. n # 0 /\ free_list_head = s[1] /\ 1 \in 1 .. n
  BY <1>1 DEF ListedAs
<1>3. Ptr(s[1]) = IF 1 = n THEN NULL ELSE s[2]
  BY <1>1, <1>2 DEF ListedAs, Ptr
<1>4. 1 # n => 2 \in 1 .. n
  BY <1>2
<1>5. QED
  BY <1>1, <1>2, <1>3, <1>4 DEF ListedAs

\* The item of a thread in the middle of its call is an item.
LEMMA ItemThere ==
    ASSUME TypeOK, LocalInv, NEW t \in Thread,
           pc[t] \in {"slot", "fill", "fill_cpu", "clear", "link", "push", "unlock"}
    PROVE  item[t] \in Item
BY Zenon, NullNotItem DEF TypeOK, LocalInv, Knows

\* The state has its types after every step.
LEMMA TypeNext == ASSUME TypeOK, LocalInv, ChainInv, RangesInv, Next PROVE TypeOK'
<1> USE NullNotItem
<1>0. pc \in [Thread -> Location] /\ cpu \in [Thread -> 0 .. NCpu] /\ attr \in Attrs
      /\ nr_ranges \in Ranges /\ next_unused \in [Ranges -> 0 .. ItemsPerRange]
      /\ node \in [Thread -> Item \cup {NULL}]
  BY Zenon DEF TypeOK
<1>1. \A t \in Thread, l \in Location : Goto(t, l) => pc' \in [Thread -> Location]
  BY Zenon, <1>0 DEF Goto
<1>2. {"idle", "lock", "node", "pop", "range", "slot", "full", "nomem", "unlock",
       "fill", "fill_cpu", "clear", "link", "push"} \subseteq Location
  BY Zenon DEF Location
<1>3. MaxCalls \in Nat /\ NCpu \in Nat \ {0} /\ ItemsPerRange \in Nat \ {0} /\ MaxNrRanges \in Nat \ {0}
  BY Zenon, MempoolAssumption
<1>a. ASSUME NEW t \in Thread, calls[t] < MaxCalls, calls' = [calls EXCEPT ![t] = @ + 1]
      PROVE  calls' \in [Thread -> 0 .. MaxCalls]
  <2>1. calls \in [Thread -> 0 .. MaxCalls]
    BY Zenon DEF TypeOK
  <2>2. calls[t] + 1 \in 0 .. MaxCalls
    BY <1>3, <1>a, <2>1
  <2>3. QED
    BY <1>a, <2>1, <2>2, Zenon
<1>4. ASSUME NEW t \in Thread, NEW k \in Kind, Malloc(t, k) PROVE TypeOK'
  <2>1. /\ calls[t] < MaxCalls /\ calls' = [calls EXCEPT ![t] = @ + 1]
        /\ kind' = [kind EXCEPT ![t] = k] /\ Goto(t, "lock")
    BY <1>4, Zenon DEF Malloc, Call
  <2>2. /\ calls' \in [Thread -> 0 .. MaxCalls] /\ kind' \in [Thread -> Kind]
        /\ pc' \in [Thread -> Location]
    BY <1>1, <1>2, <1>a, <2>1, Zenon DEF TypeOK
  <2>3. QED
    BY <1>4, <2>2, Zenon DEF TypeOK, Malloc, Call, poolvars, memvars
<1>5. ASSUME NEW t \in Thread, MallocInitTooLong(t) PROVE TypeOK'
  <2>1. calls' \in [Thread -> 0 .. MaxCalls]
    BY <1>5, <1>a, Zenon DEF MallocInitTooLong
  <2>2. QED
    BY <1>5, <2>1, Zenon DEF TypeOK, MallocInitTooLong, poolvars, memvars, callvars
<1>6. ASSUME NEW t \in Thread, NEW i \in Item, Free(t, i) PROVE TypeOK'
  <2>1. /\ calls[t] < MaxCalls /\ calls' = [calls EXCEPT ![t] = @ + 1]
        /\ kind' = [kind EXCEPT ![t] = "free"] /\ Goto(t, "lock") /\ "free" \in Kind
    BY <1>6, Zenon DEF Free, Call, Kind
  <2>2. /\ calls' \in [Thread -> 0 .. MaxCalls] /\ kind' \in [Thread -> Kind]
        /\ pc' \in [Thread -> Location]
    BY <1>1, <1>2, <1>a, <2>1, Zenon DEF TypeOK
  <2>3. /\ item' \in [Thread -> Item \cup {NULL}] /\ owned' \in [Thread -> SUBSET Item]
        /\ freed' \in [Thread -> SUBSET Item]
    BY <1>6, Zenon DEF TypeOK, Free
  <2>4. QED
    BY <1>6, <2>2, <2>3, Zenon DEF TypeOK, Free, Call, poolvars, memvars
<1>7. ASSUME NEW t \in Thread, NEW c \in Cpu, NEW i \in Item, Store(t, c, i) PROVE TypeOK'
  <2>1. UserValue \in Word /\ StoreCpu(c, i, UserValue) /\ attr' = attr
    BY Zenon, <1>7 DEF Word, Store
  <2>2. /\ percpu' \in [Cpu -> [Item -> Word]] /\ cowed' \subseteq Ranges \X Cpu
        /\ init' = init /\ links' = links
    BY Zenon, <2>1, StoreCpuEffect
  <2>3. QED
    BY Zenon, <1>7, <2>2 DEF TypeOK, Store, poolvars, callvars, uservars
<1>8. ASSUME NEW t \in Thread, Lock(t) \/ ReadHead(t) \/ Exhausted(t) \/ MappingFails(t)
      PROVE  TypeOK'
  <2>1. PICK l \in Location : Goto(t, l)
    BY <1>2, <1>8, Zenon DEF Lock, ReadHead, Exhausted, MappingFails
  <2>2. pc' \in [Thread -> Location]
    BY <1>1, <2>1, Zenon
  <2>3. node' \in [Thread -> Item \cup {NULL}] /\ lock' \in SUBSET Thread
    BY <1>8, Zenon DEF TypeOK, Lock, ReadHead, Exhausted, MappingFails, callvars
  <2>4. QED
    BY <1>8, <2>2, <2>3, Zenon
       DEF TypeOK, Lock, ReadHead, Exhausted, MappingFails, poolvars, memvars, callvars, uservars
<1>9. ASSUME NEW t \in Thread, Pop(t) PROVE TypeOK'
  <2>1. node[t] = free_list_head /\ node[t] # NULL
    BY Zenon, <1>9 DEF Pop, At, LocalInv, Knows
  <2>2. free_list_head' \in Item \cup {NULL}
    BY Zenon, <1>9, <2>1, HeadLink DEF Pop, Ptr
  <2>3. QED
    BY Zenon, <1>1, <1>2, <1>9, <2>2 DEF TypeOK, Pop, memvars, uservars
<1>10. ASSUME NEW t \in Thread, NEW r \in Ranges, next_unused[r] < ItemsPerRange, TakeUnused(t, r)
       PROVE  /\ item' \in [Thread -> Item \cup {NULL}]
              /\ next_unused' \in [Ranges -> 0 .. ItemsPerRange]
              /\ pc' \in [Thread -> Location]
  <2>1. /\ item' = [item EXCEPT ![t] = <<r, next_unused[r]>>]
        /\ next_unused' = [next_unused EXCEPT ![r] = @ + 1] /\ Goto(t, "slot")
    BY <1>10, Zenon DEF TakeUnused
  <2>2. next_unused[r] \in 0 .. ItemsPerRange
    BY <1>0, Zenon
  <2>3. next_unused[r] \in 0 .. ItemsPerRange - 1 /\ next_unused[r] + 1 \in 0 .. ItemsPerRange
    BY <1>3, <1>10, <2>2
  <2>4. <<r, next_unused[r]>> \in Item
    BY <2>3, Zenon DEF Item
  <2>5. QED
    BY <1>0, <1>1, <1>2, <2>1, <2>3, <2>4, Zenon DEF TypeOK
<1>11. ASSUME NEW t \in Thread, Bump(t) PROVE TypeOK'
  <2>1. Head(range_list) \in Ranges /\ next_unused[Head(range_list)] < ItemsPerRange
    BY <1>3, <1>11 DEF TypeOK, RangesInv, Bump, RoomLeft
  <2>2. QED
    BY Zenon, <1>10, <1>11, <2>1 DEF TypeOK, Bump, memvars, uservars
<1>12. ASSUME NEW t \in Thread, CreateRange(t) PROVE TypeOK'
  <2>1. nr_ranges + 1 \in Ranges /\ next_unused[nr_ranges + 1] < ItemsPerRange
    <3>0. nr_ranges < MaxNrRanges
      BY <1>12, Zenon DEF CreateRange
    <3>1. nr_ranges + 1 \in Ranges /\ nr_ranges + 1 > nr_ranges
      <4>1. nr_ranges \in Ranges /\ MaxNrRanges \in Nat
        BY Zenon, <1>0, <1>3
      <4>2. QED
        BY <3>0, <4>1 DEF Ranges
    <3>2. next_unused[nr_ranges + 1] = 0
      BY <3>1, Zenon DEF RangesInv
    <3>3. QED
      BY <1>3, <3>1, <3>2
  <2>2. range_list' \in Seq(Ranges)
    BY <1>12, <2>1 DEF TypeOK, CreateRange
  <2>3. QED
    BY Zenon, <1>10, <1>12, <2>1, <2>2 DEF TypeOK, CreateRange, memvars, uservars
<1>13. ASSUME NEW t \in Thread, set_alloc_slot(t) \/ clear_alloc_slot(t) PROVE TypeOK'
  <2>1. item[t] \in Item
    BY Zenon, <1>13, ItemThere DEF set_alloc_slot, clear_alloc_slot, At
  <2>2. alloc_bitmap' \subseteq Item /\ alarm' \in {"none", "allocator", "double_free"}
    <3>1. alloc_bitmap \subseteq Item /\ alarm = "none"
      BY Zenon, <1>13 DEF TypeOK, set_alloc_slot, clear_alloc_slot, At, Running
    <3>2. CASE set_alloc_slot(t)
      BY Zenon, <2>1, <3>1, <3>2 DEF set_alloc_slot
    <3>3. CASE clear_alloc_slot(t)
      BY Zenon, <2>1, <3>1, <3>3 DEF clear_alloc_slot
    <3>4. QED
      BY Zenon, <1>13, <3>2, <3>3
  <2>3. pc' \in [Thread -> Location] /\ node' \in [Thread -> Item \cup {NULL}]
    <3>1. PICK l \in Location : Goto(t, l)
      BY <1>2, <1>13, Zenon DEF set_alloc_slot, clear_alloc_slot
    <3>2. node' = node \/ node' = [node EXCEPT ![t] = free_list_head]
      BY <1>13, Zenon DEF set_alloc_slot, clear_alloc_slot, callvars
    <3>3. free_list_head \in Item \cup {NULL}
      BY Zenon DEF TypeOK
    <3>4. QED
      BY <1>0, <1>1, <3>1, <3>2, <3>3, Zenon
  <2>4. /\ UNCHANGED <<attr, range_list, nr_ranges, next_unused, free_list_head, lock, memvars>>
        /\ UNCHANGED <<kind, item, cpu, uservars>>
    BY <1>13, Zenon DEF set_alloc_slot, clear_alloc_slot, callvars
  <2>5. QED
    BY <2>2, <2>3, <2>4, Zenon DEF TypeOK, memvars, uservars
<1>14. ASSUME NEW t \in Thread, Return(t)
       PROVE  /\ pc' \in [Thread -> Location] /\ owned' \in [Thread -> SUBSET Item]
              /\ kind' \in [Thread -> Kind] /\ item' \in [Thread -> Item \cup {NULL}]
              /\ node' \in [Thread -> Item \cup {NULL}] /\ cpu' \in [Thread -> 0 .. NCpu]
  BY <1>1, <1>2, <1>3, <1>14 DEF TypeOK, Return, Kind
<1>15. ASSUME NEW t \in Thread, Unlock(t) \/ Filled(t) PROVE TypeOK'
  <2>1. CASE Return(t)
    BY <1>14, <1>15, <2>1, Zenon DEF TypeOK, Unlock, Filled, Return, poolvars, memvars
  <2>2. CASE ~Return(t)
    BY Zenon, <1>1, <1>2, <1>15, <2>2 DEF TypeOK, Unlock, Filled, poolvars, memvars, callvars, uservars
  <2>3. QED
    BY Zenon, <2>1, <2>2
<1>16. ASSUME NEW t \in Thread, FillInit(t) PROVE TypeOK'
  <2>1. item[t] \in Item /\ Value(t) \in Word
    BY Zenon, <1>16, ItemThere, ValueType DEF FillInit, At
  <2>2. init' \in [Item -> Word]
    BY <1>16, <2>1, Zenon DEF TypeOK, FillInit
  <2>3. QED
    <3>1. 0 \in 0 .. NCpu
      BY <1>3
    <3>2. cpu' \in [Thread -> 0 .. NCpu] /\ pc' \in [Thread -> Location]
      BY <1>0, <1>1, <1>2, <1>16, <3>1, Zenon DEF FillInit
    <3>3. QED
      BY <1>16, <2>2, <3>2, Zenon DEF TypeOK, FillInit, poolvars, uservars
<1>17. ASSUME NEW t \in Thread, FillCpu(t) PROVE TypeOK'
  <2>1. item[t] \in Item /\ Value(t) \in Word /\ cpu[t] \in Cpu /\ attr' = attr
    <3>1. cpu[t] \in Cpu /\ attr' = attr
      BY <1>0, <1>3, <1>17 DEF FillCpu, Cpu
    <3>2. QED
      BY Zenon, <1>17, <3>1, ItemThere, ValueType DEF FillCpu, At
  <2>2. /\ percpu' \in [Cpu -> [Item -> Word]] /\ cowed' \subseteq Ranges \X Cpu
        /\ init' = init /\ links' = links
    <3>1. CASE StoreCpu(cpu[t], item[t], Value(t))
      BY Zenon, <2>1, <3>1, StoreCpuEffect
    <3>2. CASE UNCHANGED memvars
      BY Zenon, <3>2 DEF memvars, TypeOK
    <3>3. QED
      BY Zenon, <1>17, <3>1, <3>2 DEF FillCpu
  <2>3. cpu' \in [Thread -> 0 .. NCpu]
    BY <1>3, <1>17, SMTT(30) DEF TypeOK, FillCpu
  <2>4. QED
    BY <1>17, <2>2, <2>3, SMTT(30) DEF TypeOK, FillCpu, poolvars, uservars
<1>18. ASSUME NEW t \in Thread, Link(t) PROVE TypeOK'
  <2>1. item[t] \in Item /\ node[t] \in Word /\ 0 \in Cpu /\ attr' = attr
    <3>1. node[t] \in Word /\ 0 \in Cpu
      BY <1>0, <1>3 DEF Word, NULL, Cpu
    <3>2. QED
      BY Zenon, <1>18, <3>1, ItemThere DEF Link, At
  <2>2. /\ percpu' \in [Cpu -> [Item -> Word]] /\ cowed' \subseteq Ranges \X Cpu
        /\ init' \in [Item -> Word] /\ links' \in [Item -> Word]
    <3>1. CASE StoreCpu(0, item[t], node[t])
      BY Zenon, <2>1, <3>1, StoreCpuEffect DEF TypeOK
    <3>2. CASE ~StoreCpu(0, item[t], node[t])
      BY <1>18, <2>1, <3>2, ZenonT(40) DEF Link, StoreLink, TypeOK
    <3>3. QED
      BY Zenon, <3>1, <3>2
  <2>3. QED
    BY Zenon, <1>1, <1>2, <1>18, <2>2 DEF TypeOK, Link, poolvars, callvars, uservars
<1>19. ASSUME NEW t \in Thread, Push(t) PROVE TypeOK'
  BY Zenon, <1>1, <1>2, <1>19 DEF TypeOK, Push, memvars, callvars, uservars
<1>20. CASE Destroy
  BY Zenon, <1>20 DEF TypeOK, Destroy, poolvars, memvars, callvars
<1>21. CASE UNCHANGED vars
  BY Zenon, <1>21 DEF TypeOK, vars, poolvars, memvars, callvars, uservars
<1>22. QED
  BY Zenon, <1>4, <1>5, <1>6, <1>7, <1>8, <1>9, <1>11, <1>12, <1>13, <1>15, <1>16, <1>17, <1>18, <1>19,
     <1>20, <1>21 DEF Next, Step

-----------------------------------------------------------------------------
\* What a step does to the memory of the items other than i.
OthersKept(i) ==
    \A j \in Item \ {i} : /\ init'[j] = init[j] /\ Ptr(j)' = Ptr(j)
                          /\ \A c \in Cpu : View(c, j)' = View(c, j)
MemKept == UNCHANGED <<attr, memvars>>

\* A step that leaves the memory alone changes nothing a CPU sees.
LEMMA MemKeptEffect ==
    ASSUME MemKept
    PROVE  /\ init' = init /\ \A i : Ptr(i)' = Ptr(i)
           /\ \A c, i : View(c, i)' = View(c, i)
BY Zenon DEF MemKept, memvars, Ptr, __rseq_percpu_to_free_list_ptr, View

\* A store to a copy, and a link, leave the other items alone.
LEMMA StoreCpuOthers ==
    ASSUME TypeOK, NEW c \in Cpu, NEW i \in Item, NEW w \in Word, StoreCpu(c, i, w), attr' = attr
    PROVE  OthersKept(i)
<1>1. 0 \in Cpu
  BY MempoolAssumption DEF Cpu
<1>2. ASSUME NEW j \in Item, j # i PROVE \A d \in Cpu : View(d, j)' = View(d, j)
  BY <1>2, StoreCpuEffect
<1>3. ASSUME NEW j \in Item, j # i PROVE init'[j] = init[j] /\ links'[j] = links[j]
  BY Zenon, StoreCpuEffect
<1>4. ASSUME NEW j \in Item, j # i PROVE Ptr(j)' = Ptr(j)
  <2>1. ~attr.cow_init => percpu'[0][j] = percpu[0][j]
    BY Zenon, <1>1, <1>2, <1>4 DEF View
  <2>2. QED
    BY Zenon, <1>3, <1>4, <2>1 DEF Ptr, __rseq_percpu_to_free_list_ptr
<1>5. QED
  BY Zenon, <1>2, <1>3, <1>4 DEF OthersKept

\* A link is written where it is read, and to no CPU's copy of a robust pool.
LEMMA StoreLinkEffect ==
    ASSUME TypeOK, NEW i \in Item, NEW w \in Word, StoreLink(i, w), attr' = attr
    PROVE  /\ OthersKept(i) /\ Ptr(i)' = w
           /\ attr.robust => init' = init /\ \A c \in Cpu, j \in Item : View(c, j)' = View(c, j)
<1>1. 0 \in Cpu
  BY MempoolAssumption DEF Cpu
<1>2. init \in [Item -> Word] /\ links \in [Item -> Word]
  BY Zenon DEF TypeOK
<1>3. CASE attr.robust
  BY Zenon, <1>2, <1>3 DEF StoreLink, OthersKept, Ptr, __rseq_percpu_to_free_list_ptr, View
<1>4. CASE ~attr.robust /\ attr.cow_init
  BY Zenon, <1>2, <1>4 DEF StoreLink, OthersKept, Ptr, __rseq_percpu_to_free_list_ptr, View
<1>5. CASE ~attr.robust /\ ~attr.cow_init
  <2>1. StoreCpu(0, i, w)
    BY Zenon, <1>5 DEF StoreLink
  <2>2. OthersKept(i) /\ View(0, i)' = w
    BY Zenon, <1>1, <2>1, StoreCpuOthers, StoreCpuEffect
  <2>3. QED
    BY Zenon, <1>5, <2>2 DEF Ptr, __rseq_percpu_to_free_list_ptr, View
<1>6. QED
  BY Zenon, <1>3, <1>4, <1>5

\* A fill writes to the item of its thread only.
LEMMA FillOthers ==
    ASSUME TypeOK, LocalInv, NEW t \in Thread, FillInit(t) \/ FillCpu(t)
    PROVE  OthersKept(item[t])
<1>1. item[t] \in Item /\ Value(t) \in Word /\ attr' = attr
  BY Zenon, ItemThere, ValueType DEF FillInit, FillCpu, At
<1>2. CASE FillInit(t)
  <2>1. init \in [Item -> Word] /\ UNCHANGED <<percpu, cowed, links>>
        /\ init' = IF attr.cow_init THEN [init EXCEPT ![item[t]] = Value(t)] ELSE init
    BY Zenon, <1>2 DEF TypeOK, FillInit
  <2>2. \A j \in Item : j # item[t] => init'[j] = init[j]
    BY Zenon, <2>1
  <2>3. QED
    BY Zenon, <1>1, <2>1, <2>2 DEF OthersKept, Ptr, __rseq_percpu_to_free_list_ptr, View
<1>3. CASE FillCpu(t)
  <2>1. cpu[t] \in Cpu
    BY <1>3, MempoolAssumption DEF FillCpu, Cpu, TypeOK
  <2>2. CASE StoreCpu(cpu[t], item[t], Value(t))
    BY <1>1, <2>1, <2>2, StoreCpuOthers, SMTT(30)
  <2>3. CASE UNCHANGED memvars
    BY Zenon, <1>1, <2>3, MemKeptEffect DEF MemKept, OthersKept
  <2>4. QED
    BY Zenon, <1>3, <2>2, <2>3 DEF FillCpu
<1>4. QED
  BY Zenon, <1>2, <1>3

-----------------------------------------------------------------------------
\* The ranges: only CreateRange() and the items taken from the newest range
\* change them.
LEMMA RangesNext == ASSUME TypeOK, RangesInv, Next PROVE RangesInv'
<1>0. /\ range_list \in Seq(Ranges) /\ nr_ranges \in Ranges
      /\ next_unused \in [Ranges -> 0 .. ItemsPerRange]
      /\ ItemsPerRange \in Nat \ {0} /\ MaxNrRanges \in Nat \ {0}
  BY MempoolAssumption DEF TypeOK
<1>1. ASSUME NEW t \in Thread, Bump(t) PROVE RangesInv'
  <2>1. UNCHANGED <<range_list, nr_ranges>> /\ next_unused' = [next_unused EXCEPT ![nr_ranges] = @ + 1]
    BY <1>1, Zenon DEF Bump, TakeUnused, RangesInv
  <2>2. \A r \in Ranges : r # nr_ranges => next_unused'[r] = next_unused[r]
    BY <1>0, <2>1
  <2>3. \A r \in Ranges : r > nr_ranges \/ r < nr_ranges => r # nr_ranges
    BY <1>0 DEF Ranges
  <2>4. \A r \in Ranges : /\ r > nr_ranges => next_unused'[r] = 0
                          /\ r < nr_ranges => next_unused'[r] = ItemsPerRange
    BY <2>2, <2>3, Zenon DEF RangesInv
  <2>5. QED
    BY <2>1, <2>4 DEF RangesInv
<1>2. ASSUME NEW t \in Thread, CreateRange(t) PROVE RangesInv'
  <2>1. /\ nr_ranges < MaxNrRanges /\ nr_ranges' = nr_ranges + 1
        /\ range_list' = <<nr_ranges + 1>> \o range_list
        /\ next_unused' = [next_unused EXCEPT ![nr_ranges + 1] = @ + 1]
        /\ ~RoomLeft
    BY <1>2, Zenon DEF CreateRange, TakeUnused
  <2>2. next_unused[nr_ranges] = ItemsPerRange
    BY <1>0, <2>1 DEF RoomLeft, RangesInv
  <2>3. nr_ranges + 1 \in Ranges
    BY <1>0, <2>1 DEF Ranges
  <2>4. range_list' # << >> /\ Head(range_list') = nr_ranges'
    BY <1>0, <2>1
  <2>5. {range_list'[k] : k \in DOMAIN range_list'} = 1 .. nr_ranges'
    <3>1. /\ Len(range_list') = Len(range_list) + 1 /\ range_list' \in Seq(Int)
          /\ range_list'[1] = nr_ranges + 1
          /\ \A k \in 1 .. Len(range_list) : range_list'[k + 1] = range_list[k]
      BY <1>0, <2>1 DEF Ranges
    <3>2. {range_list[k] : k \in 1 .. Len(range_list)} = 1 .. nr_ranges
      BY <1>0 DEF RangesInv
    <3>3. DOMAIN range_list' = 1 .. Len(range_list) + 1 /\ Len(range_list) \in Nat
      BY <1>0, <3>1
    <3>4. ASSUME NEW k \in 1 .. Len(range_list) + 1 PROVE range_list'[k] \in 1 .. nr_ranges + 1
      <4>1. CASE k = 1
        BY <1>0, <3>1, <4>1 DEF Ranges
      <4>2. CASE k # 1
        <5>1. k - 1 \in 1 .. Len(range_list) /\ k = (k - 1) + 1
          BY <3>3, <3>4, <4>2
        <5>2. range_list'[k] = range_list[k - 1]
          BY <3>1, <5>1
        <5>3. range_list[k - 1] \in 1 .. nr_ranges
          BY <3>2, <5>1
        <5>4. QED
          BY <1>0, <5>2, <5>3 DEF Ranges
      <4>3. QED
        BY <4>1, <4>2
    <3>5. ASSUME NEW r \in 1 .. nr_ranges + 1
          PROVE  \E k \in 1 .. Len(range_list) + 1 : range_list'[k] = r
      <4>1. CASE r = nr_ranges + 1
        BY <3>1, <3>3, <4>1
      <4>2. CASE r # nr_ranges + 1
        <5>1. r \in 1 .. nr_ranges
          BY <1>0, <3>5, <4>2 DEF Ranges
        <5>2. PICK k \in 1 .. Len(range_list) : range_list[k] = r
          BY <3>2, <5>1
        <5>3. k + 1 \in 1 .. Len(range_list) + 1 /\ range_list'[k + 1] = r
          BY <3>1, <3>3, <5>2
        <5>4. QED
          BY <5>3
      <4>3. QED
        BY <4>1, <4>2
    <3>6. QED
      BY <2>1, <3>3, <3>4, <3>5, Zenon
  <2>6. \A r \in Ranges : /\ r > nr_ranges' => next_unused'[r] = 0
                          /\ r < nr_ranges' => next_unused'[r] = ItemsPerRange
    <3>1. SUFFICES ASSUME NEW r \in Ranges
                   PROVE  /\ r > nr_ranges + 1 => next_unused'[r] = 0
                          /\ r < nr_ranges + 1 => next_unused'[r] = ItemsPerRange
      BY <2>1
    <3>2. r # nr_ranges + 1 => next_unused'[r] = next_unused[r]
      BY <1>0, <2>1
    <3>3. /\ r > nr_ranges + 1 => r > nr_ranges /\ r # nr_ranges + 1
          /\ r < nr_ranges + 1 => r # nr_ranges + 1 /\ (r = nr_ranges \/ r < nr_ranges)
      BY <1>0 DEF Ranges
    <3>4. QED
      BY <2>2, <3>2, <3>3, Zenon DEF RangesInv
  <2>7. QED
    BY <2>4, <2>5, <2>6, Zenon DEF RangesInv
<1>3. CASE UNCHANGED <<range_list, nr_ranges, next_unused>>
  BY <1>3 DEF RangesInv
<1>4. ASSUME NEW t \in Thread, (\E k \in Kind : Malloc(t, k)) \/ \E i \in Item : Free(t, i)
      PROVE  RangesInv'
  BY <1>3, <1>4, Zenon DEF Malloc, Free, Call, poolvars
<1>5. ASSUME NEW t \in Thread, MallocInitTooLong(t) \/ \E c \in Cpu, i \in Item : Store(t, c, i)
      PROVE  RangesInv'
  BY <1>3, <1>5, Zenon DEF MallocInitTooLong, Store, poolvars
<1>6. ASSUME NEW t \in Thread,
             Lock(t) \/ ReadHead(t) \/ Pop(t) \/ Exhausted(t) \/ MappingFails(t) \/ set_alloc_slot(t)
      PROVE  RangesInv'
  BY <1>3, <1>6, Zenon DEF Lock, ReadHead, Pop, Exhausted, MappingFails, set_alloc_slot, poolvars
<1>7. ASSUME NEW t \in Thread,
             Unlock(t) \/ FillInit(t) \/ FillCpu(t) \/ Filled(t) \/ clear_alloc_slot(t) \/ Link(t) \/ Push(t)
      PROVE  RangesInv'
  BY <1>3, <1>7, Zenon
     DEF Unlock, FillInit, FillCpu, Filled, clear_alloc_slot, Link, Push, poolvars
<1>8. CASE Destroy \/ UNCHANGED vars
  BY <1>3, <1>8, Zenon DEF Destroy, vars, poolvars
<1>9. QED
  BY <1>1, <1>2, <1>4, <1>5, <1>6, <1>7, <1>8, Zenon DEF Next, Step

\* The mutex: a thread is inside it from Lock() to Unlock().
LEMMA LockNext ==
    ASSUME TypeOK, LocalInv, LockInv, OneInside, Next PROVE LockInv' /\ OneInside'
<1>0. /\ pc \in [Thread -> Location] /\ kind \in [Thread -> Kind] /\ lock \in SUBSET Thread
  BY Zenon DEF TypeOK
<1>1. ASSUME NEW u \in Thread, pc'[u] = pc[u], kind'[u] = kind[u]
      PROVE  Inside(u)' <=> Inside(u)
  BY <1>1, Zenon DEF Inside
<1>2. ASSUME NEW t \in Thread, lock' = lock, Inside(t)' <=> Inside(t),
             \A u \in Thread : u # t => pc'[u] = pc[u] /\ kind'[u] = kind[u]
      PROVE  LockInv' /\ OneInside'
  BY <1>1, <1>2 DEF LockInv, OneInside
<1>3. ASSUME NEW t \in Thread, NEW l, Goto(t, l)
      PROVE  pc'[t] = l /\ \A u \in Thread : u # t => pc'[u] = pc[u]
  BY <1>0, <1>3, Zenon DEF Goto
<1>4. ASSUME NEW t \in Thread, NEW l, Goto(t, l), lock' = lock, kind' = kind,
             pc[t] \in {"clear", "node", "pop", "range", "slot", "link", "push"},
             l \in {"clear", "pop", "range", "slot", "full", "nomem", "link", "push", "unlock"}
      PROVE  LockInv' /\ OneInside'
  <2>1. Inside(t) /\ Inside(t)'
    BY <1>3, <1>4 DEF Inside
  <2>2. QED
    BY <1>2, <1>3, <1>4, <2>1, Zenon
<1>5. ASSUME NEW t \in Thread, (\E k \in Kind : Malloc(t, k)) \/ \E i \in Item : Free(t, i)
      PROVE  LockInv' /\ OneInside'
  <2>1. PICK k : Call(t, k)
    BY <1>5, Zenon DEF Malloc, Free
  <2>2. pc[t] = "idle" /\ Goto(t, "lock") /\ lock' = lock /\ kind' = [kind EXCEPT ![t] = k]
    BY <2>1, Zenon DEF Call, At
  <2>3. ~Inside(t) /\ ~Inside(t)'
    BY <1>3, <2>2 DEF Inside
  <2>4. QED
    BY <1>0, <1>2, <1>3, <2>2, <2>3, Zenon
<1>6. ASSUME NEW t \in Thread, Lock(t) PROVE LockInv' /\ OneInside'
  <2>1. /\ lock = {} /\ lock' = {t} /\ kind' = kind
        /\ Goto(t, IF kind[t] = "free" THEN "clear" ELSE "node")
    BY <1>6, Zenon DEF Lock, callvars
  <2>2. pc'[t] \in {"clear", "node"}
    BY <1>3, <2>1, Zenon
  <2>3. Inside(t)'
    BY <2>2 DEF Inside
  <2>4. \A u \in Thread : u # t => (Inside(u)' <=> Inside(u))
    BY <1>1, <1>3, <2>1, Zenon
  <2>5. QED
    BY <2>1, <2>3, <2>4 DEF LockInv, OneInside
<1>7. ASSUME NEW t \in Thread, Unlock(t) PROVE LockInv' /\ OneInside'
  <2>1. pc[t] \in {"unlock", "full", "nomem"} /\ lock' = {}
    BY <1>7, Zenon DEF Unlock
  <2>2. t \in lock
    BY <2>1 DEF LockInv, Inside
  <2>3. \/ Goto(t, "fill") /\ kind' = kind /\ kind[t] \in {"zmalloc", "malloc_init"}
        \/ Goto(t, "idle") /\ kind' = [kind EXCEPT ![t] = "malloc"]
    BY <1>7, Zenon DEF Unlock, Return, callvars
  <2>4. \A u \in Thread : u # t => pc'[u] = pc[u] /\ kind'[u] = kind[u]
    BY <1>0, <1>3, <2>3, Zenon
  <2>5. pc'[t] = "idle" \/ (pc'[t] = "fill" /\ kind'[t] # "free")
    BY <1>3, <2>3
  <2>6. ~Inside(t)'
    BY <2>5 DEF Inside
  <2>7. \A u \in Thread : u # t => (Inside(u)' <=> Inside(u))
    BY <1>1, <2>4, Zenon
  <2>8. \A u \in Thread : u \in lock => u = t
    BY <2>2, Zenon DEF OneInside
  <2>9. QED
    BY <2>1, <2>6, <2>7, <2>8 DEF LockInv, OneInside
<1>8. ASSUME NEW t \in Thread, ReadHead(t) \/ clear_alloc_slot(t) PROVE LockInv' /\ OneInside'
  <2>1. PICK l \in {"pop", "range", "fill", "link"} : Goto(t, l) /\ (ReadHead(t) => l \in {"pop", "range"})
                                                    /\ (clear_alloc_slot(t) => l \in {"fill", "link"})
    <3>1. CASE ReadHead(t)
      <4>1. pc[t] = "node" /\ \E l \in {"pop", "range"} : Goto(t, l)
        BY <3>1, Zenon DEF ReadHead, At
      <4>2. ~clear_alloc_slot(t)
        BY <4>1, Zenon DEF clear_alloc_slot, At
      <4>3. QED
        BY <4>1, <4>2, Zenon
    <3>2. CASE clear_alloc_slot(t)
      <4>1. pc[t] = "clear" /\ \E l \in {"fill", "link"} : Goto(t, l)
        BY <3>2, Zenon DEF clear_alloc_slot, At
      <4>2. ~ReadHead(t)
        BY <4>1, Zenon DEF ReadHead, At
      <4>3. QED
        BY <4>1, <4>2, Zenon
    <3>3. QED
      BY <1>8, <3>1, <3>2, Zenon
  <2>2. lock' = lock /\ kind' = kind /\ pc[t] \in {"node", "clear"} /\ (clear_alloc_slot(t) => pc[t] = "clear")
    BY <1>8, Zenon DEF ReadHead, clear_alloc_slot, At
  <2>3. CASE l # "fill"
    BY <1>4, <2>1, <2>2, <2>3, Zenon
  <2>4. CASE l = "fill"
    <3>1. clear_alloc_slot(t) /\ pc[t] = "clear"
      BY <1>8, <2>1, <2>2, <2>4, Zenon
    <3>2. kind[t] = "free"
      BY <3>1, Zenon DEF LocalInv, Knows
    <3>3. pc'[t] = "fill" /\ kind'[t] = "free"
      BY <1>3, <2>1, <2>2, <2>4, <3>2, Zenon
    <3>4. Inside(t) /\ Inside(t)'
      BY <3>1, <3>3 DEF Inside
    <3>5. QED
      BY <1>2, <1>3, <2>1, <2>2, <3>4, Zenon
  <2>5. QED
    BY <2>3, <2>4, Zenon
<1>9. ASSUME NEW t \in Thread,
             Pop(t) \/ Bump(t) \/ CreateRange(t) \/ Exhausted(t) \/ MappingFails(t)
      PROVE  LockInv' /\ OneInside'
  <2>1. /\ lock' = lock /\ kind' = kind /\ pc[t] \in {"pop", "range"}
        /\ Goto(t, "slot") \/ Goto(t, "full") \/ Goto(t, "nomem")
    BY <1>9, Zenon DEF Pop, Bump, CreateRange, TakeUnused, Exhausted, MappingFails, At, callvars
  <2>2. QED
    BY <1>4, <2>1, Zenon
<1>10. ASSUME NEW t \in Thread, set_alloc_slot(t) \/ Link(t) \/ Push(t)
       PROVE  LockInv' /\ OneInside'
  <2>1. /\ lock' = lock /\ kind' = kind /\ pc[t] \in {"slot", "link", "push"}
        /\ Goto(t, "push") \/ Goto(t, "unlock")
    BY <1>10, Zenon DEF set_alloc_slot, Link, Push, At, callvars
  <2>2. QED
    BY <1>4, <2>1, Zenon
<1>11. ASSUME NEW t \in Thread, FillInit(t) \/ FillCpu(t) PROVE LockInv' /\ OneInside'
  <2>1. /\ lock' = lock /\ kind' = kind /\ pc[t] \in {"fill", "fill_cpu"}
        /\ Goto(t, "fill_cpu") \/ pc' = pc
    BY <1>11, Zenon DEF FillInit, FillCpu, At
  <2>2. pc'[t] \in {"fill", "fill_cpu"} /\ \A u \in Thread : u # t => pc'[u] = pc[u]
    BY <1>3, <2>1, Zenon
  <2>3. Inside(t)' <=> Inside(t)
    BY <2>1, <2>2 DEF Inside
  <2>4. QED
    BY <1>2, <2>1, <2>2, <2>3, Zenon
<1>12. ASSUME NEW t \in Thread, Filled(t) PROVE LockInv' /\ OneInside'
  <2>1. /\ lock' = lock /\ pc[t] = "fill_cpu"
        /\ \/ kind[t] = "free" /\ kind' = kind /\ Goto(t, "link")
           \/ kind[t] # "free" /\ kind' = [kind EXCEPT ![t] = "malloc"] /\ Goto(t, "idle")
    BY <1>12, Zenon DEF Filled, Return, At, callvars
  <2>2. /\ \A u \in Thread : u # t => pc'[u] = pc[u] /\ kind'[u] = kind[u]
        /\ kind[t] = "free" => pc'[t] = "link"
        /\ kind[t] # "free" => pc'[t] = "idle"
    BY <1>0, <1>3, <2>1, Zenon
  <2>3. Inside(t)' <=> Inside(t)
    BY <2>1, <2>2 DEF Inside
  <2>4. QED
    BY <1>2, <2>1, <2>2, <2>3, Zenon
<1>13. CASE UNCHANGED <<pc, kind, lock>>
  BY <1>13, Zenon DEF LockInv, OneInside, Inside
<1>14. ASSUME NEW t \in Thread, MallocInitTooLong(t) \/ \E c \in Cpu, i \in Item : Store(t, c, i)
       PROVE  LockInv' /\ OneInside'
  BY <1>13, <1>14, Zenon DEF MallocInitTooLong, Store, callvars
<1>15. CASE Destroy
  BY <1>13, <1>15, Zenon DEF Destroy, callvars
<1>16. CASE UNCHANGED vars
  BY <1>13, <1>16, Zenon DEF vars, callvars
<1>17. QED
  BY <1>5, <1>6, <1>7, <1>8, <1>9, <1>10, <1>11, <1>12, <1>14, <1>15, <1>16, Zenon DEF Next, Step

=============================================================================
