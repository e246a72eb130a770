-------------------------- MODULE RseqMempoolRange --------------------------
(***************************************************************************)
(* The mappings of a memory pool: creation of its ranges, where any of the *)
(* calls to the system may fail, destruction, and a fork of the process    *)
(* at any step of them.                                                    *)
(*                                                                         *)
(* A range is a canary page, a header page that holds its structure, the   *)
(* copy of each CPU, the initial values and the free list.  The ranges of  *)
(* a COW_INIT pool are not inherited by a child, except for the two pages. *)
(* Whoever lives in a process may map the addresses that are free there.   *)
(*                                                                         *)
(* Assumed of the system: a call that fails changes nothing.               *)
(***************************************************************************)
EXTENDS Integers, Sequences

CONSTANTS
    NCpu,            \* attr.max_nr_cpus
    MaxNrRanges,     \* ranges ever created (bound)
    Attrs,           \* attributes the pool may be created with
    Fails,           \* TRUE if mmap(), madvise(), calloc()... may fail
    MunmapFails,     \* TRUE if munmap() may fail
    Allocates        \* TRUE if items are allocated

Cpu == 0 .. NCpu - 1
Ranges == 1 .. MaxNrRanges
Process == {"parent", "child"}
Attr == [robust : BOOLEAN, cow_init : BOOLEAN, init_set : BOOLEAN, named : BOOLEAN]

ASSUME RangeAssumption ==
    /\ NCpu \in Nat \ {0}
    /\ MaxNrRanges \in Nat \ {0}
    /\ Attrs \subseteq Attr
    /\ Fails \in BOOLEAN /\ MunmapFails \in BOOLEAN /\ Allocates \in BOOLEAN

\* The areas of a range in the order of their addresses: the two header pages,
\* then the data.  What may be mapped at one: nothing, anonymous memory, the
\* memfd of the initial values, shared or private, or something that is not the
\* pool's.
Canary == -2
Header == -1
InitArea == NCpu
LinksArea == NCpu + 1
Area == Canary .. LinksArea
IsData(a) == a >= 0
InRange(a, at) == (a = InitArea => at.cow_init) /\ (a = LinksArea => at.robust)
Mapping == {"none", "anon", "shared", "private", "foreign"}
Own == {"anon", "shared", "private"}

VARIABLES
    attr,
    \* Of each process:
    maps,            \* what is mapped, per range and area
    marker,          \* the ranges whose canary byte is 0x1
    dontfork,        \* the ranges whose data areas have MADV_DONTFORK
    wipeonfork,      \* the ranges whose canary page has MADV_WIPEONFORK
    memfd,           \* the ranges whose memfd is open
    alloc_bitmap,    \* the ranges that have a bitmap
    live,            \* the ranges with an item that is not freed
    range_list,
    pool,            \* TRUE if the structure of the pool exists
    pc,
    range,           \* the range that is created or destroyed
    mapping_accessible,
    result,          \* what the last call returned
    aborted,
    \* Of the parent:
    call, cpu,
    nr_ranges,       \* ranges ever mapped
    forked,
    orphan           \* the range that was being created at the fork

mapvars == <<maps, marker, dontfork, wipeonfork, memfd, alloc_bitmap>>
poolvars == <<live, range_list, pool>>
callvars == <<range, mapping_accessible, result, aborted, call, cpu, nr_ranges>>
forkvars == <<forked, orphan>>
vars == <<attr, mapvars, poolvars, pc, callvars, forkvars>>

Location == {"idle", "gone", "mmap", "memfd", "map_init", "map_cpu", "dontfork", "marker",
             "wipeonfork", "close", "bitmap", "init_func", "list_add", "strdup",
             "error", "undo", "unmap", "failed",
             "destroy", "ranges", "munmap", "free"}

ForBoth(x) == [p \in Process |-> x]

Init ==
    /\ attr \in Attrs
    /\ maps = ForBoth([r \in Ranges |-> [a \in Area |-> "none"]])
    /\ marker = ForBoth({}) /\ dontfork = ForBoth({}) /\ wipeonfork = ForBoth({})
    /\ memfd = ForBoth({}) /\ alloc_bitmap = ForBoth({}) /\ live = ForBoth({})
    /\ range_list = ForBoth(<< >>) /\ pool = ForBoth(FALSE)
    /\ pc = [p \in Process |-> IF p = "parent" THEN "idle" ELSE "gone"]
    /\ range = ForBoth(1) /\ mapping_accessible = ForBoth(TRUE)
    /\ result = ForBoth("none") /\ aborted = ForBoth(FALSE)
    /\ call = "none" /\ cpu = 0 /\ nr_ranges = 0
    /\ forked = FALSE /\ orphan = {}

At(p, l) == pc[p] = l /\ ~aborted[p]
Goto(p, l) == pc' = [pc EXCEPT ![p] = l]
\* One process gains or loses a range in one of its sets.
Insert(f, p, r) == [f EXCEPT ![p] = @ \cup {r}]
Delete(f, p, r) == [f EXCEPT ![p] = @ \ {r}]
Me == "parent"
New == range[Me]
Listed(p) == {range_list[p][k] : k \in DOMAIN range_list[p]}
MapAreas(p, r, S, m) == [maps EXCEPT ![p][r] = [a \in Area |-> IF a \in S THEN m ELSE @[a]]]

-----------------------------------------------------------------------------
\* rseq_mempool_create(), and __rseq_percpu_malloc() without room.
Create ==
    /\ At(Me, "idle") /\ call = "none"
    /\ pool' = [pool EXCEPT ![Me] = TRUE]
    /\ call' = "create"
    /\ Goto(Me, "mmap")
    /\ UNCHANGED <<attr, mapvars, live, range_list, range, mapping_accessible, result, aborted,
                   cpu, nr_ranges, forkvars>>

CreateNoMemory ==
    /\ At(Me, "idle") /\ call = "none" /\ Fails
    /\ result' = [result EXCEPT ![Me] = "NULL"]
    /\ UNCHANGED <<attr, mapvars, poolvars, pc, range, mapping_accessible, aborted, call, cpu,
                   nr_ranges, forkvars>>

Grow ==
    /\ At(Me, "idle") /\ pool[Me] /\ call # "destroy" /\ nr_ranges < MaxNrRanges
    /\ call' = "grow"
    /\ Goto(Me, "mmap")
    /\ UNCHANGED <<attr, mapvars, poolvars, range, mapping_accessible, result, aborted, cpu,
                   nr_ranges, forkvars>>

\* A step of rseq_mempool_range_create() that may fail: it does something and
\* leads to l, or leads to the error path.
Fallible(at, effect, l) ==
    /\ At(Me, at)
    /\ \/ effect /\ Goto(Me, l)
       \/ Fails /\ UNCHANGED mapvars /\ Goto(Me, "error")
    /\ UNCHANGED <<attr, poolvars, range, mapping_accessible, result, aborted, call, nr_ranges,
                   forkvars>>

AfterBitmap == IF attr.init_set THEN "init_func" ELSE "list_add"
AfterCow == IF attr.robust THEN "bitmap" ELSE AfterBitmap

aligned_mmap_anonymous ==
    /\ At(Me, "mmap")
    /\ \/ /\ nr_ranges' = nr_ranges + 1
          /\ range' = [range EXCEPT ![Me] = nr_ranges + 1]
          /\ maps' = [maps EXCEPT ![Me][nr_ranges + 1] =
                        [a \in Area |-> IF InRange(a, attr) THEN "anon" ELSE @[a]]]
          /\ Goto(Me, IF attr.cow_init THEN "memfd" ELSE AfterCow)
       \/ Fails /\ Goto(Me, "failed") /\ UNCHANGED <<nr_ranges, range, maps>>
    /\ UNCHANGED <<attr, marker, dontfork, wipeonfork, memfd, alloc_bitmap, poolvars,
                   mapping_accessible, result, aborted, call, cpu, forkvars>>

rseq_memfd_create_init ==
    /\ Fallible("memfd", memfd' = Insert(memfd, Me, New)
                         /\ UNCHANGED <<maps, marker, dontfork, wipeonfork, alloc_bitmap>>,
                "map_init")
    /\ UNCHANGED cpu

MapInit ==
    /\ Fallible("map_init", maps' = MapAreas(Me, New, {InitArea}, "shared")
                            /\ UNCHANGED <<marker, dontfork, wipeonfork, memfd, alloc_bitmap>>,
                "map_cpu")
    /\ cpu' = 0

MapCpu ==
    /\ Fallible("map_cpu", maps' = MapAreas(Me, New, {cpu}, "private")
                           /\ UNCHANGED <<marker, dontfork, wipeonfork, memfd, alloc_bitmap>>,
                IF cpu + 1 < NCpu THEN "map_cpu" ELSE "dontfork")
    /\ cpu' = cpu + 1

DontFork ==
    /\ Fallible("dontfork", dontfork' = Insert(dontfork, Me, New)
                            /\ UNCHANGED <<maps, marker, wipeonfork, memfd, alloc_bitmap>>,
                "marker")
    /\ UNCHANGED cpu

WriteMarker ==
    /\ At(Me, "marker")
    /\ marker' = Insert(marker, Me, New)
    /\ Goto(Me, "wipeonfork")
    /\ UNCHANGED <<attr, maps, dontfork, wipeonfork, memfd, alloc_bitmap, poolvars, callvars,
                   forkvars>>

\* Mutant: the marker is inherited.
WipeNothing ==
    /\ Fallible("wipeonfork", UNCHANGED mapvars, "close")
    /\ UNCHANGED cpu

WipeOnFork ==
    /\ Fallible("wipeonfork", wipeonfork' = Insert(wipeonfork, Me, New)
                              /\ UNCHANGED <<maps, marker, dontfork, memfd, alloc_bitmap>>,
                "close")
    /\ UNCHANGED cpu

rseq_memfd_close ==
    /\ At(Me, "close")
    /\ memfd' = Delete(memfd, Me, New)
    /\ Goto(Me, AfterCow)
    /\ UNCHANGED <<attr, maps, marker, dontfork, wipeonfork, alloc_bitmap, poolvars, callvars,
                   forkvars>>

create_alloc_bitmap ==
    /\ Fallible("bitmap", alloc_bitmap' = Insert(alloc_bitmap, Me, New)
                          /\ UNCHANGED <<maps, marker, dontfork, wipeonfork, memfd>>,
                AfterBitmap)
    /\ UNCHANGED cpu

\* The callbacks for all CPUs; the one that fails is not told apart.
InitFunc == Fallible("init_func", UNCHANGED mapvars, "list_add") /\ UNCHANGED cpu

ListAdd ==
    /\ At(Me, "list_add")
    /\ range_list' = [range_list EXCEPT ![Me] = <<New>> \o @]
    /\ IF call = "create" /\ attr.named
         THEN Goto(Me, "strdup") /\ UNCHANGED result
         ELSE Goto(Me, "idle") /\ result' = [result EXCEPT ![Me] = "ok"]
    /\ UNCHANGED <<attr, mapvars, live, pool, range, mapping_accessible, aborted, call, cpu,
                   nr_ranges, forkvars>>

Strdup ==
    /\ At(Me, "strdup")
    /\ \/ Goto(Me, "idle") /\ result' = [result EXCEPT ![Me] = "ok"]
       \/ Fails /\ Goto(Me, "failed") /\ UNCHANGED result
    /\ UNCHANGED <<attr, mapvars, poolvars, range, mapping_accessible, aborted, call, cpu,
                   nr_ranges, forkvars>>

-----------------------------------------------------------------------------
\* Mutant: the memfd stays open.
ErrorNoClose ==
    /\ At(Me, "error")
    /\ Goto(Me, "undo")
    /\ UNCHANGED <<attr, mapvars, poolvars, callvars, forkvars>>

\* The error path: the memfd, then rseq_mempool_range_destroy(pool, range, true).
ErrorClose ==
    /\ At(Me, "error")
    /\ memfd' = Delete(memfd, Me, New)
    /\ Goto(Me, "undo")
    /\ UNCHANGED <<attr, maps, marker, dontfork, wipeonfork, alloc_bitmap, poolvars, callvars,
                   forkvars>>

destroy_alloc_bitmap(p, r) ==
    IF r \in alloc_bitmap[p] /\ r \in live[p]
      THEN aborted' = [aborted EXCEPT ![p] = TRUE] /\ UNCHANGED alloc_bitmap
      ELSE alloc_bitmap' = Delete(alloc_bitmap, p, r) /\ UNCHANGED aborted

ErrorBitmap ==
    /\ At(Me, "undo")
    /\ destroy_alloc_bitmap(Me, New)
    /\ Goto(Me, "unmap")
    /\ UNCHANGED <<attr, maps, marker, dontfork, wipeonfork, memfd, poolvars, range,
                   mapping_accessible, result, call, cpu, nr_ranges, forkvars>>

\* The areas of a range whose addresses one munmap() frees: what is there does
\* not matter to it.
Unmapped(p, r, accessible) ==
    MapAreas(p, r, {a \in Area : InRange(a, attr) /\ (IsData(a) => accessible)}, "none")

ErrorUnmap ==
    /\ At(Me, "unmap")
    /\ \/ maps' = Unmapped(Me, New, TRUE)
       \/ MunmapFails /\ UNCHANGED maps
    /\ Goto(Me, "failed")
    /\ UNCHANGED <<attr, marker, dontfork, wipeonfork, memfd, alloc_bitmap, poolvars, callvars,
                   forkvars>>

\* rseq_mempool_create() destroys the pool it could not complete; the
\* allocation only returns NULL.
Failed ==
    /\ At(Me, "failed")
    /\ result' = [result EXCEPT ![Me] = "NULL"]
    /\ Goto(Me, IF call = "create" THEN "destroy" ELSE "idle")
    /\ call' = IF call = "create" THEN "destroy" ELSE call
    /\ UNCHANGED <<attr, mapvars, poolvars, range, mapping_accessible, aborted, cpu, nr_ranges,
                   forkvars>>

-----------------------------------------------------------------------------
\* What the program does with the pool's items, of which it only matters
\* whether all are freed.
AllocItem(r) ==
    /\ Allocates /\ attr.robust /\ At(Me, "idle") /\ pool[Me] /\ call # "destroy"
    /\ r \in Listed(Me) \ live[Me]
    /\ live' = Insert(live, Me, r)
    /\ UNCHANGED <<attr, mapvars, range_list, pool, pc, callvars, forkvars>>

FreeItem(r) ==
    /\ At(Me, "idle") /\ call # "destroy" /\ r \in live[Me]
    /\ live' = Delete(live, Me, r)
    /\ UNCHANGED <<attr, mapvars, range_list, pool, pc, callvars, forkvars>>

\* Another thread maps something at the addresses of a range that are free.
MapForeign(p, r) ==
    /\ pc[p] # "gone" /\ ~aborted[p] /\ r <= nr_ranges
    /\ LET free == {a \in Area : maps[p][r][a] = "none"}
       IN  free # {} /\ maps' = MapAreas(p, r, free, "foreign")
    /\ UNCHANGED <<attr, marker, dontfork, wipeonfork, memfd, alloc_bitmap, poolvars, pc,
                   callvars, forkvars>>

\* Another thread forks.  The child has the pool unless it is being created or
\* destroyed.
Fork ==
    /\ ~forked /\ ~aborted[Me] /\ nr_ranges > 0
    /\ forked' = TRUE
    /\ LET copy(f) == [f EXCEPT !["child"] = f[Me]]
           has == pool[Me] /\ call \in {"create", "grow"} /\ (call = "create" => pc[Me] = "idle")
       IN  /\ maps' = [maps EXCEPT !["child"] =
                         [r \in Ranges |-> [a \in Area |->
                            IF IsData(a) /\ r \in dontfork[Me] THEN "none" ELSE maps[Me][r][a]]]]
           /\ marker' = [marker EXCEPT !["child"] = marker[Me] \ wipeonfork[Me]]
           /\ dontfork' = copy(dontfork) /\ wipeonfork' = copy(wipeonfork)
           /\ memfd' = copy(memfd) /\ alloc_bitmap' = copy(alloc_bitmap)
           /\ live' = copy(live) /\ range_list' = copy(range_list)
           /\ pool' = [pool EXCEPT !["child"] = has]
           /\ pc' = [pc EXCEPT !["child"] = IF has THEN "idle" ELSE "gone"]
           /\ orphan' = {New} \ Listed(Me)
    /\ UNCHANGED <<attr, callvars>>

-----------------------------------------------------------------------------
\* Mutant: the marker is not looked at.
AlwaysAccessible(p) == TRUE

\* rseq_mempool_destroy(), in either process.
pool_mappings_accessible(p) ==
    attr.cow_init /\ range_list[p] # << >> => Head(range_list[p]) \in marker[p]

Destroy(p) ==
    /\ At(p, "idle") /\ pool[p]
    /\ IF p = Me THEN call # "destroy" ELSE result[p] # "0"
    /\ result' = [result EXCEPT ![p] = "none"]
    /\ call' = IF p = Me THEN "destroy" ELSE call
    /\ Goto(p, "destroy")
    /\ UNCHANGED <<attr, mapvars, poolvars, range, mapping_accessible, aborted, cpu, nr_ranges,
                   forkvars>>

\* check_free_list() and check_pool_poison() abort if an item is not freed
\* (RseqMempool).
CheckPool(p) ==
    /\ At(p, "destroy")
    /\ LET accessible == pool_mappings_accessible(p)
       IN  /\ mapping_accessible' = [mapping_accessible EXCEPT ![p] = accessible]
           /\ aborted' = [aborted EXCEPT ![p] = attr.robust /\ accessible /\ live[p] # {}]
    /\ Goto(p, "ranges")
    /\ UNCHANGED <<attr, mapvars, poolvars, range, result, call, cpu, nr_ranges, forkvars>>

ListDel(p) ==
    /\ At(p, "ranges") /\ range_list[p] # << >>
    /\ range' = [range EXCEPT ![p] = Head(range_list[p])]
    /\ range_list' = [range_list EXCEPT ![p] = Tail(@)]
    /\ destroy_alloc_bitmap(p, Head(range_list[p]))
    /\ Goto(p, "munmap")
    /\ UNCHANGED <<attr, maps, marker, dontfork, wipeonfork, memfd, live, pool,
                   mapping_accessible, result, call, cpu, nr_ranges, forkvars>>

Munmap(p) ==
    /\ At(p, "munmap")
    /\ maps' = Unmapped(p, range[p], mapping_accessible[p])
    /\ Goto(p, "ranges")
    /\ UNCHANGED <<attr, marker, dontfork, wipeonfork, memfd, alloc_bitmap, poolvars, callvars,
                   forkvars>>

\* The range goes back to the list, and ret is still 0.
MunmapError(p) ==
    /\ At(p, "munmap") /\ MunmapFails
    /\ range_list' = [range_list EXCEPT ![p] = <<range[p]>> \o @]
    /\ result' = [result EXCEPT ![p] = IF @ = "NULL" THEN "NULL" ELSE "0"]
    /\ Goto(p, "idle")
    /\ UNCHANGED <<attr, mapvars, live, pool, range, mapping_accessible, aborted, call, cpu,
                   nr_ranges, forkvars>>

FreePool(p) ==
    /\ At(p, "ranges") /\ range_list[p] = << >>
    /\ pool' = [pool EXCEPT ![p] = FALSE]
    /\ result' = [result EXCEPT ![p] = IF @ = "NULL" THEN "NULL" ELSE "0"]
    /\ Goto(p, "idle")
    /\ UNCHANGED <<attr, mapvars, live, range_list, range, mapping_accessible, aborted, call,
                   cpu, nr_ranges, forkvars>>

Next ==
    \/ Create \/ CreateNoMemory \/ Grow
    \/ aligned_mmap_anonymous \/ rseq_memfd_create_init \/ MapInit \/ MapCpu \/ DontFork
    \/ WriteMarker \/ WipeOnFork \/ rseq_memfd_close \/ create_alloc_bitmap \/ InitFunc
    \/ ListAdd \/ Strdup
    \/ ErrorClose \/ ErrorBitmap \/ ErrorUnmap \/ Failed
    \/ Fork
    \/ \E r \in Ranges : AllocItem(r) \/ FreeItem(r)
    \/ \E p \in Process :
         \/ Destroy(p) \/ CheckPool(p) \/ ListDel(p) \/ Munmap(p) \/ MunmapError(p)
         \/ FreePool(p)
         \/ \E r \in Ranges : MapForeign(p, r)

Spec == Init /\ [][Next]_vars

-----------------------------------------------------------------------------
\* Type correctness.
TypeOK ==
    /\ attr \in Attrs
    /\ maps \in [Process -> [Ranges -> [Area -> Mapping]]]
    /\ \A f \in {marker, dontfork, wipeonfork, memfd, alloc_bitmap, live} :
           f \in [Process -> SUBSET Ranges]
    /\ range_list \in [Process -> Seq(Ranges)]
    /\ pool \in [Process -> BOOLEAN]
    /\ pc \in [Process -> Location]
    /\ range \in [Process -> Ranges]
    /\ mapping_accessible \in [Process -> BOOLEAN]
    /\ result \in [Process -> {"none", "ok", "NULL", "0"}]
    /\ aborted \in [Process -> BOOLEAN]
    /\ call \in {"none", "create", "grow", "destroy"}
    /\ cpu \in 0 .. NCpu /\ nr_ranges \in 0 .. MaxNrRanges
    /\ forked \in BOOLEAN /\ orphan \subseteq Ranges

\* What a child has of the range another thread was creating at the fork.
Left(p) == IF p = Me THEN {} ELSE orphan

\* When no call is in progress a process has mappings, a memfd or a bitmap only
\* of ranges in its list: a creation that fails at any step undoes the earlier
\* ones, and a destroy leaves nothing, in a child too.
NothingLeft ==
    \A p \in Process : At(p, "idle") =>
        /\ memfd[p] \subseteq Left(p)
        /\ \A r \in Ranges \ (Listed(p) \cup Left(p)) :
              /\ r \notin alloc_bitmap[p]
              /\ \A a \in Area : maps[p][r][a] \notin Own

\* The structures of the ranges in the list are mapped, in a child too, and the
\* marker of the newest range tells whether the data of all of them is.
RangesAccessible ==
    \A p \in Process : pool[p] =>
        \A r \in Listed(p), a \in Area : InRange(a, attr) =>
            (maps[p][r][a] \in Own <=> (IsData(a) => pool_mappings_accessible(p)))

\* No call unmaps something that is not the pool's, such as what a child has
\* mapped where the parent has the pool.
ForeignKept ==
    [][\A p \in Process, r \in Ranges, a \in Area :
         maps[p][r][a] = "foreign" => maps'[p][r][a] = "foreign"]_vars

\* The initial values of the pool's ranges are never shared with a child.
InitNotShared == \A r \in Listed("child"), a \in Area : maps["child"][r][a] # "shared"

\* rseq_mempool_destroy() returns 0 only if the pool is destroyed.  Where munmap
\* may fail (MunmapFails) this does not hold.
DestroyFrees == \A p \in Process : result[p] = "0" => ~pool[p]

\* A child can destroy a COW_INIT pool.  It does not hold of a robust one with
\* an item allocated at the fork.
ChildDestroys == attr.cow_init => ~aborted["child"]

=============================================================================
