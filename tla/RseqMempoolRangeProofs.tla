----------------------- MODULE RseqMempoolRangeProofs -----------------------
(***************************************************************************)
(* The mappings of a pool for any number of CPUs and ranges: what a        *)
(* process has of each range at every step of a creation, a destruction    *)
(* and a fork.                                                             *)
(***************************************************************************)
EXTENDS RseqMempoolRange, TLAPS

\* The parent is creating its range.
Creating == {"memfd", "map_init", "map_cpu", "dontfork", "marker", "wipeonfork", "close",
             "bitmap", "init_func", "list_add", "error", "undo", "unmap"}
Building(p) == IF p = Me /\ pc[Me] \in Creating THEN {New} ELSE {}
Removing(p) == IF pc[p] = "munmap" THEN {range[p]} ELSE {}
\* The ranges a process has from ListAdd to Munmap.
Known(p) == Listed(p) \cup Removing(p)
\* Whether a process has the data of its ranges.
Accessible(p) == attr.cow_init => p = Me

Elems(s) == {s[k] : k \in DOMAIN s}
Distinct(s) == \A j, k \in DOMAIN s : s[j] = s[k] => j = k

\* The calls and the fork.
CallInv ==
    /\ pc[Me] # "gone"
    /\ pc["child"] \in {"gone", "idle", "destroy", "ranges", "munmap"}
    /\ pc[Me] \in Creating \cup {"mmap", "strdup", "failed"} => call \in {"create", "grow"}
    /\ pc[Me] \in {"destroy", "ranges", "munmap"} => call = "destroy"
    /\ pc[Me] \in {"memfd", "map_init", "map_cpu", "dontfork", "marker", "wipeonfork", "close"} =>
           attr.cow_init
    /\ call = "none" => nr_ranges = 0
    /\ pc[Me] = "mmap" => nr_ranges < MaxNrRanges
    /\ pc[Me] = "map_cpu" => cpu < NCpu
    /\ pool["child"] => pc["child"] # "gone"
    /\ ~forked => pc["child"] = "gone" /\ \A r \in Ranges, a \in Area : maps["child"][r][a] = "none"

\* The lists have no range twice, and none that is being created or removed.
ListInv ==
    /\ \A p \in Process :
          /\ Distinct(range_list[p])
          /\ Listed(p) \subseteq 1 .. nr_ranges
          /\ Removing(p) \cap Listed(p) = {} /\ Removing(p) \subseteq 1 .. nr_ranges
    /\ Building(Me) \cap Listed(Me) = {} /\ Building(Me) \subseteq 1 .. nr_ranges

\* Areas no pool of these attributes has, and ranges that were never mapped.
AreaInv ==
    \A p \in Process, r \in Ranges, a \in Area :
        /\ ~InRange(a, attr) => maps[p][r][a] \notin Own
        /\ r > nr_ranges => maps[p][r][a] = "none"

\* The range that is being created.
BuildInv ==
    /\ \A r \in Building(Me), a \in Area : InRange(a, attr) => maps[Me][r][a] \in Own
    /\ attr.cow_init /\ pc[Me] \in {"marker", "wipeonfork", "close", "bitmap", "init_func", "list_add"}
           => New \in dontfork[Me]
    /\ attr.cow_init /\ pc[Me] \in {"wipeonfork", "close", "bitmap", "init_func", "list_add"}
           => New \in marker[Me]
    /\ attr.cow_init /\ pc[Me] \in {"close", "bitmap", "init_func", "list_add"}
           => New \in wipeonfork[Me]
    /\ ~attr.cow_init => dontfork[Me] = {}

\* The ranges a process has.
KnownInv ==
    /\ \A p \in Process : \A r \in Known(p) :
          /\ \A a \in Area : InRange(a, attr) =>
                 (maps[p][r][a] \in Own <=> (IsData(a) => Accessible(p)))
          /\ attr.cow_init => (r \in marker[p] <=> p = Me)
    /\ attr.cow_init => Known(Me) \subseteq dontfork[Me] \cap wipeonfork[Me]

\* What the checks at the start of a destroy found is so.
AccessInv ==
    \A p \in Process :
        pc[p] = "munmap" \/ (pc[p] = "ranges" /\ range_list[p] # << >>) =>
            (mapping_accessible[p] <=> Accessible(p))

PoolInv == CallInv /\ ListInv /\ AreaInv /\ BuildInv /\ KnownInv /\ AccessInv

\* What a process has of the other ranges, if munmap() does not fail.
FdInv ==
    /\ memfd[Me] \subseteq IF pc[Me] \in {"map_init", "map_cpu", "dontfork", "marker", "wipeonfork",
                                         "close", "error"} THEN {New} ELSE {}
    /\ pc["child"] # "gone" => memfd["child"] \subseteq orphan
BitmapInv ==
    \A p \in Process : pc[p] # "gone" /\ ~aborted[p] =>
        alloc_bitmap[p] \subseteq
            Listed(p) \cup Left(p) \cup
            (IF p = Me /\ pc[Me] \in {"init_func", "list_add", "error", "undo"} THEN {New} ELSE {})
OwnInv ==
    \A p \in Process : pc[p] # "gone" =>
        \A r \in Ranges \ (Known(p) \cup Building(p) \cup Left(p)), a \in Area :
            maps[p][r][a] \notin Own
LeftInv == FdInv /\ BitmapInv /\ OwnInv

-----------------------------------------------------------------------------
\* The processes, and the areas of a range.
LEMMA Constants ==
    /\ Me \in Process /\ "child" \in Process /\ Me # "child"
    /\ NCpu \in Nat \ {0} /\ MaxNrRanges \in Nat \ {0}
    /\ InitArea \in Area /\ \A c \in Nat : c < NCpu => c \in Area
    /\ 1 \in Ranges
BY RangeAssumption DEF Me, Process, Area, InitArea, LinksArea, Canary, Ranges

\* A range enters or leaves a set of one process.
LEMMA InsertIs ==
    ASSUME NEW f \in [Process -> SUBSET Ranges], NEW p \in Process, NEW r \in Ranges
    PROVE  /\ Insert(f, p, r) \in [Process -> SUBSET Ranges]
           /\ Delete(f, p, r) \in [Process -> SUBSET Ranges]
           /\ \A q \in Process : /\ Insert(f, p, r)[q] = IF q = p THEN f[q] \cup {r} ELSE f[q]
                                 /\ Delete(f, p, r)[q] = IF q = p THEN f[q] \ {r} ELSE f[q]
BY Zenon DEF Insert, Delete

\* Areas of one range of one process are mapped.
LEMMA MapAreasIs ==
    ASSUME TypeOK, NEW p \in Process, NEW r \in Ranges, NEW S, NEW m \in Mapping
    PROVE  /\ MapAreas(p, r, S, m) \in [Process -> [Ranges -> [Area -> Mapping]]]
           /\ \A q \in Process, s \in Ranges, a \in Area :
                 MapAreas(p, r, S, m)[q][s][a] =
                     IF q = p /\ s = r /\ a \in S THEN m ELSE maps[q][s][a]
<1>1. maps \in [Process -> [Ranges -> [Area -> Mapping]]]
  BY Zenon DEF TypeOK
<1>2. DEFINE new == [a \in Area |-> IF a \in S THEN m ELSE maps[p][r][a]]
<1>3. new \in [Area -> Mapping] /\ \A a \in Area : new[a] = IF a \in S THEN m ELSE maps[p][r][a]
  BY <1>1
<1>4. MapAreas(p, r, S, m) = [maps EXCEPT ![p] = [maps[p] EXCEPT ![r] = new]]
  BY Zenon, <1>1 DEF MapAreas
<1>5. HIDE DEF new
<1>6. QED
  BY <1>1, <1>3, <1>4

\* Only the areas S of range r of process p change, to mapping m.
OnlyMaps(p, r, S, m) ==
    \A q \in Process, s \in Ranges, a \in Area :
        maps'[q][s][a] # maps[q][s][a] => q = p /\ s = r /\ a \in S /\ maps'[q][s][a] = m

\* Mapping or unmapping a set of areas of a range changes nothing else.
LEMMA MapAreasNext ==
    ASSUME TypeOK, NEW p \in Process, NEW r \in Ranges, NEW S, NEW m \in Mapping,
           maps' = MapAreas(p, r, S, m)
    PROVE  OnlyMaps(p, r, S, m)
BY MapAreasIs DEF OnlyMaps

\* Lists with one range more or less at their head.
LEMMA ConsIs ==
    ASSUME NEW s \in Seq(Ranges), NEW r \in Ranges
    PROVE  /\ <<r>> \o s \in Seq(Ranges)
           /\ Elems(<<r>> \o s) = {r} \cup Elems(s)
           /\ Distinct(s) /\ r \notin Elems(s) => Distinct(<<r>> \o s)
<1>1. DEFINE c == <<r>> \o s
<1>2. /\ c \in Seq(Ranges) /\ Len(c) = Len(s) + 1 /\ c[1] = r /\ DOMAIN c = 1 .. Len(s) + 1
      /\ \A k \in 1 .. Len(s) : c[k + 1] = s[k]
      /\ DOMAIN s = 1 .. Len(s) /\ Len(s) \in Nat
  OBVIOUS
<1>3. \A k \in 1 .. Len(s) + 1 : k # 1 => k - 1 \in 1 .. Len(s) /\ c[k] = s[k - 1]
  <2>1. ASSUME NEW k \in 1 .. Len(s) + 1, k # 1 PROVE k - 1 \in 1 .. Len(s) /\ c[(k - 1) + 1] = s[k - 1]
    BY <1>2, <2>1
  <2>2. QED
    BY <1>2, <2>1
<1>4. \A k \in 1 .. Len(s) : k + 1 \in 1 .. Len(s) + 1
  BY <1>2
<1>5. HIDE DEF c
<1>6. {c[k] : k \in DOMAIN c} = {r} \cup {s[k] : k \in DOMAIN s}
  <2>1. ASSUME NEW k \in DOMAIN c PROVE c[k] \in {r} \cup {s[j] : j \in DOMAIN s}
    BY Zenon, <1>2, <1>3
  <2>2. ASSUME NEW k \in DOMAIN s PROVE \E j \in DOMAIN c : c[j] = s[k]
    BY Zenon, <1>2, <1>4
  <2>3. 1 \in DOMAIN c /\ c[1] = r
    BY <1>2
  <2>4. QED
    BY <2>1, <2>2, <2>3, Zenon
<1>7. ASSUME Distinct(s), r \notin {s[k] : k \in DOMAIN s},
             NEW j \in DOMAIN c, NEW k \in DOMAIN c, c[j] = c[k]
      PROVE  j = k
  <2>0. ASSUME NEW i \in DOMAIN c, i # 1 PROVE c[i] # r
    <3>1. i - 1 \in DOMAIN s /\ c[i] = s[i - 1]
      BY Zenon, <1>2, <1>3, <2>0
    <3>2. QED
      BY Zenon, <1>7, <3>1
  <2>1. CASE j = 1 \/ k = 1
    BY Zenon, <1>2, <1>7, <2>0, <2>1
  <2>2. CASE j # 1 /\ k # 1
    <3>1. s[j - 1] = s[k - 1] /\ j - 1 \in DOMAIN s /\ k - 1 \in DOMAIN s
      BY Zenon, <1>2, <1>3, <1>7, <2>2
    <3>2. j - 1 = k - 1
      BY Zenon, <1>7, <3>1 DEF Distinct
    <3>3. QED
      BY <1>2, <3>2
  <2>3. QED
    BY Zenon, <2>1, <2>2
<1>8. c \in Seq(Ranges) /\ (Distinct(s) /\ r \notin {s[k] : k \in DOMAIN s} => Distinct(c))
  BY Zenon, <1>2, <1>7 DEF Distinct
<1>9. QED
  BY Zenon, <1>6, <1>8 DEF c, Elems

\* Removing the head, as list_for_each_entry_safe() with range_destroy() does.
LEMMA TailIs ==
    ASSUME NEW s \in Seq(Ranges), s # << >>
    PROVE  /\ Tail(s) \in Seq(Ranges) /\ Head(s) \in Ranges
           /\ Elems(s) = {Head(s)} \cup Elems(Tail(s))
           /\ Distinct(s) => Distinct(Tail(s)) /\ Head(s) \notin Elems(Tail(s))
<1>1. DEFINE c == Tail(s)
<1>2. /\ c \in Seq(Ranges) /\ Head(s) \in Ranges /\ Head(s) = s[1] /\ Len(s) \in Nat \ {0}
      /\ DOMAIN c = 1 .. Len(s) - 1 /\ DOMAIN s = 1 .. Len(s)
      /\ \A k \in 1 .. Len(s) - 1 : c[k] = s[k + 1]
  OBVIOUS
<1>3. HIDE DEF c
<1>4. \A k \in 1 .. Len(s) : k # 1 => k - 1 \in 1 .. Len(s) - 1 /\ c[k - 1] = s[k]
  <2>1. ASSUME NEW k \in 1 .. Len(s), k # 1 PROVE k - 1 \in 1 .. Len(s) - 1 /\ c[k - 1] = s[(k - 1) + 1]
    BY <1>2, <2>1
  <2>2. QED
    BY <1>2, <2>1
<1>5. \A k \in 1 .. Len(s) - 1 : k + 1 \in 1 .. Len(s) /\ k + 1 # 1
  BY <1>2
<1>6. {s[k] : k \in DOMAIN s} = {Head(s)} \cup {c[k] : k \in DOMAIN c}
  <2>1. ASSUME NEW k \in DOMAIN s PROVE s[k] \in {Head(s)} \cup {c[j] : j \in DOMAIN c}
    BY Zenon, <1>2, <1>4
  <2>2. ASSUME NEW k \in DOMAIN c PROVE \E j \in DOMAIN s : s[j] = c[k]
    BY Zenon, <1>2, <1>5
  <2>3. 1 \in DOMAIN s /\ s[1] = Head(s)
    BY <1>2
  <2>4. QED
    BY <2>1, <2>2, <2>3
<1>7. ASSUME Distinct(s) PROVE Distinct(c) /\ Head(s) \notin {c[k] : k \in DOMAIN c}
  <2>1. ASSUME NEW j \in DOMAIN c, NEW k \in DOMAIN c, c[j] = c[k] PROVE j = k
    <3>1. s[j + 1] = s[k + 1] /\ j + 1 \in DOMAIN s /\ k + 1 \in DOMAIN s
      BY Zenon, <1>2, <1>5, <2>1
    <3>2. j + 1 = k + 1
      BY Zenon, <1>7, <3>1 DEF Distinct
    <3>3. QED
      BY <1>2, <3>2
  <2>2. ASSUME NEW k \in DOMAIN c PROVE c[k] # Head(s)
    <3>1. c[k] = s[k + 1] /\ k + 1 \in DOMAIN s /\ 1 \in DOMAIN s /\ k + 1 # 1
      BY <1>2, <1>5
    <3>2. QED
      BY Zenon, <1>2, <1>7, <3>1 DEF Distinct
  <2>3. QED
    BY Zenon, <2>1, <2>2 DEF Distinct
<1>8. QED
  BY Zenon, <1>2, <1>6, <1>7 DEF c, Elems

-----------------------------------------------------------------------------
\* What a child has after the fork.
LEMMA ForkIs ==
    ASSUME TypeOK, Fork
    PROVE  /\ maps' \in [Process -> [Ranges -> [Area -> Mapping]]]
           /\ \A r \in Ranges, a \in Area :
                 /\ maps'[Me][r][a] = maps[Me][r][a]
                 /\ maps'["child"][r][a] =
                        IF IsData(a) /\ r \in dontfork[Me] THEN "none" ELSE maps[Me][r][a]
           /\ marker' = [marker EXCEPT !["child"] = marker[Me] \ wipeonfork[Me]]
           /\ dontfork' = [dontfork EXCEPT !["child"] = dontfork[Me]]
           /\ wipeonfork' = [wipeonfork EXCEPT !["child"] = wipeonfork[Me]]
           /\ memfd' = [memfd EXCEPT !["child"] = memfd[Me]]
           /\ alloc_bitmap' = [alloc_bitmap EXCEPT !["child"] = alloc_bitmap[Me]]
           /\ live' = [live EXCEPT !["child"] = live[Me]]
           /\ range_list' = [range_list EXCEPT !["child"] = range_list[Me]]
<1>0. maps \in [Process -> [Ranges -> [Area -> Mapping]]] /\ "none" \in Mapping
  BY Zenon DEF TypeOK, Mapping
<1>1. DEFINE copied == [r \in Ranges |-> [a \in Area |->
                           IF IsData(a) /\ r \in dontfork[Me] THEN "none" ELSE maps[Me][r][a]]]
<1>2. copied \in [Ranges -> [Area -> Mapping]]
  <2>1. ASSUME NEW r \in Ranges, NEW a \in Area
        PROVE  (IF IsData(a) /\ r \in dontfork[Me] THEN "none" ELSE maps[Me][r][a]) \in Mapping
    BY <1>0, Constants
  <2>2. QED
    BY Zenon, <2>1
<1>3. \A r \in Ranges, a \in Area :
          copied[r][a] = IF IsData(a) /\ r \in dontfork[Me] THEN "none" ELSE maps[Me][r][a]
  OBVIOUS
<1>4. maps' = [maps EXCEPT !["child"] = copied]
  BY Zenon DEF Fork
<1>5. HIDE DEF copied
<1>6. /\ maps' \in [Process -> [Ranges -> [Area -> Mapping]]]
      /\ maps'[Me] = maps[Me] /\ maps'["child"] = copied
  BY Zenon, <1>0, <1>2, <1>4, Constants
<1>7. QED
  BY Zenon, <1>3, <1>6 DEF Fork

\* Which steps change what.
LEMMA Frame ==
    ASSUME Next
    PROVE  /\ attr' = attr
           /\ \/ maps' = maps
              \/ aligned_mmap_anonymous \/ MapInit \/ MapCpu \/ ErrorUnmap \/ Fork
              \/ \E p \in Process : Munmap(p) \/ \E r \in Ranges : MapForeign(p, r)
           /\ \/ range_list' = range_list
              \/ ListAdd \/ Fork \/ \E p \in Process : ListDel(p) \/ MunmapError(p)
           /\ \/ range' = range
              \/ aligned_mmap_anonymous \/ \E p \in Process : ListDel(p)
           /\ nr_ranges' = nr_ranges \/ aligned_mmap_anonymous
           /\ marker' = marker \/ WriteMarker \/ Fork
           /\ dontfork' = dontfork \/ DontFork \/ Fork
           /\ wipeonfork' = wipeonfork \/ WipeOnFork \/ Fork
           /\ memfd' = memfd \/ rseq_memfd_create_init \/ rseq_memfd_close \/ ErrorClose \/ Fork
           /\ \/ alloc_bitmap' = alloc_bitmap
              \/ create_alloc_bitmap \/ ErrorBitmap \/ Fork \/ \E p \in Process : ListDel(p)
           /\ live' = live \/ Fork \/ \E r \in Ranges : AllocItem(r) \/ FreeItem(r)
           /\ <<forked, orphan>>' = <<forked, orphan>> \/ Fork
           /\ mapping_accessible' = mapping_accessible \/ \E p \in Process : CheckPool(p)
<1> USE DEF mapvars, poolvars, callvars, forkvars
<1>1. CASE Create \/ CreateNoMemory \/ Grow \/ aligned_mmap_anonymous
  BY Zenon, <1>1 DEF Create, CreateNoMemory, Grow, aligned_mmap_anonymous
<1>2. CASE rseq_memfd_create_init \/ MapInit \/ MapCpu \/ DontFork \/ WipeOnFork
           \/ create_alloc_bitmap \/ InitFunc
  BY Zenon, <1>2 DEF rseq_memfd_create_init, MapInit, MapCpu, DontFork, WipeOnFork, create_alloc_bitmap,
              InitFunc, Fallible
<1>3. CASE WriteMarker \/ rseq_memfd_close \/ ListAdd \/ Strdup \/ ErrorClose \/ ErrorBitmap
           \/ ErrorUnmap \/ Failed
  BY Zenon, <1>3 DEF WriteMarker, rseq_memfd_close, ListAdd, Strdup, ErrorClose, ErrorBitmap, ErrorUnmap,
              Failed, destroy_alloc_bitmap
<1>4. CASE Fork
  BY Zenon, <1>4 DEF Fork
<1>5. ASSUME NEW r \in Ranges, AllocItem(r) \/ FreeItem(r)
      PROVE  /\ UNCHANGED <<attr, mapvars, range_list, callvars, forkvars>>
  BY Zenon, <1>5 DEF AllocItem, FreeItem
<1>6. CASE \E r \in Ranges : AllocItem(r) \/ FreeItem(r)
  BY Zenon, <1>5, <1>6
<1>7. CASE \E p \in Process : Destroy(p) \/ CheckPool(p) \/ FreePool(p)
  BY Zenon, <1>7 DEF Destroy, CheckPool, FreePool
<1>8. CASE \E p \in Process : ListDel(p) \/ Munmap(p) \/ MunmapError(p)
  BY Zenon, <1>8 DEF ListDel, Munmap, MunmapError, destroy_alloc_bitmap
<1>9. CASE \E p \in Process, r \in Ranges : MapForeign(p, r)
  BY Zenon, <1>9 DEF MapForeign
<1>10. QED
  BY <1>1, <1>2, <1>3, <1>4, <1>6, <1>7, <1>8, <1>9, Zenon DEF Next

\* What is mapped has its type after every step.
LEMMA MapsTypeNext ==
    ASSUME TypeOK, CallInv, Next PROVE maps' \in [Process -> [Ranges -> [Area -> Mapping]]]
<1> USE Constants
<1>0. /\ maps \in [Process -> [Ranges -> [Area -> Mapping]]]
      /\ New \in Ranges /\ \A p \in Process : range[p] \in Ranges
      /\ nr_ranges \in 0 .. MaxNrRanges
      /\ \A m \in {"none", "anon", "shared", "private", "foreign"} : m \in Mapping
  BY Zenon DEF TypeOK, New, Mapping
<1>1. CASE aligned_mmap_anonymous
  <2>1. nr_ranges + 1 \in Ranges
    BY <1>0, <1>1 DEF aligned_mmap_anonymous, At, CallInv, Ranges
  <2>2. maps' = maps \/ maps' = MapAreas(Me, nr_ranges + 1, {a \in Area : InRange(a, attr)}, "anon")
    <3>1. [a \in Area |-> IF InRange(a, attr) THEN "anon" ELSE maps[Me][nr_ranges + 1][a]] =
          [a \in Area |-> IF a \in {b \in Area : InRange(b, attr)} THEN "anon"
                          ELSE maps[Me][nr_ranges + 1][a]]
      BY Zenon
    <3>2. QED
      BY Zenon, <1>0, <1>1, <2>1, <3>1 DEF aligned_mmap_anonymous, MapAreas
  <2>3. QED
    BY <1>0, <2>1, <2>2, MapAreasIs
<1>2. CASE MapInit \/ MapCpu
  <2>1. \/ maps' = maps \/ maps' = MapAreas(Me, New, {InitArea}, "shared")
        \/ maps' = MapAreas(Me, New, {cpu}, "private")
    BY Zenon, <1>2 DEF MapInit, MapCpu, Fallible, mapvars
  <2>2. QED
    BY <1>0, <2>1, MapAreasIs
<1>3. CASE ErrorUnmap
  BY <1>0, <1>3, MapAreasIs DEF ErrorUnmap, Unmapped
<1>4. CASE Fork
  BY Zenon, <1>4, ForkIs
<1>5. ASSUME NEW p \in Process, Munmap(p) PROVE maps' \in [Process -> [Ranges -> [Area -> Mapping]]]
  BY <1>0, <1>5, MapAreasIs DEF Munmap, Unmapped
<1>6. ASSUME NEW p \in Process, NEW r \in Ranges, MapForeign(p, r)
      PROVE  maps' \in [Process -> [Ranges -> [Area -> Mapping]]]
  BY <1>0, <1>6, MapAreasIs DEF MapForeign
<1>7. QED
  BY Zenon, <1>0, <1>1, <1>2, <1>3, <1>4, <1>5, <1>6, Frame

\* So have the sets of ranges.
LEMMA SetsTypeNext ==
    ASSUME TypeOK, Next
    PROVE  (\A f \in {marker, dontfork, wipeonfork, memfd, alloc_bitmap, live} :
                f \in [Process -> SUBSET Ranges])'
<1> USE Constants
<1>0. /\ \A f \in {marker, dontfork, wipeonfork, memfd, alloc_bitmap, live} :
             f \in [Process -> SUBSET Ranges]
      /\ New \in Ranges /\ \A p \in Process : range_list[p] \in Seq(Ranges)
  BY Zenon DEF TypeOK, New
<1>1. \A f \in {marker, dontfork, wipeonfork, memfd, alloc_bitmap, live}, p \in Process, r \in Ranges :
          /\ Insert(f, p, r) \in [Process -> SUBSET Ranges]
          /\ Delete(f, p, r) \in [Process -> SUBSET Ranges]
  BY Zenon, <1>0, InsertIs
<1>2. CASE Fork
  <2>1. marker' \in [Process -> SUBSET Ranges] /\ dontfork' \in [Process -> SUBSET Ranges]
    BY Zenon, <1>0, <1>2 DEF Fork
  <2>2. wipeonfork' \in [Process -> SUBSET Ranges] /\ memfd' \in [Process -> SUBSET Ranges]
    BY Zenon, <1>0, <1>2 DEF Fork
  <2>3. alloc_bitmap' \in [Process -> SUBSET Ranges] /\ live' \in [Process -> SUBSET Ranges]
    BY Zenon, <1>0, <1>2 DEF Fork
  <2>4. QED
    BY Zenon, <2>1, <2>2, <2>3
<1>3. CASE ~Fork
  <2>1. marker' \in [Process -> SUBSET Ranges]
    BY <1>0, <1>1, <1>3, Frame DEF WriteMarker
  <2>2. dontfork' \in [Process -> SUBSET Ranges] /\ wipeonfork' \in [Process -> SUBSET Ranges]
    BY <1>0, <1>1, <1>3, Frame DEF DontFork, WipeOnFork, Fallible, mapvars
  <2>3. memfd' \in [Process -> SUBSET Ranges]
    BY <1>0, <1>1, <1>3, Frame
       DEF rseq_memfd_create_init, rseq_memfd_close, ErrorClose, Fallible, mapvars
  <2>4. alloc_bitmap' \in [Process -> SUBSET Ranges]
    <3>1. ASSUME NEW p \in Process, ListDel(p) PROVE alloc_bitmap' \in [Process -> SUBSET Ranges]
      <4>1. Head(range_list[p]) \in Ranges
        BY Zenon, <1>0, <3>1, TailIs DEF ListDel
      <4>2. alloc_bitmap' = alloc_bitmap \/ alloc_bitmap' = Delete(alloc_bitmap, p, Head(range_list[p]))
        BY Zenon, <3>1 DEF ListDel, destroy_alloc_bitmap
      <4>3. QED
        BY SMTT(30), <1>0, <1>1, <4>1, <4>2
    <3>2. CASE create_alloc_bitmap \/ ErrorBitmap
      BY <1>0, <1>1, <3>2 DEF create_alloc_bitmap, ErrorBitmap, destroy_alloc_bitmap, Fallible, mapvars
    <3>3. QED
      BY Zenon, <1>0, <1>3, <3>1, <3>2, Frame
  <2>5. live' \in [Process -> SUBSET Ranges]
    BY <1>0, <1>1, <1>3, Frame DEF AllocItem, FreeItem
  <2>6. QED
    BY Zenon, <2>1, <2>2, <2>3, <2>4, <2>5
<1>4. QED
  BY Zenon, <1>2, <1>3

\* The state has its types after every step.
LEMMA TypeNext == ASSUME TypeOK, CallInv, Next PROVE TypeOK'
<1> USE Constants
<1>0. /\ pc \in [Process -> Location] /\ range \in [Process -> Ranges] /\ New \in Ranges
      /\ range_list \in [Process -> Seq(Ranges)] /\ aborted \in [Process -> BOOLEAN]
      /\ nr_ranges \in 0 .. MaxNrRanges /\ cpu \in 0 .. NCpu /\ pool \in [Process -> BOOLEAN]
      /\ result \in [Process -> {"none", "ok", "NULL", "0"}]
      /\ mapping_accessible \in [Process -> BOOLEAN] /\ forked \in BOOLEAN /\ orphan \subseteq Ranges
      /\ call \in {"none", "create", "grow", "destroy"}
  BY Zenon DEF TypeOK, New
<1>1. range_list' \in [Process -> Seq(Ranges)] /\ range' \in [Process -> Ranges]
      /\ nr_ranges' \in 0 .. MaxNrRanges
  <2>1. CASE aligned_mmap_anonymous
    <3>1. nr_ranges < MaxNrRanges
      BY Zenon, <2>1 DEF aligned_mmap_anonymous, At, CallInv
    <3>2. nr_ranges + 1 \in Ranges /\ nr_ranges + 1 \in 0 .. MaxNrRanges
      BY <1>0, <3>1 DEF Ranges
    <3>3. QED
      BY Zenon, <1>0, <2>1, <3>2 DEF aligned_mmap_anonymous, poolvars
  <2>2. CASE ListAdd
    <3>1. <<New>> \o range_list[Me] \in Seq(Ranges)
      BY Zenon, <1>0, ConsIs
    <3>2. QED
      BY Zenon, <1>0, <2>2, <3>1 DEF ListAdd
  <2>6. CASE Fork
    BY Zenon, <1>0, <2>6 DEF Fork, callvars
  <2>3. ASSUME NEW p \in Process, ListDel(p)
        PROVE  range_list' \in [Process -> Seq(Ranges)] /\ range' \in [Process -> Ranges]
               /\ nr_ranges' \in 0 .. MaxNrRanges
    BY Zenon, <1>0, <2>3, TailIs DEF ListDel
  <2>4. ASSUME NEW p \in Process, MunmapError(p)
        PROVE  range_list' \in [Process -> Seq(Ranges)] /\ range' \in [Process -> Ranges]
               /\ nr_ranges' \in 0 .. MaxNrRanges
    BY Zenon, <1>0, <2>4, ConsIs DEF MunmapError
  <2>5. QED
    BY Zenon, <1>0, <2>1, <2>2, <2>3, <2>4, <2>6, Frame
<1>2. pc' \in [Process -> Location]
  <2>1. \A p \in Process, l \in Location : Goto(p, l) => pc' \in [Process -> Location]
    BY Zenon, <1>0 DEF Goto
  <2>2. AfterBitmap \in Location /\ AfterCow \in Location
    BY Zenon DEF AfterBitmap, AfterCow, Location
  <2>3. \A l \in {"idle", "gone", "mmap", "memfd", "map_init", "map_cpu", "dontfork", "marker",
                  "wipeonfork", "close", "bitmap", "init_func", "list_add", "strdup", "error",
                  "undo", "unmap", "failed", "destroy", "ranges", "munmap"} : l \in Location
    BY Zenon DEF Location
  <2>4. CASE Create \/ CreateNoMemory \/ Grow \/ aligned_mmap_anonymous
    BY Zenon, <1>0, <2>1, <2>2, <2>3, <2>4 DEF Create, CreateNoMemory, Grow, aligned_mmap_anonymous
  <2>5. CASE rseq_memfd_create_init \/ MapInit \/ MapCpu \/ DontFork \/ WipeOnFork
             \/ create_alloc_bitmap \/ InitFunc
    BY Zenon, <2>1, <2>2, <2>3, <2>5
       DEF rseq_memfd_create_init, MapInit, MapCpu, DontFork, WipeOnFork, create_alloc_bitmap,
           InitFunc, Fallible
  <2>6. CASE WriteMarker \/ rseq_memfd_close \/ ListAdd \/ Strdup \/ ErrorClose \/ ErrorBitmap
             \/ ErrorUnmap \/ Failed
    BY Zenon, <2>1, <2>2, <2>3, <2>6
       DEF WriteMarker, rseq_memfd_close, ListAdd, Strdup, ErrorClose, ErrorBitmap, ErrorUnmap, Failed
  <2>7. CASE Fork
    BY Zenon, <1>0, <2>3, <2>7 DEF Fork
  <2>8. CASE \E r \in Ranges : AllocItem(r) \/ FreeItem(r)
    BY Zenon, <1>0, <2>8 DEF AllocItem, FreeItem
  <2>9. CASE \E p \in Process : Destroy(p) \/ CheckPool(p) \/ FreePool(p) \/ ListDel(p) \/ Munmap(p)
                                \/ MunmapError(p)
    BY Zenon, <2>1, <2>3, <2>9 DEF Destroy, CheckPool, FreePool, ListDel, Munmap, MunmapError
  <2>10. CASE \E p \in Process, r \in Ranges : MapForeign(p, r)
    BY Zenon, <1>0, <2>10 DEF MapForeign
  <2>11. QED
    BY Zenon, <2>4, <2>5, <2>6, <2>7, <2>8, <2>9, <2>10 DEF Next
<1>3. /\ pool' \in [Process -> BOOLEAN] /\ aborted' \in [Process -> BOOLEAN]
      /\ result' \in [Process -> {"none", "ok", "NULL", "0"}]
      /\ mapping_accessible' \in [Process -> BOOLEAN] /\ forked' \in BOOLEAN /\ orphan' \subseteq Ranges
      /\ call' \in {"none", "create", "grow", "destroy"} /\ cpu' \in 0 .. NCpu
  <2> USE <1>0 DEF poolvars, callvars, forkvars
  <2>4. CASE Create \/ CreateNoMemory \/ Grow \/ aligned_mmap_anonymous
    BY Zenon, <2>4 DEF Create, CreateNoMemory, Grow, aligned_mmap_anonymous
  <2>5. CASE rseq_memfd_create_init \/ MapInit \/ MapCpu \/ DontFork \/ WipeOnFork
             \/ create_alloc_bitmap \/ InitFunc
    BY <2>5
       DEF rseq_memfd_create_init, MapInit, MapCpu, DontFork, WipeOnFork, create_alloc_bitmap,
           InitFunc, Fallible, At, CallInv
  <2>6. CASE WriteMarker \/ rseq_memfd_close \/ ListAdd \/ Strdup \/ ErrorClose \/ ErrorBitmap
             \/ ErrorUnmap \/ Failed
    BY Zenon, <2>6 DEF WriteMarker, rseq_memfd_close, ListAdd, Strdup, ErrorClose, ErrorBitmap, ErrorUnmap,
                Failed, destroy_alloc_bitmap
  <2>7. CASE Fork
    BY Zenon, <2>7 DEF Fork
  <2>8. CASE \E r \in Ranges : AllocItem(r) \/ FreeItem(r)
    BY Zenon, <2>8 DEF AllocItem, FreeItem
  <2>9. ASSUME NEW p \in Process,
               Destroy(p) \/ FreePool(p) \/ ListDel(p) \/ Munmap(p) \/ MunmapError(p)
        PROVE  /\ pool' \in [Process -> BOOLEAN] /\ aborted' \in [Process -> BOOLEAN]
               /\ result' \in [Process -> {"none", "ok", "NULL", "0"}]
               /\ call' \in {"none", "create", "grow", "destroy"}
               /\ UNCHANGED <<mapping_accessible, forked, orphan, cpu>>
    <3>1. pool' \in [Process -> BOOLEAN] /\ aborted' \in [Process -> BOOLEAN]
      BY Zenon, <2>9 DEF Destroy, FreePool, ListDel, Munmap, MunmapError, destroy_alloc_bitmap
    <3>2. result' \in [Process -> {"none", "ok", "NULL", "0"}]
      BY Zenon, <2>9 DEF Destroy, FreePool, ListDel, Munmap, MunmapError
    <3>3. QED
      BY Zenon, <2>9, <3>1, <3>2 DEF Destroy, FreePool, ListDel, Munmap, MunmapError
  <2>12. ASSUME NEW p \in Process, CheckPool(p)
         PROVE  /\ mapping_accessible' \in [Process -> BOOLEAN] /\ aborted' \in [Process -> BOOLEAN]
                /\ UNCHANGED <<pool, result, forked, orphan, call, cpu>>
    BY Zenon, <2>12 DEF CheckPool, pool_mappings_accessible
  <2>10. CASE \E p \in Process, r \in Ranges : MapForeign(p, r)
    BY Zenon, <2>10 DEF MapForeign
  <2>11. QED
    BY Zenon, <2>4, <2>5, <2>6, <2>7, <2>8, <2>9, <2>10, <2>12 DEF Next
<1>4. attr' \in Attrs
  BY Zenon, Frame DEF TypeOK
<1>5. QED
  BY Zenon, <1>1, <1>2, <1>3, <1>4, MapsTypeNext, SetsTypeNext DEF TypeOK

-----------------------------------------------------------------------------
\* The parent's calls follow one another, and the child only destroys.
LEMMA CallNext == ASSUME TypeOK, CallInv, Next PROVE CallInv'
<1> USE Constants DEF Creating
<1>0. /\ pc \in [Process -> Location] /\ pool \in [Process -> BOOLEAN] /\ nr_ranges \in Nat
      /\ cpu \in Nat /\ call \in {"none", "create", "grow", "destroy"} /\ forked \in BOOLEAN
      /\ \A p \in Process : p = Me \/ p = "child"
  BY DEF TypeOK, Me, Process
<1>1. \A p, q \in Process : \A l : Goto(p, l) => pc'[q] = IF q = p THEN l ELSE pc[q]
  BY Zenon, <1>0 DEF Goto
<1>2. AfterBitmap \in {"init_func", "list_add"} /\ AfterCow \in {"bitmap", "init_func", "list_add"}
  BY Zenon DEF AfterBitmap, AfterCow
<1>3. CASE Create \/ CreateNoMemory \/ Grow \/ Failed
  BY <1>0, <1>1, <1>3 DEF Create, CreateNoMemory, Grow, Failed, At, CallInv, mapvars, poolvars, forkvars
<1>4. CASE aligned_mmap_anonymous
  <2>1. \A r \in Ranges, a \in Area : maps'["child"][r][a] = maps["child"][r][a]
    BY Zenon, <1>4 DEF aligned_mmap_anonymous, TypeOK
  <2>2. QED
    BY <1>0, <1>1, <1>2, <1>4, <2>1
       DEF aligned_mmap_anonymous, At, CallInv, mapvars, poolvars, forkvars
<1>5. CASE rseq_memfd_create_init \/ DontFork \/ WipeOnFork \/ create_alloc_bitmap \/ InitFunc
  <2>1. /\ UNCHANGED <<attr, maps, pool, call, nr_ranges, cpu, forked>> /\ pc[Me] \in Creating
        /\ attr.cow_init \/ pc[Me] \in {"bitmap", "init_func"}
        /\ \/ Goto(Me, "error")
           \/ attr.cow_init /\ (Goto(Me, "map_init") \/ Goto(Me, "marker") \/ Goto(Me, "close"))
           \/ Goto(Me, AfterBitmap) \/ Goto(Me, "list_add")
    BY Zenon, <1>5
       DEF rseq_memfd_create_init, DontFork, WipeOnFork, create_alloc_bitmap, InitFunc, Fallible, At,
           CallInv, mapvars, poolvars, forkvars
  <2>2. QED
    BY <1>0, <1>1, <1>2, <2>1 DEF CallInv
<1>6. CASE MapInit \/ MapCpu
  <2>1. \A r \in Ranges, a \in Area : maps'["child"][r][a] = maps["child"][r][a]
    <3>1. \/ maps' = maps \/ maps' = MapAreas(Me, New, {InitArea}, "shared")
          \/ maps' = MapAreas(Me, New, {cpu}, "private")
      BY Zenon, <1>6 DEF MapInit, MapCpu, Fallible, mapvars
    <3>2. maps' = maps \/ OnlyMaps(Me, New, {InitArea}, "shared") \/ OnlyMaps(Me, New, {cpu}, "private")
      BY Zenon, <3>1, MapAreasNext DEF New, TypeOK, Mapping
    <3>3. QED
      BY ZenonT(40), <3>2 DEF OnlyMaps
  <2>2. QED
    BY <1>0, <1>1, <1>6, <2>1 DEF MapInit, MapCpu, Fallible, At, CallInv, poolvars, forkvars
<1>7. CASE WriteMarker \/ rseq_memfd_close \/ ListAdd \/ Strdup \/ ErrorClose \/ ErrorBitmap
  BY <1>0, <1>1, <1>2, <1>7
     DEF WriteMarker, rseq_memfd_close, ListAdd, Strdup, ErrorClose, ErrorBitmap, At,
         CallInv, mapvars, poolvars, callvars, forkvars
<1>8. CASE ErrorUnmap
  <2>1. \A r \in Ranges, a \in Area : maps'["child"][r][a] = maps["child"][r][a]
    BY <1>8, MapAreasIs DEF ErrorUnmap, Unmapped, TypeOK, New, Mapping
  <2>2. QED
    BY <1>0, <1>1, <1>8, <2>1 DEF ErrorUnmap, At, CallInv, poolvars, callvars, forkvars
<1>9. CASE \E r \in Ranges : AllocItem(r) \/ FreeItem(r)
  BY <1>9 DEF AllocItem, FreeItem, CallInv, mapvars, callvars, forkvars
<1>10. CASE Fork
  BY Zenon, <1>0, <1>10 DEF Fork, CallInv, callvars
<1>11. ASSUME NEW p \in Process, Destroy(p) \/ CheckPool(p) \/ FreePool(p) PROVE CallInv'
  BY <1>0, <1>1, <1>11 DEF Destroy, CheckPool, FreePool, At, CallInv, mapvars, poolvars, forkvars
<1>12. ASSUME NEW p \in Process, ListDel(p) \/ MunmapError(p) PROVE CallInv'
  BY <1>0, <1>1, <1>12 DEF ListDel, MunmapError, At, CallInv, mapvars, forkvars
<1>13. ASSUME NEW p \in Process, Munmap(p) PROVE CallInv'
  <2>1. p = "child" => forked
    BY Zenon, <1>0, <1>13 DEF Munmap, At, CallInv
  <2>2. p = Me => \A r \in Ranges, a \in Area : maps'["child"][r][a] = maps["child"][r][a]
    <3>1. maps' = Unmapped(p, range[p], mapping_accessible[p]) /\ "none" \in Mapping /\ range[p] \in Ranges
      BY Zenon, <1>13 DEF Munmap, TypeOK, Mapping
    <3>2. OnlyMaps(p, range[p], {a \in Area : InRange(a, attr) /\ (IsData(a) => mapping_accessible[p])},
                   "none")
      BY Zenon, <1>13, <3>1, MapAreasNext DEF Unmapped
    <3>3. QED
      BY <3>2 DEF OnlyMaps
  <2>3. QED
    BY <1>0, <1>1, <1>13, <2>1, <2>2 DEF Munmap, At, CallInv, poolvars, callvars, forkvars
<1>14. ASSUME NEW p \in Process, NEW r \in Ranges, MapForeign(p, r) PROVE CallInv'
  <2>1. p = "child" => forked
    BY Zenon, <1>0, <1>14 DEF MapForeign, At, CallInv
  <2>2. p = Me => \A s \in Ranges, a \in Area : maps'["child"][s][a] = maps["child"][s][a]
    <3>1. OnlyMaps(p, r, {a \in Area : maps[p][r][a] = "none"}, "foreign")
      BY Zenon, <1>14, MapAreasNext DEF MapForeign, Mapping
    <3>2. QED
      BY <3>1 DEF OnlyMaps
  <2>3. UNCHANGED <<attr, pc, pool, call, nr_ranges, cpu, forked>>
    BY Zenon, <1>14 DEF MapForeign, poolvars, callvars, forkvars
  <2>4. forked \/ \A s \in Ranges, a \in Area : maps'["child"][s][a] = maps["child"][s][a]
    BY Zenon, <1>0, <2>1, <2>2
  <2>5. QED
    BY <2>3, <2>4 DEF CallInv
<1>15. QED
  BY Zenon, <1>3, <1>4, <1>5, <1>6, <1>7, <1>8, <1>9, <1>10, <1>11, <1>12, <1>13, <1>14 DEF Next

\* A creation starts with the mapping, and a removal with the list.
LEMMA Moves ==
    ASSUME TypeOK, CallInv, Next
    PROVE  /\ aligned_mmap_anonymous \/ (pc'[Me] \in Creating => pc[Me] \in Creating)
           /\ \A p \in Process : pc'[p] = "munmap" => ListDel(p) \/ pc[p] = "munmap"
           /\ \A p \in Process : pc'[p] = "ranges" => CheckPool(p) \/ Munmap(p) \/ pc[p] = "ranges"
<1> USE Constants DEF Creating
<1>0. /\ pc \in [Process -> Location]
      /\ \A p \in Process : p = Me \/ p = "child"
  BY Zenon DEF TypeOK, Me, Process
<1>1. \A p, q \in Process : \A l : Goto(p, l) => pc'[q] = IF q = p THEN l ELSE pc[q]
  BY Zenon, <1>0 DEF Goto
<1>2. AfterBitmap \in {"init_func", "list_add"} /\ AfterCow \in {"bitmap", "init_func", "list_add"}
  BY Zenon DEF AfterBitmap, AfterCow
<1>3. CASE Create \/ CreateNoMemory \/ Grow \/ aligned_mmap_anonymous \/ Failed
  BY <1>0, <1>1, <1>2, <1>3 DEF Create, CreateNoMemory, Grow, aligned_mmap_anonymous, Failed
<1>4. CASE rseq_memfd_create_init \/ MapInit \/ MapCpu \/ DontFork \/ WipeOnFork
           \/ create_alloc_bitmap \/ InitFunc
  BY <1>0, <1>1, <1>2, <1>4
     DEF rseq_memfd_create_init, MapInit, MapCpu, DontFork, WipeOnFork, create_alloc_bitmap,
         InitFunc, Fallible, At
<1>5. CASE WriteMarker \/ rseq_memfd_close \/ ListAdd \/ Strdup \/ ErrorClose \/ ErrorBitmap
           \/ ErrorUnmap
  <2>1. \E l \in Location : Goto(Me, l) /\ l \notin {"munmap", "ranges"} /\ (l \in Creating => pc[Me] \in Creating)
    BY Zenon, <1>2, <1>5
       DEF WriteMarker, rseq_memfd_close, ListAdd, Strdup, ErrorClose, ErrorBitmap, ErrorUnmap, At,
           Location
  <2>2. QED
    BY Zenon, <1>0, <1>1, <2>1
<1>6. CASE Fork
  BY Zenon, <1>0, <1>6 DEF Fork
<1>7. CASE \/ \E r \in Ranges : AllocItem(r) \/ FreeItem(r)
           \/ \E p \in Process, r \in Ranges : MapForeign(p, r)
  BY Zenon, <1>7 DEF AllocItem, FreeItem, MapForeign
<1>8. ASSUME NEW p \in Process, Destroy(p) \/ FreePool(p) \/ MunmapError(p)
      PROVE  /\ pc'[Me] \in Creating => pc[Me] \in Creating
             /\ \A q \in Process : pc'[q] \in {"munmap", "ranges"} => pc[q] = pc'[q]
  BY <1>0, <1>1, <1>8 DEF Destroy, FreePool, MunmapError
<1>9. ASSUME NEW p \in Process, ListDel(p)
      PROVE  /\ pc'[Me] \in Creating => pc[Me] \in Creating
             /\ \A q \in Process : pc'[q] \in {"munmap", "ranges"} =>
                   (q = p /\ pc'[q] = "munmap") \/ pc[q] = pc'[q]
  BY <1>0, <1>1, <1>9 DEF ListDel
<1>10. ASSUME NEW p \in Process, CheckPool(p) \/ Munmap(p)
      PROVE  /\ pc'[Me] \in Creating => pc[Me] \in Creating
             /\ \A q \in Process : pc'[q] \in {"munmap", "ranges"} =>
                   (q = p /\ pc'[q] = "ranges") \/ pc[q] = pc'[q]
  BY <1>0, <1>1, <1>10 DEF CheckPool, Munmap
<1>11. QED
  BY Zenon, <1>3, <1>4, <1>5, <1>6, <1>7, <1>8, <1>9, <1>10 DEF Next

\* The lists change as lists without duplicates do.
LEMMA ListNext == ASSUME TypeOK, CallInv, ListInv, Next PROVE ListInv'
<1> USE Constants
<1>0. /\ pc \in [Process -> Location] /\ range \in [Process -> Ranges] /\ New \in Ranges
      /\ range_list \in [Process -> Seq(Ranges)] /\ nr_ranges \in Nat
      /\ \A p \in Process : p = Me \/ p = "child"
  BY DEF TypeOK, New, Me, Process
<1>9. \A p \in Process : Listed(p) = Elems(range_list[p]) /\ Listed(p)' = Elems(range_list'[p])
  BY Zenon DEF Listed, Elems
<1>1. CASE range_list' = range_list /\ range' = range /\ nr_ranges' = nr_ranges
  <2>1. Building(Me)' \subseteq Building(Me) /\ \A p \in Process : Removing(p)' \subseteq Removing(p)
    <3>1. ~aligned_mmap_anonymous \/ pc' = [pc EXCEPT ![Me] = "failed"]
      BY <1>0, <1>1 DEF aligned_mmap_anonymous, Goto
    <3>2. \A p \in Process : ~ListDel(p)
      <4>1. ASSUME NEW p \in Process, ListDel(p) PROVE FALSE
        BY <1>0, <1>1, <4>1 DEF ListDel
      <4>2. QED
        BY Zenon, <4>1
    <3>3. QED
      BY Zenon, <1>0, <1>1, <3>1, <3>2, Moves DEF Building, Removing, New, Creating
  <2>2. \A p \in Process : Listed(p)' = Listed(p)
    BY Zenon, <1>1 DEF Listed
  <2>3. QED
    BY Zenon, <1>1, <2>1, <2>2 DEF ListInv
<1>2. CASE aligned_mmap_anonymous /\ nr_ranges' # nr_ranges
  <2>1. /\ pc[Me] = "mmap" /\ nr_ranges' = nr_ranges + 1
        /\ range' = [range EXCEPT ![Me] = nr_ranges + 1] /\ range_list' = range_list
        /\ pc'["child"] = pc["child"]
    BY Zenon, <1>0, <1>2 DEF aligned_mmap_anonymous, At, Goto, poolvars
  <2>2. /\ Building(Me)' \subseteq {nr_ranges + 1} /\ Removing("child")' = Removing("child")
        /\ \A p \in Process : Listed(p)' = Listed(p)
    BY Zenon, <1>0, <2>1 DEF Building, Removing, Listed, New
  <2>3. Removing(Me)' = {}
    <3>1. pc'[Me] # "munmap"
      BY Zenon, <1>0, <2>1, Moves DEF ListDel, At
    <3>2. QED
      BY Zenon, <3>1 DEF Removing
  <2>4. 1 .. nr_ranges \subseteq 1 .. nr_ranges + 1 /\ nr_ranges + 1 \in 1 .. nr_ranges + 1
        /\ nr_ranges + 1 \notin 1 .. nr_ranges
    BY <1>0
  <2>5. QED
    BY <1>0, <2>1, <2>2, <2>3, <2>4, ZenonT(40) DEF ListInv
<1>3. CASE ListAdd
  <2>1. /\ pc[Me] = "list_add" /\ range_list' = [range_list EXCEPT ![Me] = <<New>> \o range_list[Me]]
        /\ range' = range /\ nr_ranges' = nr_ranges
        /\ pc'[Me] \in {"strdup", "idle"} /\ pc'["child"] = pc["child"]
    BY Zenon, <1>0, <1>3 DEF ListAdd, At, Goto
  <2>2. /\ Building(Me)' = {} /\ Removing(Me)' = {} /\ Removing("child")' = Removing("child")
        /\ Building(Me) = {New} /\ Listed("child")' = Listed("child")
        /\ range_list'["child"] = range_list["child"]
    BY Zenon, <1>0, <2>1 DEF Building, Removing, Creating, Listed
  <2>3. New \notin Listed(Me) /\ Distinct(range_list[Me]) /\ New \in 1 .. nr_ranges
    BY Zenon, <2>2 DEF ListInv
  <2>4. Listed(Me)' = {New} \cup Listed(Me) /\ Distinct(range_list'[Me])
    BY <1>0, <1>9, <2>1, <2>3, ConsIs
  <2>5. QED
    BY <1>0, <2>1, <2>2, <2>3, <2>4, Zenon DEF ListInv
<1>4. CASE Fork
  <2>1. /\ range_list' = [range_list EXCEPT !["child"] = range_list[Me]]
        /\ range' = range /\ nr_ranges' = nr_ranges
        /\ pc'["child"] \in {"gone", "idle"} /\ pc'[Me] = pc[Me]
    BY Zenon, <1>0, <1>4 DEF Fork, callvars
  <2>2. /\ Building(Me)' = Building(Me) /\ Removing(Me)' = Removing(Me) /\ Removing("child")' = {}
        /\ Listed(Me)' = Listed(Me) /\ Listed("child")' = Listed(Me)
        /\ range_list'[Me] = range_list[Me] /\ range_list'["child"] = range_list[Me]
    BY Zenon, <1>0, <2>1 DEF Building, Removing, Listed, New
  <2>3. QED
    BY <1>0, <2>1, <2>2, Zenon DEF ListInv
<1>5. ASSUME NEW p \in Process, ListDel(p) PROVE ListInv'
  <2>1. /\ pc[p] = "ranges" /\ range_list[p] # << >>
        /\ range' = [range EXCEPT ![p] = Head(range_list[p])]
        /\ range_list' = [range_list EXCEPT ![p] = Tail(range_list[p])]
        /\ nr_ranges' = nr_ranges /\ pc' = [pc EXCEPT ![p] = "munmap"]
    BY Zenon, <1>5 DEF ListDel, At, Goto
  <2>2. /\ Building(Me)' = Building(Me) /\ Removing(p)' = {Head(range_list[p])}
        /\ \A q \in Process : q # p => /\ Removing(q)' = Removing(q) /\ Listed(q)' = Listed(q)
                                       /\ range_list'[q] = range_list[q]
    <3>1. Removing(p)' = {Head(range_list[p])}
      BY Zenon, <1>0, <2>1 DEF Removing
    <3>2. \A q \in Process : q # p => /\ Removing(q)' = Removing(q) /\ Listed(q)' = Listed(q)
                                      /\ range_list'[q] = range_list[q]
      BY Zenon, <1>0, <2>1 DEF Removing, Listed
    <3>3. Building(Me)' = Building(Me)
      BY Zenon, <1>0, <2>1 DEF Building, New, Creating
    <3>4. QED
      BY Zenon, <3>1, <3>2, <3>3
  <2>3. Distinct(range_list[p]) /\ Listed(p) \subseteq 1 .. nr_ranges
    BY Zenon DEF ListInv
  <2>4. Listed(p) = {Head(range_list[p])} \cup Listed(p)' /\ Distinct(range_list'[p])
        /\ Head(range_list[p]) \notin Listed(p)'
    BY <1>0, <1>9, <2>1, <2>3, TailIs
  <2>5. Building(Me)' \cap Listed(Me)' = {} /\ Building(Me)' \subseteq 1 .. nr_ranges
    BY Zenon, <1>0, <2>2, <2>4 DEF ListInv
  <2>6. ASSUME NEW q \in Process
        PROVE  /\ Distinct(range_list'[q]) /\ Listed(q)' \subseteq 1 .. nr_ranges
               /\ Removing(q)' \cap Listed(q)' = {} /\ Removing(q)' \subseteq 1 .. nr_ranges
    <3>1. CASE q = p
      BY Zenon, <2>2, <2>3, <2>4, <3>1
    <3>2. CASE q # p
      BY Zenon, <2>2, <3>2 DEF ListInv
    <3>3. QED
      BY Zenon, <3>1, <3>2
  <2>7. QED
    BY <2>1, <2>5, <2>6, Zenon DEF ListInv
<1>6. ASSUME NEW p \in Process, MunmapError(p) PROVE ListInv'
  <2>1. /\ pc[p] = "munmap" /\ range_list' = [range_list EXCEPT ![p] = <<range[p]>> \o range_list[p]]
        /\ range' = range /\ nr_ranges' = nr_ranges /\ pc' = [pc EXCEPT ![p] = "idle"]
    BY Zenon, <1>6 DEF MunmapError, At, Goto
  <2>2. /\ Building(Me)' = Building(Me) /\ Removing(p)' = {} /\ Removing(p) = {range[p]}
        /\ \A q \in Process : q # p => /\ Removing(q)' = Removing(q) /\ Listed(q)' = Listed(q)
                                       /\ range_list'[q] = range_list[q]
    BY Zenon, <1>0, <2>1 DEF Removing, Listed, Building, New, Creating
  <2>3. Distinct(range_list[p]) /\ range[p] \notin Listed(p) /\ range[p] \in 1 .. nr_ranges
        /\ Listed(p) \subseteq 1 .. nr_ranges
    BY Zenon, <2>2 DEF ListInv
  <2>4. Listed(p)' = {range[p]} \cup Listed(p) /\ Distinct(range_list'[p])
    BY <1>0, <1>9, <2>1, <2>3, ConsIs
  <2>5. Building(Me)' \cap Listed(Me)' = {} /\ Building(Me)' \subseteq 1 .. nr_ranges
    <3>1. CASE p = Me
      BY Zenon, <1>0, <2>1, <2>2, <3>1 DEF Building, Creating
    <3>2. CASE p # Me
      BY Zenon, <2>2, <3>2 DEF ListInv
    <3>3. QED
      BY Zenon, <3>1, <3>2
  <2>6. ASSUME NEW q \in Process
        PROVE  /\ Distinct(range_list'[q]) /\ Listed(q)' \subseteq 1 .. nr_ranges
               /\ Removing(q)' \cap Listed(q)' = {} /\ Removing(q)' \subseteq 1 .. nr_ranges
    <3>1. CASE q = p
      BY Zenon, <2>2, <2>3, <2>4, <3>1
    <3>2. CASE q # p
      BY Zenon, <2>2, <3>2 DEF ListInv
    <3>3. QED
      BY Zenon, <3>1, <3>2
  <2>7. QED
    BY <2>1, <2>5, <2>6, Zenon DEF ListInv
<1>7. aligned_mmap_anonymous /\ nr_ranges' = nr_ranges => range_list' = range_list /\ range' = range
  BY <1>0 DEF aligned_mmap_anonymous, poolvars
<1>8. QED
  BY Zenon, <1>1, <1>2, <1>3, <1>4, <1>5, <1>6, <1>7, Frame

-----------------------------------------------------------------------------
\* What the mapping of a new range changes.
LEMMA MmapIs ==
    ASSUME TypeOK, CallInv, aligned_mmap_anonymous, nr_ranges' # nr_ranges
    PROVE  /\ pc[Me] = "mmap" /\ nr_ranges' = nr_ranges + 1 /\ nr_ranges + 1 \in Ranges
           /\ range' = [range EXCEPT ![Me] = nr_ranges + 1] /\ New' = nr_ranges + 1
           /\ \A p \in Process, r \in Ranges, a \in Area :
                 maps'[p][r][a] = IF p = Me /\ r = nr_ranges + 1 /\ InRange(a, attr) THEN "anon"
                                  ELSE maps[p][r][a]
<1>0. /\ maps \in [Process -> [Ranges -> [Area -> Mapping]]] /\ range \in [Process -> Ranges]
      /\ nr_ranges \in 0 .. MaxNrRanges /\ "anon" \in Mapping
  BY Zenon DEF TypeOK, Mapping
<1>1. pc[Me] = "mmap" /\ nr_ranges' = nr_ranges + 1 /\ nr_ranges + 1 \in Ranges
  BY <1>0, Constants DEF aligned_mmap_anonymous, At, CallInv, Ranges
<1>2. range' = [range EXCEPT ![Me] = nr_ranges + 1] /\ New' = nr_ranges + 1
  BY Zenon, <1>0, <1>1, Constants DEF aligned_mmap_anonymous, New
<1>3. maps' = MapAreas(Me, nr_ranges + 1, {a \in Area : InRange(a, attr)}, "anon")
  <2>1. [a \in Area |-> IF InRange(a, attr) THEN "anon" ELSE maps[Me][nr_ranges + 1][a]] =
        [a \in Area |-> IF a \in {b \in Area : InRange(b, attr)} THEN "anon"
                        ELSE maps[Me][nr_ranges + 1][a]]
    BY Zenon
  <2>2. QED
    BY Zenon, <1>0, <1>1, <2>1, Constants DEF aligned_mmap_anonymous, MapAreas
<1>4. QED
  BY <1>0, <1>1, <1>2, <1>3, MapAreasIs, Constants

\* Only these steps change what is mapped, and only within the range they are about.
\* The steps that change what process p has mapped at an area of a range.
MapsStep(p, r, a) ==
    \/ /\ aligned_mmap_anonymous /\ nr_ranges' # nr_ranges /\ p = Me /\ r = nr_ranges + 1
       /\ InRange(a, attr) /\ maps'[p][r][a] = "anon"
    \/ /\ MapInit \/ MapCpu
       /\ p = Me /\ r = New /\ InRange(a, attr) /\ IsData(a)
       /\ maps'[p][r][a] \in {"shared", "private"}
    \/ /\ ErrorUnmap /\ p = Me /\ r = New /\ InRange(a, attr) /\ maps'[p][r][a] = "none"
    \/ /\ Munmap(p) /\ r = range[p] /\ InRange(a, attr)
       /\ IsData(a) => mapping_accessible[p]
       /\ maps'[p][r][a] = "none"
    \/ /\ MapForeign(p, r) /\ maps[p][r][a] = "none" /\ maps'[p][r][a] = "foreign"

\* A step that changes what is mapped at an area is one of these, but for a fork.
LEMMA MapsNext ==
    ASSUME TypeOK, CallInv, Next, ~Fork, NEW p \in Process, NEW r \in Ranges, NEW a \in Area,
           maps'[p][r][a] # maps[p][r][a]
    PROVE  MapsStep(p, r, a)
<1> USE Constants DEF MapsStep
<1>0. /\ New \in Ranges /\ \A q \in Process : range[q] \in Ranges
      /\ cpu \in Nat
      /\ \A m \in {"none", "shared", "private", "foreign"} : m \in Mapping
  BY DEF TypeOK, New, Mapping
<1>1. CASE aligned_mmap_anonymous
  <2>1. nr_ranges' # nr_ranges
    BY <1>1 DEF aligned_mmap_anonymous, TypeOK
  <2>2. QED
    BY <1>1, <2>1, MmapIs
<1>2. CASE MapInit
  <2>1. maps' = MapAreas(Me, New, {InitArea}, "shared") /\ attr.cow_init
    BY Zenon, <1>2 DEF MapInit, Fallible, mapvars, At, CallInv
  <2>2. InRange(InitArea, attr) /\ IsData(InitArea)
    BY <2>1 DEF InRange, InitArea, LinksArea, IsData
  <2>3. p = Me /\ r = New /\ a \in {InitArea} /\ maps'[p][r][a] = "shared"
    <3>1. OnlyMaps(Me, New, {InitArea}, "shared")
      BY Zenon, <1>0, <2>1, MapAreasNext
    <3>2. QED
      BY Zenon, <3>1 DEF OnlyMaps
  <2>4. QED
    BY Zenon, <1>2, <2>2, <2>3
<1>3. CASE MapCpu
  <2>1. maps' = MapAreas(Me, New, {cpu}, "private") /\ cpu < NCpu
    BY Zenon, <1>3 DEF MapCpu, Fallible, mapvars, At, CallInv
  <2>2. InRange(cpu, attr) /\ IsData(cpu)
    BY <1>0, <2>1 DEF InRange, InitArea, LinksArea, IsData
  <2>3. p = Me /\ r = New /\ a \in {cpu} /\ maps'[p][r][a] = "private"
    <3>1. OnlyMaps(Me, New, {cpu}, "private")
      BY Zenon, <1>0, <2>1, MapAreasNext
    <3>2. QED
      BY Zenon, <3>1 DEF OnlyMaps
  <2>4. QED
    BY Zenon, <1>3, <2>2, <2>3
<1>4. CASE ErrorUnmap
  <2>1. maps' = Unmapped(Me, New, TRUE)
    BY Zenon, <1>4 DEF ErrorUnmap
  <2>2. p = Me /\ r = New /\ InRange(a, attr) /\ maps'[p][r][a] = "none"
    <3>1. OnlyMaps(Me, New, {b \in Area : InRange(b, attr) /\ (IsData(b) => TRUE)}, "none")
      BY Zenon, <1>0, <2>1, MapAreasNext DEF Unmapped
    <3>2. /\ p = Me /\ r = New /\ maps'[p][r][a] = "none"
          /\ a \in {b \in Area : InRange(b, attr) /\ (IsData(b) => TRUE)}
      BY <3>1 DEF OnlyMaps
    <3>3. QED
      BY Zenon, <3>2
  <2>3. QED
    BY Zenon, <1>4, <2>2
<1>5. ASSUME NEW q \in Process, Munmap(q)
      PROVE  Munmap(p) /\ r = range[p] /\ InRange(a, attr) /\ (IsData(a) => mapping_accessible[p])
             /\ maps'[p][r][a] = "none"
  <2>1. maps' = Unmapped(q, range[q], mapping_accessible[q])
    BY Zenon, <1>5 DEF Munmap
  <2>2. p = q /\ r = range[q] /\ InRange(a, attr) /\ (IsData(a) => mapping_accessible[q])
        /\ maps'[p][r][a] = "none"
    <3>1. OnlyMaps(q, range[q], {b \in Area : InRange(b, attr) /\ (IsData(b) => mapping_accessible[q])},
                   "none")
      BY Zenon, <1>0, <2>1, MapAreasNext DEF Unmapped
    <3>2. QED
      BY <3>1 DEF OnlyMaps
  <2>3. QED
    BY Zenon, <1>5, <2>2
<1>6. ASSUME NEW q \in Process, NEW s \in Ranges, MapForeign(q, s)
      PROVE  MapForeign(p, r) /\ maps[p][r][a] = "none" /\ maps'[p][r][a] = "foreign"
  <2>1. maps' = MapAreas(q, s, {b \in Area : maps[q][s][b] = "none"}, "foreign")
    BY Zenon, <1>6 DEF MapForeign
  <2>2. p = q /\ r = s /\ maps[p][r][a] = "none" /\ maps'[p][r][a] = "foreign"
    <3>1. OnlyMaps(q, s, {b \in Area : maps[q][s][b] = "none"}, "foreign")
      BY Zenon, <1>0, <2>1, MapAreasNext
    <3>2. QED
      BY <3>1 DEF OnlyMaps
  <2>3. QED
    BY Zenon, <1>6, <2>2
<1>7. QED
  BY Zenon, <1>1, <1>2, <1>3, <1>4, <1>5, <1>6, Frame

\* Nothing is mapped outside of the ranges.
LEMMA AreaNext == ASSUME TypeOK, CallInv, ListInv, AreaInv, Next PROVE AreaInv'
<1> USE Constants
<1>0. nr_ranges \in Nat /\ nr_ranges' \in Nat /\ nr_ranges' >= nr_ranges /\ attr' = attr
  <2>1. nr_ranges \in Nat
    BY DEF TypeOK
  <2>2. aligned_mmap_anonymous /\ nr_ranges' # nr_ranges => nr_ranges' = nr_ranges + 1
    BY Zenon, MmapIs
  <2>3. QED
    BY <2>1, <2>2, Frame
<1>1. SUFFICES ASSUME NEW p \in Process, NEW r \in Ranges, NEW a \in Area
               PROVE  /\ ~InRange(a, attr) => maps'[p][r][a] \notin Own
                      /\ r > nr_ranges' => maps'[p][r][a] = "none"
  BY <1>0 DEF AreaInv
<1>2. /\ ~InRange(a, attr) => maps[p][r][a] \notin Own
      /\ r > nr_ranges' => maps[p][r][a] = "none"
  <2>1. r > nr_ranges' => r > nr_ranges
    BY <1>0 DEF Ranges
  <2>2. QED
    BY Zenon, <2>1 DEF AreaInv
<1>3. CASE maps'[p][r][a] = maps[p][r][a]
  BY Zenon, <1>2, <1>3
<1>4. CASE Fork
  <2>1. p = Me \/ p = "child"
    BY Zenon DEF Process, Me
  <2>2. /\ ~InRange(a, attr) => maps[Me][r][a] \notin Own
        /\ r > nr_ranges => maps[Me][r][a] = "none"
    BY Zenon DEF AreaInv
  <2>3. nr_ranges' = nr_ranges
    BY Zenon, <1>4 DEF Fork, callvars
  <2>4. QED
    BY <1>4, <2>1, <2>2, <2>3, ForkIs DEF Own
<1>5. CASE ~Fork /\ maps'[p][r][a] # maps[p][r][a]
  <2>0. MapsStep(p, r, a)
    BY Zenon, <1>5, MapsNext
  <2>1. /\ MapInit \/ MapCpu \/ ErrorUnmap => New <= nr_ranges
        /\ Munmap(p) => range[p] <= nr_ranges
    <3>1. MapInit \/ MapCpu \/ ErrorUnmap => Building(Me) = {New}
      BY Zenon DEF MapInit, MapCpu, ErrorUnmap, Fallible, At, Building, Creating
    <3>2. Munmap(p) => Removing(p) = {range[p]}
      BY Zenon DEF Munmap, At, Removing
    <3>3. QED
      BY <1>0, <3>1, <3>2 DEF ListInv
  <2>2. MapForeign(p, r) => r <= nr_ranges
    BY Zenon DEF MapForeign
  <2>3. aligned_mmap_anonymous /\ nr_ranges' # nr_ranges => nr_ranges' = nr_ranges + 1
    BY Zenon, MmapIs
  <2>4. r \in Nat
    BY DEF Ranges
  <2>5. r > nr_ranges' => maps'[p][r][a] = "none"
    <3>1. maps'[p][r][a] = "none" \/ r = nr_ranges' \/ r <= nr_ranges
      BY Zenon, <2>0, <2>1, <2>2, <2>3 DEF MapsStep
    <3>2. QED
      BY <1>0, <2>4, <3>1
  <2>6. ~InRange(a, attr) => maps'[p][r][a] \notin Own
    BY Zenon, <2>0 DEF MapsStep, Own
  <2>7. QED
    BY Zenon, <2>5, <2>6
<1>6. QED
  BY Zenon, <1>3, <1>4, <1>5

\* What a step does to the range that is being created and to the others.
LEMMA RangesNext ==
    ASSUME TypeOK, CallInv, ListInv, Next
    PROVE  /\ \/ aligned_mmap_anonymous /\ nr_ranges' # nr_ranges
              \/ Building(Me)' \subseteq Building(Me)
           /\ Building(Me) \cap Known(Me) = {} /\ \A p \in Process : Known(p) \subseteq 1 .. nr_ranges
           /\ ~Fork => \A p \in Process :
                 Known(p)' \subseteq Known(p) \cup (IF p = Me /\ ListAdd THEN {New} ELSE {})
           /\ \A p \in Process : Munmap(p) => range[p] \notin Known(p)'
           /\ ErrorUnmap => Building(Me)' = {}
<1> USE Constants
<1>0. /\ pc \in [Process -> Location] /\ range \in [Process -> Ranges] /\ New \in Ranges
      /\ range_list \in [Process -> Seq(Ranges)] /\ nr_ranges \in Nat
      /\ \A p \in Process : p = Me \/ p = "child"
      /\ \A p \in Process : Listed(p) = Elems(range_list[p]) /\ Listed(p)' = Elems(range_list'[p])
  BY DEF TypeOK, New, Me, Process, Listed, Elems
<1>1. \/ aligned_mmap_anonymous /\ nr_ranges' # nr_ranges
      \/ Building(Me)' \subseteq Building(Me)
  <2>1. CASE aligned_mmap_anonymous /\ nr_ranges' = nr_ranges
    <3>1. pc'[Me] = "failed"
      BY <1>0, <2>1 DEF aligned_mmap_anonymous, Goto
    <3>2. QED
      BY Zenon, <3>1 DEF Building, Creating
  <2>2. CASE ~aligned_mmap_anonymous
    <3>1. pc'[Me] \in Creating => range'[Me] = range[Me]
      <4>1. ASSUME NEW p \in Process, ListDel(p) PROVE pc'[Me] \in Creating => range'[Me] = range[Me]
        BY Zenon, <1>0, <4>1 DEF ListDel, Goto, Creating
      <4>2. QED
        BY Zenon, <2>2, <4>1, Frame
    <3>2. QED
      BY Zenon, <2>2, <3>1, Moves DEF Building, New
  <2>3. QED
    BY Zenon, <2>1, <2>2
<1>2. Building(Me) \cap Known(Me) = {} /\ \A p \in Process : Known(p) \subseteq 1 .. nr_ranges
  <2>1. Building(Me) \cap Removing(Me) = {}
    BY Zenon DEF Building, Removing, Creating
  <2>2. QED
    BY Zenon, <2>1 DEF ListInv, Known
<1>3. ASSUME ~Fork, NEW p \in Process
      PROVE  Known(p)' \subseteq Known(p) \cup (IF p = Me /\ ListAdd THEN {New} ELSE {})
  <2>1. CASE ListDel(p)
    <3>1. /\ range'[p] = Head(range_list[p]) /\ range_list'[p] = Tail(range_list[p])
          /\ range_list[p] # << >>
      BY Zenon, <1>0, <2>1 DEF ListDel
    <3>2. Elems(range_list[p]) = {range'[p]} \cup Elems(range_list'[p])
      BY Zenon, <1>0, <3>1, TailIs
    <3>3. QED
      BY <1>0, <3>2 DEF Known, Removing
  <2>2. CASE ~ListDel(p)
    <3>1. Removing(p)' \subseteq Removing(p)
      <4>1. CASE pc'[p] = "munmap"
        <5>1. pc[p] = "munmap"
          BY Zenon, <2>2, <4>1, Moves
        <5>2. range'[p] = range[p]
          <6>1. aligned_mmap_anonymous => range'[p] = range[p]
            BY Zenon, <1>0, <5>1 DEF aligned_mmap_anonymous, At
          <6>2. ASSUME NEW q \in Process, ListDel(q) PROVE range'[p] = range[p]
            BY Zenon, <1>0, <2>2, <6>2 DEF ListDel
          <6>3. QED
            BY Zenon, <6>1, <6>2, Frame
        <5>3. QED
          BY Zenon, <5>1, <5>2 DEF Removing
      <4>2. CASE pc'[p] # "munmap"
        BY Zenon, <4>2 DEF Removing
      <4>3. QED
        BY Zenon, <4>1, <4>2
    <3>2. Listed(p)' \subseteq Known(p) \cup (IF p = Me /\ ListAdd THEN {New} ELSE {})
      <4>1. CASE range_list'[p] = range_list[p]
        BY Zenon, <1>0, <4>1 DEF Known
      <4>2. CASE ListAdd /\ range_list'[p] # range_list[p]
        <5>1. p = Me /\ range_list'[p] = <<New>> \o range_list[p]
          BY Zenon, <1>0, <4>2 DEF ListAdd
        <5>2. Elems(range_list'[p]) = {New} \cup Elems(range_list[p])
          BY Zenon, <1>0, <5>1, ConsIs
        <5>3. Listed(p)' = {New} \cup Listed(p)
          BY <1>0, <5>2, Zenon
        <5>4. QED
          BY Zenon, <4>2, <5>1, <5>3 DEF Known
      <4>3. ASSUME NEW q \in Process, MunmapError(q), range_list'[p] # range_list[p]
            PROVE  Listed(p)' \subseteq Known(p)
        <5>1. p = q /\ range_list'[p] = <<range[p]>> \o range_list[p] /\ pc[p] = "munmap"
          BY Zenon, <1>0, <4>3 DEF MunmapError, At
        <5>2. Elems(range_list'[p]) = {range[p]} \cup Elems(range_list[p])
          BY Zenon, <1>0, <5>1, ConsIs
        <5>3. Listed(p)' = {range[p]} \cup Listed(p)
          BY <1>0, <5>2, Zenon
        <5>4. QED
          BY Zenon, <5>1, <5>3 DEF Known, Removing
      <4>4. ASSUME NEW q \in Process, ListDel(q) PROVE range_list'[p] = range_list[p]
        BY Zenon, <1>0, <2>2, <4>4 DEF ListDel
      <4>5. QED
        BY Zenon, <1>3, <4>1, <4>2, <4>3, <4>4, Frame
    <3>3. QED
      BY Zenon, <3>1, <3>2 DEF Known
  <2>3. QED
    BY Zenon, <2>1, <2>2
<1>4. ASSUME NEW p \in Process, Munmap(p) PROVE range[p] \notin Known(p)'
  <2>1. range_list' = range_list /\ pc'[p] = "ranges" /\ pc[p] = "munmap"
    BY Zenon, <1>0, <1>4 DEF Munmap, At, Goto, poolvars
  <2>2. Known(p)' = Listed(p) /\ Removing(p) = {range[p]}
    BY Zenon, <1>0, <2>1 DEF Known, Removing
  <2>3. QED
    BY Zenon, <2>2 DEF ListInv
<1>5. ErrorUnmap => Building(Me)' = {}
  BY Zenon, <1>0 DEF ErrorUnmap, Goto, Building, Creating
<1>6. QED
  BY Zenon, <1>1, <1>2, <1>3, <1>4, <1>5

\* How the flags of a range change.
LEMMA FlagsNext ==
    ASSUME TypeOK, Next
    PROVE  /\ marker'[Me] = marker[Me] \/ (WriteMarker /\ marker'[Me] = marker[Me] \cup {New})
           /\ ~Fork => marker'["child"] = marker["child"]
           /\ dontfork'[Me] = dontfork[Me] \/ (DontFork /\ dontfork'[Me] = dontfork[Me] \cup {New})
           /\ \/ wipeonfork'[Me] = wipeonfork[Me]
              \/ (WipeOnFork /\ wipeonfork'[Me] = wipeonfork[Me] \cup {New})
<1> USE Constants
<1>0. /\ \A f \in {marker, dontfork, wipeonfork} : f \in [Process -> SUBSET Ranges]
      /\ New \in Ranges
  BY Zenon DEF TypeOK, New
<1>1. \A f \in {marker, dontfork, wipeonfork} : /\ Insert(f, Me, New)[Me] = f[Me] \cup {New}
                                               /\ Insert(f, Me, New)["child"] = f["child"]
  BY Zenon, <1>0 DEF Insert
<1>2. CASE Fork
  BY Zenon, <1>0, <1>2, ForkIs
<1>3. CASE ~Fork
  <2>1. /\ marker' = marker \/ (WriteMarker /\ marker' = Insert(marker, Me, New))
        /\ dontfork' = dontfork \/ (DontFork /\ dontfork' = Insert(dontfork, Me, New))
        /\ wipeonfork' = wipeonfork \/ (WipeOnFork /\ wipeonfork' = Insert(wipeonfork, Me, New))
    <3>1. WriteMarker => marker' = Insert(marker, Me, New)
      BY Zenon DEF WriteMarker
    <3>2. DontFork => dontfork' = dontfork \/ dontfork' = Insert(dontfork, Me, New)
      BY Zenon DEF DontFork, Fallible, mapvars
    <3>3. WipeOnFork => wipeonfork' = wipeonfork \/ wipeonfork' = Insert(wipeonfork, Me, New)
      BY Zenon DEF WipeOnFork, Fallible, mapvars
    <3>4. QED
      BY <1>3, <3>1, <3>2, <3>3, Frame, Zenon
  <2>2. QED
    BY Zenon, <1>1, <2>1
<1>4. QED
  BY Zenon, <1>2, <1>3

\* A creation has what it has done so far.
LEMMA BuildNext == ASSUME TypeOK, CallInv, ListInv, BuildInv, Next PROVE BuildInv'
<1> USE Constants
<1>0. /\ pc \in [Process -> Location] /\ New \in Ranges /\ range \in [Process -> Ranges]
      /\ \A f \in {marker, dontfork, wipeonfork} : f \in [Process -> SUBSET Ranges]
      /\ attr' = attr
  BY Zenon, Frame DEF TypeOK, New
<1>1. ASSUME NEW r \in Building(Me)', NEW a \in Area, InRange(a, attr) PROVE maps'[Me][r][a] \in Own
  <2>1. CASE aligned_mmap_anonymous /\ nr_ranges' # nr_ranges
    <3>1. r = nr_ranges + 1
      BY Zenon, <2>1, MmapIs DEF Building
    <3>2. QED
      BY Zenon, <1>1, <2>1, <3>1, MmapIs DEF Own
  <2>2. CASE ~(aligned_mmap_anonymous /\ nr_ranges' # nr_ranges)
    <3>1. r \in Building(Me) /\ r = New /\ pc[Me] \in Creating
      BY Zenon, <2>2, RangesNext DEF Building
    <3>2. maps[Me][r][a] \in Own
      BY Zenon, <1>1, <3>1 DEF BuildInv
    <3>3. CASE Fork
      BY Zenon, <1>0, <3>1, <3>2, <3>3, ForkIs
    <3>4. CASE ~Fork /\ maps'[Me][r][a] # maps[Me][r][a]
      <4>1. ~ErrorUnmap
        BY Zenon, RangesNext
      <4>2. ~Munmap(Me)
        BY Zenon, <3>1 DEF Munmap, At, Creating
      <4>3. ~(MapForeign(Me, r) /\ maps[Me][r][a] = "none")
        BY Zenon, <3>2 DEF Own
      <4>4. maps'[Me][r][a] \in {"shared", "private"}
        <5>1. MapsStep(Me, r, a)
          BY Zenon, <1>0, <2>2, <3>1, <3>4, MapsNext
        <5>2. QED
          BY Zenon, <2>2, <4>1, <4>2, <4>3, <5>1 DEF MapsStep
      <4>5. QED
        BY Zenon, <4>4 DEF Own
    <3>5. QED
      BY Zenon, <3>2, <3>3, <3>4
  <2>3. QED
    BY Zenon, <2>1, <2>2
<1>2. /\ dontfork[Me] \subseteq dontfork'[Me] /\ marker[Me] \subseteq marker'[Me]
      /\ wipeonfork[Me] \subseteq wipeonfork'[Me]
  BY Zenon, FlagsNext
\* Where the parent is after a step of a creation.
<1>3. DEFINE Marked == {"marker", "wipeonfork", "close", "bitmap", "init_func", "list_add"}
             Wiped == {"wipeonfork", "close", "bitmap", "init_func", "list_add"}
             Closed == {"close", "bitmap", "init_func", "list_add"}
<1>4. /\ attr.cow_init /\ pc'[Me] \in Marked =>
             pc[Me] \in Marked \/ (DontFork /\ dontfork' = Insert(dontfork, Me, New))
      /\ attr.cow_init /\ pc'[Me] \in Wiped => pc[Me] \in Wiped \/ WriteMarker
      /\ attr.cow_init /\ pc'[Me] \in Closed =>
             pc[Me] \in Closed \/ (WipeOnFork /\ wipeonfork' = Insert(wipeonfork, Me, New))
  <2>1. \A p, q \in Process : \A l : Goto(p, l) => pc'[q] = IF q = p THEN l ELSE pc[q]
    BY Zenon, <1>0 DEF Goto
  <2>2. AfterBitmap \in {"init_func", "list_add"} /\ AfterCow \in {"bitmap", "init_func", "list_add"}
    BY Zenon DEF AfterBitmap, AfterCow
  <2>3. CASE pc'[Me] = pc[Me]
    BY Zenon, <2>3
  <2>4. CASE Create \/ CreateNoMemory \/ Grow \/ aligned_mmap_anonymous \/ Failed
    BY <1>0, <2>1, <2>4 DEF Create, CreateNoMemory, Grow, aligned_mmap_anonymous, Failed
  <2>5. CASE rseq_memfd_create_init \/ MapInit \/ MapCpu
    BY <2>1, <2>5 DEF rseq_memfd_create_init, MapInit, MapCpu, Fallible, At
  <2>6. CASE create_alloc_bitmap \/ InitFunc
    BY Zenon, <2>1, <2>2, <2>6 DEF create_alloc_bitmap, InitFunc, Fallible, At
  <2>7. CASE DontFork
    <3>1. \/ pc'[Me] = "error"
          \/ pc'[Me] = "marker" /\ dontfork' = Insert(dontfork, Me, New)
      BY Zenon, <2>1, <2>7 DEF DontFork, Fallible
    <3>2. QED
      BY Zenon, <2>7, <3>1
  <2>8. CASE WriteMarker
    BY <2>1, <2>8 DEF WriteMarker, At
  <2>9. CASE WipeOnFork
    BY <2>1, <2>9 DEF WipeOnFork, Fallible, At
  <2>10. CASE rseq_memfd_close
    BY Zenon, <2>1, <2>2, <2>10 DEF rseq_memfd_close, At
  <2>11. CASE Strdup \/ ErrorClose \/ ErrorBitmap \/ ErrorUnmap \/ ListAdd
    <3>1. pc'[Me] \in {"strdup", "idle", "failed", "undo", "unmap"}
      BY Zenon, <2>1, <2>11 DEF Strdup, ErrorClose, ErrorBitmap, ErrorUnmap, ListAdd
    <3>2. QED
      BY Zenon, <3>1
  <2>12. CASE Fork
    BY Zenon, <1>0, <2>3, <2>12 DEF Fork
  <2>13. CASE \/ \E r \in Ranges : AllocItem(r) \/ FreeItem(r)
              \/ \E p \in Process, r \in Ranges : MapForeign(p, r)
    BY Zenon, <2>3, <2>13 DEF AllocItem, FreeItem, MapForeign
  <2>14. ASSUME NEW p \in Process,
                Destroy(p) \/ CheckPool(p) \/ FreePool(p) \/ Munmap(p) \/ MunmapError(p) \/ ListDel(p)
         PROVE  pc'[Me] = pc[Me] \/ pc'[Me] \in {"destroy", "ranges", "munmap", "idle"}
    BY Zenon, <1>0, <2>1, <2>14 DEF Destroy, CheckPool, FreePool, Munmap, MunmapError, ListDel
  <2>15. QED
    BY Zenon, <2>3, <2>4, <2>5, <2>6, <2>7, <2>8, <2>9, <2>10, <2>11, <2>12, <2>13, <2>14 DEF Next
<1>7. New \in Insert(dontfork, Me, New)[Me] /\ New \in Insert(wipeonfork, Me, New)[Me]
      /\ (WriteMarker => New \in marker'[Me])
  BY Zenon, <1>0 DEF Insert, WriteMarker
<1>8. attr.cow_init /\ pc'[Me] \in Marked => New' = New
  <2>1. CASE aligned_mmap_anonymous
    BY Zenon, <1>0, <2>1 DEF aligned_mmap_anonymous, Goto
  <2>2. CASE ~aligned_mmap_anonymous
    BY Zenon, <2>2, RangesNext DEF Building, Creating
  <2>3. QED
    BY Zenon, <2>1, <2>2
<1>5. ~attr.cow_init => dontfork'[Me] = {}
  BY Zenon, FlagsNext DEF BuildInv, CallInv, DontFork, Fallible, At
<1>6. QED
  <2>1. \A r \in Building(Me)', a \in Area : InRange(a, attr') => maps'[Me][r][a] \in Own
    BY Zenon, <1>0, <1>1
  <2>2. attr'.cow_init /\ pc'[Me] \in Marked => New' \in dontfork'[Me]
    BY Zenon, <1>0, <1>2, <1>4, <1>7, <1>8 DEF BuildInv
  <2>3. attr'.cow_init /\ pc'[Me] \in Wiped => New' \in marker'[Me]
    BY Zenon, <1>0, <1>2, <1>4, <1>7, <1>8 DEF BuildInv
  <2>4. attr'.cow_init /\ pc'[Me] \in Closed => New' \in wipeonfork'[Me]
    BY Zenon, <1>0, <1>2, <1>4, <1>7, <1>8 DEF BuildInv
  <2>5. QED
    BY Zenon, <1>0, <1>5, <2>1, <2>2, <2>3, <2>4 DEF BuildInv

\* Only the fork makes a process.
LEMMA StaysGone ==
    ASSUME TypeOK, CallInv, Next, ~Fork, NEW p \in Process, pc[p] = "gone" PROVE pc'[p] = "gone"
<1> USE Constants
<1>0. p = "child" /\ pc \in [Process -> Location]
  BY Zenon DEF TypeOK, CallInv, Process, Me
<1>1. \A q \in Process : \A l : Goto(q, l) /\ q # p => pc'[p] = pc[p]
  BY Zenon, <1>0 DEF Goto
<1>2. CASE Create \/ CreateNoMemory \/ Grow \/ aligned_mmap_anonymous \/ Failed
  BY Zenon, <1>0, <1>1, <1>2 DEF Create, CreateNoMemory, Grow, aligned_mmap_anonymous, Failed
<1>3. CASE rseq_memfd_create_init \/ MapInit \/ MapCpu \/ DontFork \/ WipeOnFork
           \/ create_alloc_bitmap \/ InitFunc
  BY Zenon, <1>0, <1>1, <1>3
     DEF rseq_memfd_create_init, MapInit, MapCpu, DontFork, WipeOnFork, create_alloc_bitmap,
         InitFunc, Fallible
<1>4. CASE WriteMarker \/ rseq_memfd_close \/ ListAdd \/ Strdup \/ ErrorClose \/ ErrorBitmap
           \/ ErrorUnmap
  <2>1. \E l \in Location : Goto(Me, l)
    BY Zenon, <1>4 DEF WriteMarker, rseq_memfd_close, ListAdd, Strdup, ErrorClose, ErrorBitmap, ErrorUnmap,
                Location, AfterCow, AfterBitmap
  <2>2. QED
    BY Zenon, <1>0, <1>1, <2>1
<1>5. CASE \/ \E r \in Ranges : AllocItem(r) \/ FreeItem(r)
           \/ \E q \in Process, r \in Ranges : MapForeign(q, r)
  BY Zenon, <1>5 DEF AllocItem, FreeItem, MapForeign
<1>6. ASSUME NEW q \in Process,
             Destroy(q) \/ CheckPool(q) \/ FreePool(q) \/ Munmap(q) \/ MunmapError(q) \/ ListDel(q)
      PROVE  q # p /\ pc'[p] = pc[p]
  <2>1. q # p
    BY Zenon, <1>0, <1>6 DEF Destroy, CheckPool, FreePool, Munmap, MunmapError, ListDel, At
  <2>2. QED
    BY Zenon, <1>1, <1>6, <2>1 DEF Destroy, CheckPool, FreePool, Munmap, MunmapError, ListDel
<1>7. QED
  BY Zenon, <1>2, <1>3, <1>4, <1>5, <1>6 DEF Next

\* The ranges a process has are mapped, and marked in the parent.
LEMMA KnownNext == ASSUME TypeOK, CallInv, ListInv, BuildInv, KnownInv, Next PROVE KnownInv'
<1> USE Constants
<1>0. /\ attr' = attr /\ nr_ranges \in Nat /\ pc \in [Process -> Location] /\ New \in Ranges
      /\ \A f \in {marker, dontfork, wipeonfork} : f \in [Process -> SUBSET Ranges]
      /\ \A p \in Process : p = Me \/ p = "child"
      /\ \A p \in Process : Known(p) \subseteq Ranges
  <2>1. nr_ranges \in 0 .. MaxNrRanges
    BY Zenon DEF TypeOK
  <2>2. \A p \in Process : Known(p) \subseteq Ranges
    BY <2>1, RangesNext DEF Ranges
  <2>3. QED
    BY <2>1, <2>2, Frame DEF TypeOK, New, Process, Me
<1>1. ListAdd => pc[Me] = "list_add" /\ Building(Me) = {New}
  BY Zenon DEF ListAdd, At, Building, Creating
<1>2. CASE ~Fork
  <2>1. ASSUME NEW p \in Process, NEW r \in Known(p)', NEW a \in Area, InRange(a, attr)
        PROVE  maps'[p][r][a] \in Own <=> (IsData(a) => Accessible(p))
    <3>1. r \in Known(p) \/ (p = Me /\ ListAdd /\ r = New)
      BY Zenon, <1>2, RangesNext
    <3>2. r \in Ranges
      BY Zenon, <1>0, <3>1
    <3>4. maps[p][r][a] \in Own <=> (IsData(a) => Accessible(p))
      <4>1. CASE r \in Known(p)
        BY Zenon, <2>1, <4>1 DEF KnownInv
      <4>2. CASE p = Me /\ ListAdd /\ r = New
        BY Zenon, <1>1, <2>1, <4>2 DEF BuildInv, Accessible
      <4>3. QED
        BY Zenon, <3>1, <4>1, <4>2
    <3>5. CASE maps'[p][r][a] # maps[p][r][a]
      <4>1. r # nr_ranges + 1
        BY <1>0, <1>1, <3>1, RangesNext DEF ListInv
      <4>2. p = Me /\ r = New => ~MapInit /\ ~MapCpu /\ ~ErrorUnmap
        <5>1. MapInit \/ MapCpu \/ ErrorUnmap => Building(Me) = {New} /\ pc[Me] # "list_add"
          BY Zenon DEF MapInit, MapCpu, ErrorUnmap, Fallible, At, Building, Creating
        <5>2. QED
          BY Zenon, <1>1, <3>1, <5>1, RangesNext
      <4>3. ~(Munmap(p) /\ r = range[p])
        BY Zenon, <2>1, RangesNext
      <4>4. maps[p][r][a] = "none" /\ maps'[p][r][a] = "foreign"
        <5>1. MapsStep(p, r, a)
          BY Zenon, <1>2, <3>2, <3>5, MapsNext
        <5>2. QED
          BY Zenon, <4>1, <4>2, <4>3, <5>1 DEF MapsStep
      <4>5. QED
        BY Zenon, <3>4, <4>4 DEF Own
    <3>6. QED
      BY Zenon, <3>4, <3>5
  <2>2. ASSUME NEW p \in Process, NEW r \in Known(p)', attr.cow_init
        PROVE  r \in marker'[p] <=> p = Me
    <3>1. r \in Known(p) \/ (p = Me /\ ListAdd /\ r = New)
      BY Zenon, <1>2, RangesNext
    <3>3. r \in marker[p] <=> p = Me
      BY Zenon, <1>1, <2>2, <3>1 DEF KnownInv, BuildInv
    <3>4. QED
      BY Zenon, <1>0, <1>2, <3>3, FlagsNext
  <2>3. attr.cow_init => Known(Me)' \subseteq dontfork'[Me] \cap wipeonfork'[Me]
    BY Zenon, <1>1, <1>2, RangesNext, FlagsNext DEF KnownInv, BuildInv
  <2>4. Accessible(Me)' = Accessible(Me) /\ Accessible("child")' = Accessible("child")
    BY Zenon, <1>0 DEF Accessible
  <2>5. QED
    BY Zenon, <1>0, <2>1, <2>2, <2>3, <2>4 DEF KnownInv
<1>3. CASE Fork
  <2>1. /\ range_list' = [range_list EXCEPT !["child"] = range_list[Me]]
        /\ range' = range /\ pc'["child"] \in {"gone", "idle"} /\ pc'[Me] = pc[Me]
    BY Zenon, <1>0, <1>3 DEF Fork, callvars
  <2>2. Known(Me)' = Known(Me) /\ Known("child")' = Listed(Me)
    BY Zenon, <2>1 DEF Known, Listed, Removing, TypeOK
  <2>3. Listed(Me) \subseteq Known(Me)
    BY Zenon DEF Known
  <2>4. ASSUME NEW p \in Process, NEW r \in Known(p)', NEW a \in Area, InRange(a, attr)
        PROVE  maps'[p][r][a] \in Own <=> (IsData(a) => Accessible(p))
    <3>1. r \in Known(Me) /\ r \in Ranges
      BY Zenon, <1>0, <2>2, <2>3
    <3>2. maps[Me][r][a] \in Own
      BY Zenon, <2>4, <3>1 DEF KnownInv, Accessible
    <3>3. r \in dontfork[Me] <=> attr.cow_init
      BY Zenon, <3>1 DEF KnownInv, BuildInv
    <3>4. CASE p = Me
      BY Zenon, <1>3, <3>1, <3>2, <3>4, ForkIs DEF Accessible
    <3>5. CASE p = "child"
      BY Zenon, <1>3, <3>1, <3>2, <3>3, <3>5, ForkIs DEF Accessible, Own
    <3>6. QED
      BY Zenon, <1>0, <3>4, <3>5
  <2>5. ASSUME NEW p \in Process, NEW r \in Known(p)', attr.cow_init
        PROVE  r \in marker'[p] <=> p = Me
    <3>1. r \in marker[Me] /\ r \in wipeonfork[Me]
      <4>1. r \in Known(Me)
        BY Zenon, <1>0, <2>2, <2>3
      <4>2. QED
        BY Zenon, <2>5, <4>1 DEF KnownInv
    <3>2. marker'[Me] = marker[Me] /\ marker'["child"] = marker[Me] \ wipeonfork[Me]
      BY Zenon, <1>0, <1>3, ForkIs
    <3>3. QED
      BY Zenon, <1>0, <3>1, <3>2
  <2>6. attr.cow_init => Known(Me)' \subseteq dontfork'[Me] \cap wipeonfork'[Me]
    BY Zenon, <2>2, FlagsNext DEF KnownInv
  <2>7. \A p \in Process : Accessible(p)' = Accessible(p)
    BY Zenon, <1>0 DEF Accessible
  <2>8. QED
    BY Zenon, <1>0, <2>4, <2>5, <2>6, <2>7 DEF KnownInv
<1>4. QED
  BY Zenon, <1>2, <1>3

\* The marker told each call to rseq_mempool_destroy() the truth.
LEMMA AccessNext == ASSUME TypeOK, CallInv, ListInv, KnownInv, AccessInv, Next PROVE AccessInv'
<1> USE Constants
<1>0. /\ attr' = attr /\ pc \in [Process -> Location] /\ range_list \in [Process -> Seq(Ranges)]
      /\ mapping_accessible \in [Process -> BOOLEAN]
      /\ \A p \in Process : Accessible(p)' = Accessible(p)
  BY Zenon, Frame DEF TypeOK, Accessible
<1>1. SUFFICES ASSUME NEW p \in Process,
                      pc'[p] = "munmap" \/ (pc'[p] = "ranges" /\ range_list'[p] # << >>)
               PROVE  mapping_accessible'[p] <=> Accessible(p)
  BY Zenon, <1>0 DEF AccessInv
<1>2. CASE CheckPool(p)
  <2>1. /\ pc[p] = "destroy" /\ mapping_accessible'[p] = pool_mappings_accessible(p)
        /\ range_list' = range_list /\ pc'[p] = "ranges"
    BY Zenon, <1>0, <1>2 DEF CheckPool, At, Goto, poolvars
  <2>2. range_list[p] # << >> /\ Head(range_list[p]) \in Known(p)
    <3>1. range_list[p] # << >>
      BY Zenon, <1>1, <2>1
    <3>2. Head(range_list[p]) \in Elems(range_list[p])
      BY <1>0, <3>1, TailIs
    <3>3. QED
      BY Zenon, <2>1, <3>1, <3>2 DEF Known, Listed, Elems
  <2>3. attr.cow_init => (Head(range_list[p]) \in marker[p] <=> p = Me)
    BY Zenon, <2>2 DEF KnownInv
  <2>4. QED
    BY Zenon, <2>1, <2>2, <2>3 DEF pool_mappings_accessible, Accessible
<1>3. CASE ~CheckPool(p)
  <2>1. mapping_accessible'[p] = mapping_accessible[p]
    BY <1>0, <1>3, Frame DEF CheckPool
  <2>2. pc[p] = "munmap" \/ (pc[p] = "ranges" /\ range_list[p] # << >>)
    <3>1. CASE pc'[p] = "munmap"
      <4>1. ListDel(p) => pc[p] = "ranges" /\ range_list[p] # << >>
        BY Zenon DEF ListDel, At
      <4>2. QED
        BY Zenon, <3>1, <4>1, Moves
    <3>2. CASE pc'[p] = "ranges" /\ range_list'[p] # << >>
      <4>1. pc[p] = "munmap" \/ pc[p] = "ranges"
        BY Zenon, <1>3, <3>2, Moves DEF Munmap, At
      <4>2. ASSUME pc[p] = "ranges" PROVE range_list'[p] = range_list[p]
        <5>1. ListAdd => range_list'[p] = range_list[p]
          BY Zenon, <1>0, <4>2 DEF ListAdd, At
        <5>2. Fork => range_list'[p] = range_list[p]
          BY Zenon, <1>0, <3>2 DEF Fork
        <5>3. ASSUME NEW q \in Process, ListDel(q) \/ MunmapError(q)
              PROVE  range_list'[p] = range_list[p]
          BY Zenon, <1>0, <3>2, <4>2, <5>3 DEF ListDel, MunmapError, At, Goto
        <5>4. QED
          BY Zenon, <5>1, <5>2, <5>3, Frame
      <4>3. QED
        BY Zenon, <3>2, <4>1, <4>2
    <3>3. QED
      BY Zenon, <1>1, <3>1, <3>2
  <2>3. QED
    BY Zenon, <2>1, <2>2 DEF AccessInv
<1>4. QED
  BY Zenon, <1>2, <1>3

-----------------------------------------------------------------------------
\* The invariant holds initially and is preserved by every step.
LEMMA InitInv == ASSUME Init PROVE TypeOK /\ PoolInv
<1> USE Constants
<1>1. TypeOK
  <2>1. maps \in [Process -> [Ranges -> [Area -> Mapping]]]
    BY Zenon DEF Init, ForBoth, Mapping
  <2>2. \A f \in {marker, dontfork, wipeonfork, memfd, alloc_bitmap, live} :
            f \in [Process -> SUBSET Ranges]
    BY Zenon DEF Init, ForBoth
  <2>3. range_list \in [Process -> Seq(Ranges)] /\ pool \in [Process -> BOOLEAN]
        /\ range \in [Process -> Ranges] /\ mapping_accessible \in [Process -> BOOLEAN]
        /\ result \in [Process -> {"none", "ok", "NULL", "0"}] /\ aborted \in [Process -> BOOLEAN]
    BY DEF Init, ForBoth
  <2>4. pc \in [Process -> Location]
    BY Zenon DEF Init, Location
  <2>5. cpu \in 0 .. NCpu /\ nr_ranges \in 0 .. MaxNrRanges
    BY DEF Init
  <2>6. QED
    BY Zenon, <2>1, <2>2, <2>3, <2>4, <2>5 DEF Init, TypeOK
<1>2. \A p \in Process : Listed(p) = {} /\ Known(p) = {} /\ range_list[p] = << >>
  BY DEF Init, ForBoth, Listed, Known, Removing, Process
<1>3. Building(Me) = {} /\ \A p \in Process : Removing(p) = {}
  BY Zenon DEF Init, Building, Creating, Removing, Process, Me
<1>4. CallInv
  BY Zenon DEF Init, CallInv, Creating, ForBoth, Me, Process
<1>5. ListInv
  BY <1>2, <1>3 DEF ListInv, Distinct
<1>6. AreaInv
  BY Zenon DEF Init, AreaInv, ForBoth, Own
<1>7. BuildInv
  BY Zenon, <1>3 DEF Init, BuildInv, ForBoth, Me, Process
<1>8. KnownInv /\ AccessInv
  BY Zenon, <1>2 DEF Init, KnownInv, AccessInv, Process
<1>9. QED
  BY Zenon, <1>1, <1>4, <1>5, <1>6, <1>7, <1>8 DEF PoolInv

\* Every step keeps the types and the invariant.
LEMMA NextInv == ASSUME TypeOK, PoolInv, [Next]_vars PROVE TypeOK' /\ PoolInv'
<1>1. CASE Next
  BY Zenon, <1>1, TypeNext, CallNext, ListNext, AreaNext, BuildNext, KnownNext, AccessNext DEF PoolInv
<1>2. CASE UNCHANGED vars
  <2>0. /\ attr' = attr /\ maps' = maps /\ marker' = marker /\ dontfork' = dontfork
        /\ wipeonfork' = wipeonfork /\ range_list' = range_list /\ pool' = pool /\ pc' = pc
        /\ range' = range /\ mapping_accessible' = mapping_accessible /\ call' = call /\ cpu' = cpu
        /\ nr_ranges' = nr_ranges /\ forked' = forked
    BY Zenon, <1>2 DEF vars, mapvars, poolvars, callvars, forkvars
  <2>6. /\ New' = New /\ Building(Me)' = Building(Me)
        /\ \A p \in Process : /\ Listed(p)' = Listed(p) /\ Removing(p)' = Removing(p)
                              /\ Known(p)' = Known(p) /\ Accessible(p)' = Accessible(p)
    BY Zenon, <2>0 DEF Listed, Building, Removing, New, Known, Accessible
  <2> USE <2>0, <2>6, Constants
  <2>1. TypeOK'
    <3>1. /\ memfd' = memfd /\ alloc_bitmap' = alloc_bitmap /\ live' = live /\ result' = result
          /\ aborted' = aborted /\ orphan' = orphan
      BY Zenon, <1>2 DEF vars, mapvars, poolvars, callvars, forkvars
    <3>2. QED
      BY Zenon, <3>1 DEF TypeOK
  <2>2. CallInv'
    BY Zenon DEF PoolInv, CallInv
  <2>7. AreaInv'
    BY Zenon DEF PoolInv, AreaInv
  <2>8. BuildInv'
    BY Zenon DEF PoolInv, BuildInv
  <2>3. ListInv'
    BY Zenon DEF PoolInv, ListInv
  <2>4. KnownInv' /\ AccessInv'
    BY Zenon DEF PoolInv, KnownInv, AccessInv
  <2>5. QED
    BY Zenon, <2>1, <2>2, <2>3, <2>4, <2>7, <2>8 DEF PoolInv
<1>3. QED
  BY Zenon, <1>1, <1>2

\* The state has its types and the invariant holds: at every step of
\* rseq_mempool_range_create(), its error path, rseq_mempool_destroy() and a fork,
\* what each process has mapped of a range is what the step it has reached says.
THEOREM RangesInvariant == Spec => [](TypeOK /\ PoolInv)
<1>1. QED
  BY InitInv, NextInv, PTL DEF Spec

\* At every step of a creation, a destruction and a fork, the structures of the
\* ranges in the list of a process are mapped there, and the marker of the newest
\* one tells whether the data of all of them is; whatever calls fail.
THEOREM MarkerTells == Spec => []RangesAccessible
<1>1. ASSUME TypeOK, PoolInv PROVE RangesAccessible
  <2>1. SUFFICES ASSUME NEW p \in Process, NEW r \in Listed(p), NEW a \in Area, InRange(a, attr)
                 PROVE  maps[p][r][a] \in Own <=> (IsData(a) => pool_mappings_accessible(p))
    BY Zenon DEF RangesAccessible
  <2>2. range_list[p] # << >> /\ Head(range_list[p]) \in Known(p)
    <3>1. range_list[p] \in Seq(Ranges) /\ range_list[p] # << >>
      <4>1. range_list[p] \in Seq(Ranges)
        BY Zenon, <1>1 DEF TypeOK
      <4>2. PICK k \in DOMAIN range_list[p] : r = range_list[p][k]
        BY Zenon DEF Listed
      <4>3. DOMAIN << >> = {}
        OBVIOUS
      <4>4. QED
        BY Zenon, <4>1, <4>2, <4>3
    <3>2. Head(range_list[p]) \in Elems(range_list[p])
      <4>1. Elems(range_list[p]) = {Head(range_list[p])} \cup Elems(Tail(range_list[p]))
        BY Zenon, <3>1, TailIs
      <4>2. QED
        BY Zenon, <4>1
    <3>3. QED
      BY Zenon, <3>1, <3>2 DEF Known, Listed, Elems
  <2>3. pool_mappings_accessible(p) <=> Accessible(p)
    BY Zenon, <1>1, <2>2 DEF PoolInv, KnownInv, pool_mappings_accessible, Accessible
  <2>4. r \in Known(p)
    BY Zenon DEF Known
  <2>5. QED
    BY Zenon, <1>1, <2>1, <2>3, <2>4 DEF PoolInv, KnownInv
<1>2. QED
  BY <1>1, RangesInvariant, PTL

\* No call unmaps what is not the pool's, in the parent or in a child: what the
\* calls unmap was mapped by the pool, and is there.
THEOREM ForeignStays == Spec => ForeignKept
<1>1. ASSUME TypeOK, PoolInv, Next, NEW p \in Process, NEW r \in Ranges, NEW a \in Area,
             maps[p][r][a] = "foreign"
      PROVE  maps'[p][r][a] = "foreign"
  <2> USE Constants
  <2>0. CallInv /\ ListInv /\ AreaInv /\ BuildInv /\ KnownInv /\ AccessInv
    BY Zenon, <1>1 DEF PoolInv
  <2>1. SUFFICES ASSUME maps'[p][r][a] # maps[p][r][a] PROVE FALSE
    BY Zenon, <1>1
  <2>2. ~Fork
    <3>1. SUFFICES ASSUME Fork PROVE FALSE
      OBVIOUS
    <3>2. maps["child"][r][a] = "none" /\ maps'[Me][r][a] = maps[Me][r][a]
      <4>1. ~forked
        BY Zenon, <3>1 DEF Fork
      <4>2. maps'[Me][r][a] = maps[Me][r][a]
        BY Zenon, <1>1, <3>1, ForkIs
      <4>3. QED
        BY Zenon, <2>0, <4>1, <4>2 DEF CallInv
    <3>3. QED
      BY Zenon, <1>1, <2>1, <3>2 DEF Process, Me
  <2>3. ~(r = nr_ranges + 1)
    <3>1. r = nr_ranges + 1 => r > nr_ranges
      BY <1>1 DEF TypeOK
    <3>2. QED
      BY Zenon, <1>1, <2>0, <3>1 DEF AreaInv
  <2>4. ~(InRange(a, attr) /\ p = Me /\ r = New /\ (MapInit \/ MapCpu \/ ErrorUnmap))
    <3>1. MapInit \/ MapCpu \/ ErrorUnmap => Building(Me) = {New}
      BY Zenon DEF MapInit, MapCpu, ErrorUnmap, Fallible, At, Building, Creating
    <3>2. QED
      BY Zenon, <1>1, <2>0, <3>1 DEF BuildInv, Own
  <2>5. ~(Munmap(p) /\ r = range[p] /\ InRange(a, attr) /\ (IsData(a) => mapping_accessible[p]))
    <3>1. SUFFICES ASSUME Munmap(p), r = range[p], InRange(a, attr), IsData(a) => mapping_accessible[p]
                   PROVE  FALSE
      OBVIOUS
    <3>2. pc[p] = "munmap" /\ r \in Known(p)
      BY Zenon, <3>1 DEF Munmap, At, Known, Removing
    <3>3. mapping_accessible[p] <=> Accessible(p)
      BY Zenon, <2>0, <3>2 DEF AccessInv
    <3>4. maps[p][r][a] \in Own
      BY Zenon, <2>0, <3>1, <3>2, <3>3 DEF KnownInv
    <3>5. QED
      BY Zenon, <1>1, <3>4 DEF Own
  <2>6. QED
    <3>1. maps[p][r][a] = "none"
      <4>1. MapsStep(p, r, a)
        BY Zenon, <1>1, <2>0, <2>1, <2>2, MapsNext
      <4>2. QED
        BY Zenon, <2>3, <2>4, <2>5, <4>1 DEF MapsStep
    <3>2. QED
      BY Zenon, <1>1, <3>1
<1>2. TypeOK /\ PoolInv /\ [Next]_vars =>
        [\A p \in Process, r \in Ranges, a \in Area :
           maps[p][r][a] = "foreign" => maps'[p][r][a] = "foreign"]_vars
  BY Zenon, <1>1
<1>3. QED
  BY <1>2, RangesInvariant, PTL DEF Spec, ForeignKept

-----------------------------------------------------------------------------
\* A creation ends with the list or the unmapping, and a removal with munmap().
LEMMA Leaves ==
    ASSUME TypeOK, CallInv, Next
    PROVE  /\ pc[Me] \in Creating => pc'[Me] \in Creating \/ ListAdd \/ ErrorUnmap
           /\ \A p \in Process :
                 pc[p] = "munmap" => pc'[p] = "munmap" \/ Munmap(p) \/ MunmapError(p)
<1> USE Constants DEF Creating
<1>0. /\ pc \in [Process -> Location]
      /\ \A p \in Process : p = Me \/ p = "child"
  BY Zenon DEF TypeOK, Me, Process
<1>1. \A p, q \in Process : \A l : Goto(p, l) => pc'[q] = IF q = p THEN l ELSE pc[q]
  BY Zenon, <1>0 DEF Goto
<1>2. AfterBitmap \in {"init_func", "list_add"} /\ AfterCow \in {"bitmap", "init_func", "list_add"}
  BY Zenon DEF AfterBitmap, AfterCow
<1>3. CASE Create \/ CreateNoMemory \/ Grow \/ aligned_mmap_anonymous \/ Failed \/ Strdup
  BY Zenon, <1>0, <1>1, <1>2, <1>3
     DEF Create, CreateNoMemory, Grow, aligned_mmap_anonymous, Failed, Strdup, At
<1>4. CASE rseq_memfd_create_init \/ MapInit \/ MapCpu \/ DontFork \/ WipeOnFork
           \/ create_alloc_bitmap \/ InitFunc
  <2>1. \E l \in Creating : Goto(Me, l)
    BY Zenon, <1>2, <1>4
       DEF rseq_memfd_create_init, MapInit, MapCpu, DontFork, WipeOnFork, create_alloc_bitmap,
           InitFunc, Fallible
  <2>2. pc[Me] # "munmap"
    BY Zenon, <1>4
       DEF rseq_memfd_create_init, MapInit, MapCpu, DontFork, WipeOnFork, create_alloc_bitmap,
           InitFunc, Fallible, At
  <2>3. QED
    BY Zenon, <1>0, <1>1, <2>1, <2>2
<1>5. CASE WriteMarker \/ rseq_memfd_close \/ ErrorClose \/ ErrorBitmap
  BY Zenon, <1>0, <1>1, <1>2, <1>5
     DEF WriteMarker, rseq_memfd_close, ErrorClose, ErrorBitmap, At
<1>6. CASE ListAdd \/ ErrorUnmap
  <2>1. pc[Me] # "munmap" /\ \E l \in Location : Goto(Me, l)
    BY Zenon, <1>6 DEF ListAdd, ErrorUnmap, At, Location
  <2>2. QED
    BY Zenon, <1>0, <1>1, <1>6, <2>1
<1>7. CASE Fork
  BY Zenon, <1>0, <1>7 DEF Fork, CallInv
<1>8. CASE \/ \E r \in Ranges : AllocItem(r) \/ FreeItem(r)
           \/ \E p \in Process, r \in Ranges : MapForeign(p, r)
  BY Zenon, <1>8 DEF AllocItem, FreeItem, MapForeign
<1>9. ASSUME NEW p \in Process, Destroy(p) \/ CheckPool(p) \/ FreePool(p) \/ ListDel(p)
      PROVE  /\ pc[Me] \in Creating => pc'[Me] \in Creating
             /\ \A q \in Process : pc[q] = "munmap" => pc'[q] = "munmap"
  BY Zenon, <1>0, <1>1, <1>9 DEF Destroy, CheckPool, FreePool, ListDel, At
<1>10. ASSUME NEW p \in Process, Munmap(p) \/ MunmapError(p)
      PROVE  /\ pc[Me] \in Creating => pc'[Me] \in Creating
             /\ \A q \in Process : pc[q] = "munmap" => pc'[q] = "munmap" \/ q = p
  BY Zenon, <1>0, <1>1, <1>10 DEF Munmap, MunmapError, At
<1>11. QED
  BY Zenon, <1>3, <1>4, <1>5, <1>6, <1>7, <1>8, <1>9, <1>10 DEF Next

\* The ranges a process no longer has, and the one that is no longer created.
LEMMA RangesLost ==
    ASSUME TypeOK, CallInv, ListInv, Next, ~Fork
    PROVE  /\ \A p \in Process :
                 Known(p) \subseteq Known(p)' \cup (IF Munmap(p) THEN {range[p]} ELSE {})
           /\ Building(Me) \subseteq Building(Me)' \cup Known(Me)' \cup
                                     (IF ErrorUnmap THEN {New} ELSE {})
           /\ aligned_mmap_anonymous /\ nr_ranges' # nr_ranges => Building(Me)' = {New'}
<1> USE Constants
<1>0. /\ pc \in [Process -> Location] /\ range \in [Process -> Ranges] /\ New \in Ranges
      /\ range_list \in [Process -> Seq(Ranges)] /\ nr_ranges \in Nat
      /\ \A p \in Process : p = Me \/ p = "child"
      /\ \A p \in Process : Listed(p) = Elems(range_list[p]) /\ Listed(p)' = Elems(range_list'[p])
  BY DEF TypeOK, New, Me, Process, Listed, Elems
<1>1. aligned_mmap_anonymous /\ nr_ranges' # nr_ranges => Building(Me)' = {New'}
  <2>1. ASSUME aligned_mmap_anonymous, nr_ranges' # nr_ranges PROVE pc'[Me] \in Creating
    BY Zenon, <1>0, <2>1 DEF aligned_mmap_anonymous, Goto, AfterCow, AfterBitmap, Creating
  <2>2. QED
    BY Zenon, <2>1 DEF Building
<1>2. ASSUME NEW p \in Process
      PROVE  Known(p) \subseteq Known(p)' \cup (IF Munmap(p) THEN {range[p]} ELSE {})
  <2>1. CASE ListDel(p)
    <3>1. /\ range'[p] = Head(range_list[p]) /\ range_list'[p] = Tail(range_list[p])
          /\ range_list[p] # << >> /\ pc'[p] = "munmap" /\ pc[p] = "ranges"
      BY Zenon, <1>0, <2>1 DEF ListDel, At, Goto
    <3>2. Listed(p) = {range'[p]} \cup Listed(p)'
      <4>1. Elems(range_list[p]) = {range'[p]} \cup Elems(range_list'[p])
        BY Zenon, <1>0, <3>1, TailIs
      <4>2. QED
        BY <1>0, <4>1, Zenon
    <3>3. QED
      BY Zenon, <3>1, <3>2 DEF Known, Removing
  <2>2. CASE MunmapError(p)
    <3>1. range_list'[p] = <<range[p]>> \o range_list[p]
      BY Zenon, <1>0, <2>2 DEF MunmapError
    <3>2. Listed(p)' = {range[p]} \cup Listed(p)
      <4>1. Elems(range_list'[p]) = {range[p]} \cup Elems(range_list[p])
        BY Zenon, <1>0, <3>1, ConsIs
      <4>2. QED
        BY <1>0, <4>1, Zenon
    <3>3. QED
      BY Zenon, <3>2 DEF Known, Removing
  <2>3. CASE ListAdd /\ p = Me
    <3>1. range_list'[p] = <<New>> \o range_list[p] /\ pc[p] = "list_add"
      BY Zenon, <1>0, <2>3 DEF ListAdd, At
    <3>2. Listed(p)' = {New} \cup Listed(p)
      <4>1. Elems(range_list'[p]) = {New} \cup Elems(range_list[p])
        BY Zenon, <1>0, <3>1, ConsIs
      <4>2. QED
        BY <1>0, <4>1, Zenon
    <3>3. QED
      BY Zenon, <3>1, <3>2 DEF Known, Removing
  <2>4. CASE ~ListDel(p) /\ ~MunmapError(p) /\ ~(ListAdd /\ p = Me)
    <3>1. range_list'[p] = range_list[p]
      <4>1. ListAdd => range_list'[p] = range_list[p]
        BY Zenon, <1>0, <2>4 DEF ListAdd
      <4>2. ASSUME NEW q \in Process, ListDel(q) \/ MunmapError(q) PROVE range_list'[p] = range_list[p]
        BY Zenon, <1>0, <2>4, <4>2 DEF ListDel, MunmapError
      <4>3. QED
        BY Zenon, <4>1, <4>2, Frame
    <3>2. Listed(p)' = Listed(p)
      BY <1>0, <3>1, Zenon
    <3>3. Removing(p) \subseteq Removing(p)' \cup (IF Munmap(p) THEN {range[p]} ELSE {})
      <4>1. CASE pc[p] = "munmap" /\ ~Munmap(p)
        <5>1. pc'[p] = "munmap"
          BY Zenon, <2>4, <4>1, Leaves
        <5>2. range'[p] = range[p]
          <6>1. aligned_mmap_anonymous => range'[p] = range[p]
            BY Zenon, <1>0, <4>1 DEF aligned_mmap_anonymous, At
          <6>2. ASSUME NEW q \in Process, ListDel(q) PROVE range'[p] = range[p]
            BY Zenon, <1>0, <2>4, <6>2 DEF ListDel
          <6>3. QED
            BY Zenon, <6>1, <6>2, Frame
        <5>3. QED
          BY Zenon, <4>1, <5>1, <5>2 DEF Removing
      <4>2. CASE ~(pc[p] = "munmap" /\ ~Munmap(p))
        BY Zenon, <4>2 DEF Removing
      <4>3. QED
        BY Zenon, <4>1, <4>2
    <3>4. QED
      BY Zenon, <3>2, <3>3 DEF Known
  <2>5. QED
    BY Zenon, <2>1, <2>2, <2>3, <2>4
<1>3. Building(Me) \subseteq Building(Me)' \cup Known(Me)' \cup (IF ErrorUnmap THEN {New} ELSE {})
  <2>1. SUFFICES ASSUME pc[Me] \in Creating, ~ErrorUnmap PROVE New \in Building(Me)' \cup Known(Me)'
    BY Zenon DEF Building
  <2>2. CASE ListAdd
    <3>1. range_list'[Me] = <<New>> \o range_list[Me]
      BY Zenon, <1>0, <2>2 DEF ListAdd
    <3>2. New \in Elems(range_list'[Me])
      BY Zenon, <1>0, <3>1, ConsIs
    <3>3. QED
      BY Zenon, <1>0, <3>2 DEF Known
  <2>3. CASE pc'[Me] \in Creating
    <3>1. range'[Me] = range[Me]
      <4>1. ~aligned_mmap_anonymous
        BY Zenon, <2>1 DEF aligned_mmap_anonymous, At, Creating
      <4>2. ASSUME NEW q \in Process, ListDel(q) PROVE range'[Me] = range[Me]
        BY Zenon, <1>0, <2>1, <4>2 DEF ListDel, At, Creating
      <4>3. QED
        BY Zenon, <4>1, <4>2, Frame
    <3>2. QED
      BY Zenon, <2>3, <3>1 DEF Building, New
  <2>4. QED
    BY Zenon, <2>1, <2>2, <2>3, Leaves
<1>4. QED
  BY Zenon, <1>1, <1>2, <1>3

\* Nothing of the pool is mapped where it is not needed, if munmap() does not fail.
LEMMA OwnNext == ASSUME TypeOK, PoolInv, OwnInv, ~MunmapFails, Next PROVE OwnInv'
<1> USE Constants
<1>0. /\ CallInv /\ ListInv /\ AreaInv /\ BuildInv /\ KnownInv /\ AccessInv
      /\ attr' = attr /\ pc \in [Process -> Location]
      /\ New \in Ranges /\ \A p \in Process : range[p] \in Ranges
      /\ \A p \in Process : p = Me \/ p = "child"
  BY Zenon, Frame DEF PoolInv, TypeOK, New, Process, Me
<1>1. SUFFICES ASSUME NEW p \in Process, pc'[p] # "gone", NEW r \in Ranges, NEW a \in Area,
                      r \notin Known(p)', r \notin Building(p)', r \notin Left(p)'
               PROVE  maps'[p][r][a] \notin Own
  BY Zenon DEF OwnInv
<1>2. CASE Fork
  <2>1. CASE p = Me
    <3>1. Known(Me)' = Known(Me) /\ Building(Me)' = Building(Me) /\ Left(Me)' = Left(Me)
      BY Zenon, <1>0, <1>2 DEF Fork, callvars, Known, Listed, Removing, Building, New, Left, TypeOK
    <3>2. maps[Me][r][a] \notin Own
      BY Zenon, <1>0, <1>1, <2>1, <3>1 DEF OwnInv, CallInv
    <3>3. QED
      BY Zenon, <1>2, <2>1, <3>2, ForkIs
  <2>2. CASE p = "child"
    <3>1. /\ range_list'["child"] = range_list[Me] /\ orphan' = {New} \ Listed(Me)
          /\ call \in {"create", "grow"}
      BY Zenon, <1>0, <1>1, <1>2, <2>2 DEF Fork, TypeOK
    <3>2. Removing(Me) = {}
      BY Zenon, <1>0, <3>1 DEF CallInv, Removing
    <3>3. r \notin Listed(Me) /\ r # New
      BY Zenon, <1>1, <2>2, <3>1 DEF Known, Listed, Left, Me
    <3>4. r \notin Known(Me) /\ r \notin Building(Me) /\ r \notin Left(Me)
      BY Zenon, <3>2, <3>3 DEF Known, Building, Left
    <3>5. maps[Me][r][a] \notin Own
      BY Zenon, <1>0, <3>4 DEF OwnInv, CallInv
    <3>6. QED
      BY <1>2, <2>2, <3>5, ForkIs DEF Own
  <2>3. QED
    BY Zenon, <1>0, <2>1, <2>2
<1>3. CASE ~Fork
  <2>1. pc[p] # "gone" /\ Left(p)' = Left(p)
    BY Zenon, <1>0, <1>1, <1>3, StaysGone, Frame DEF Left
  <2>2. CASE r \notin Known(p) /\ r \notin Building(p)
    <3>1. maps[p][r][a] \notin Own
      BY Zenon, <1>1, <2>1, <2>2 DEF OwnInv
    <3>2. CASE maps'[p][r][a] # maps[p][r][a]
      <4>1. ~(aligned_mmap_anonymous /\ nr_ranges' # nr_ranges /\ p = Me /\ r = nr_ranges + 1)
        <5>1. SUFFICES ASSUME aligned_mmap_anonymous, nr_ranges' # nr_ranges, p = Me, r = nr_ranges + 1
                       PROVE  FALSE
          BY Zenon
        <5>2. New' = nr_ranges + 1
          BY <1>0, <5>1, MmapIs, Zenon
        <5>3. Building(Me)' = {New'}
          BY <1>0, <1>3, <5>1, RangesLost, Zenon
        <5>4. QED
          BY <1>1, <5>1, <5>2, <5>3, Zenon
      <4>2. ~((MapInit \/ MapCpu) /\ p = Me /\ r = New)
        BY Zenon, <2>2 DEF MapInit, MapCpu, Fallible, At, Building, Creating
      <4>3. maps'[p][r][a] \in {"none", "foreign"}
        <5>1. MapsStep(p, r, a)
          BY Zenon, <1>0, <1>1, <1>3, <3>2, MapsNext
        <5>2. QED
          BY Zenon, <4>1, <4>2, <5>1 DEF MapsStep
      <4>4. QED
        BY Zenon, <4>3 DEF Own
    <3>3. QED
      BY Zenon, <3>1, <3>2
  <2>3. CASE r \in Known(p)
    <3>1. Munmap(p) /\ r = range[p]
      BY Zenon, <1>0, <1>1, <1>3, <2>3, RangesLost
    <3>2. maps' = Unmapped(p, r, mapping_accessible[p]) /\ pc[p] = "munmap"
      BY Zenon, <3>1 DEF Munmap, At
    <3>8. DEFINE S == {b \in Area : InRange(b, attr) /\ (IsData(b) => mapping_accessible[p])}
    <3>9. maps'[p][r][a] = IF a \in S THEN "none" ELSE maps[p][r][a]
      <4>1. maps' = MapAreas(p, r, S, "none") /\ "none" \in Mapping
        BY Zenon, <3>2 DEF Unmapped, Mapping
      <4> HIDE DEF S
      <4>2. QED
        BY <1>1, <4>1, MapAreasIs
    <3>3. CASE InRange(a, attr) /\ (IsData(a) => mapping_accessible[p])
      <4>1. a \in {b \in Area : InRange(b, attr) /\ (IsData(b) => mapping_accessible[p])}
        BY Zenon, <3>3
      <4>2. maps'[p][r][a] = "none"
        BY Zenon, <3>9, <4>1
      <4>3. QED
        BY Zenon, <4>2 DEF Own
    <3>4. CASE ~(InRange(a, attr) /\ (IsData(a) => mapping_accessible[p]))
      <4>1. a \notin {b \in Area : InRange(b, attr) /\ (IsData(b) => mapping_accessible[p])}
        BY Zenon, <3>4
      <4>2. maps'[p][r][a] = maps[p][r][a]
        BY Zenon, <3>9, <4>1
      <4>3. mapping_accessible[p] <=> Accessible(p)
        BY Zenon, <1>0, <3>2 DEF AccessInv
      <4>4. maps[p][r][a] \notin Own
        BY Zenon, <1>0, <2>3, <3>4, <4>3 DEF AreaInv, KnownInv
      <4>5. QED
        BY Zenon, <4>2, <4>4
    <3>5. QED
      BY Zenon, <3>3, <3>4
  <2>4. CASE r \in Building(p)
    <3>1. p = Me /\ r = New
      BY Zenon, <2>4 DEF Building
    <3>2. ErrorUnmap
      BY Zenon, <1>0, <1>1, <1>3, <2>4, <3>1, RangesLost
    <3>3. maps' = Unmapped(Me, New, TRUE)
      BY Zenon, <3>2 DEF ErrorUnmap
    <3>4. maps'[p][r][a] = IF InRange(a, attr) THEN "none" ELSE maps[p][r][a]
      BY <1>0, <3>1, <3>3, MapAreasIs DEF Unmapped, Mapping
    <3>5. QED
      BY Zenon, <1>0, <3>4 DEF AreaInv, Own
  <2>5. QED
    BY Zenon, <2>2, <2>3, <2>4
<1>4. QED
  BY Zenon, <1>2, <1>3

\* The memfd of a range is open only while the range is created.
LEMMA FdNext == ASSUME TypeOK, PoolInv, FdInv, Next PROVE FdInv'
<1> USE Constants
<1>0. /\ CallInv /\ ListInv /\ pc \in [Process -> Location] /\ New \in Ranges
      /\ memfd \in [Process -> SUBSET Ranges] /\ range \in [Process -> Ranges]
  BY Zenon DEF PoolInv, TypeOK, New
<1>1. DEFINE Open == {"map_init", "map_cpu", "dontfork", "marker", "wipeonfork", "close", "error"}
<1>2. CASE Fork
  <2>1. /\ memfd'[Me] = memfd[Me] /\ pc'[Me] = pc[Me] /\ New' = New
        /\ memfd'["child"] = memfd[Me] /\ orphan' = {New} \ Listed(Me)
    BY Zenon, <1>0, <1>2 DEF Fork, New, callvars
  <2>2. memfd[Me] \subseteq {New} \ Listed(Me)
    BY Zenon, <1>0 DEF FdInv, ListInv, Building, Creating
  <2>3. QED
    BY Zenon, <2>1, <2>2 DEF FdInv
<1>3. CASE ~Fork
  <2>1. orphan' = orphan
    BY Zenon, <1>3, Frame
  <2>2. memfd'["child"] = memfd["child"]
    BY Zenon, <1>0, <1>3, Frame
       DEF rseq_memfd_create_init, rseq_memfd_close, ErrorClose, Fallible, mapvars, Insert, Delete
  <2>3. pc'["child"] # "gone" => memfd'["child"] \subseteq orphan'
    BY Zenon, <1>0, <1>3, <2>1, <2>2, StaysGone DEF FdInv
  <2>4. memfd'[Me] \subseteq IF pc'[Me] \in Open THEN {New'} ELSE {}
    <3>0. memfd[Me] \subseteq IF pc[Me] \in Open THEN {New} ELSE {}
      BY Zenon DEF FdInv
    <3>1. \A l : Goto(Me, l) => pc'[Me] = l
      BY Zenon, <1>0 DEF Goto
    <3>2. CASE rseq_memfd_create_init
      BY Zenon, <1>0, <3>0, <3>1, <3>2 DEF rseq_memfd_create_init, Fallible, At, Insert, mapvars, New
    <3>3. CASE MapInit \/ MapCpu \/ DontFork \/ WipeOnFork \/ WriteMarker
      <4>1. memfd' = memfd /\ New' = New
        BY Zenon, <3>3
           DEF MapInit, MapCpu, DontFork, WipeOnFork, WriteMarker, Fallible, mapvars, New, callvars
      <4>2. pc'[Me] \in Open /\ pc[Me] \in Open
        BY Zenon, <3>1, <3>3
           DEF MapInit, MapCpu, DontFork, WipeOnFork, WriteMarker, Fallible, At
      <4>3. QED
        BY Zenon, <3>0, <4>1, <4>2
    <3>4. CASE rseq_memfd_close \/ ErrorClose
      <4>1. memfd'[Me] = memfd[Me] \ {New} /\ pc[Me] \in Open
        BY Zenon, <1>0, <3>4 DEF rseq_memfd_close, ErrorClose, At, Delete
      <4>2. QED
        BY Zenon, <3>0, <4>1
    <3>5. CASE /\ ~(MapInit \/ MapCpu \/ DontFork \/ WipeOnFork \/ WriteMarker)
               /\ ~(rseq_memfd_create_init \/ rseq_memfd_close \/ ErrorClose)
      <4>1. memfd' = memfd
        BY Zenon, <1>3, <3>5, Frame
      <4>2. pc[Me] \in Open => pc'[Me] = pc[Me] /\ New' = New
        <5> USE DEF At, New
        <5>1. CASE Create \/ CreateNoMemory \/ Grow \/ aligned_mmap_anonymous \/ Failed \/ Strdup
          BY Zenon, <5>1 DEF Create, CreateNoMemory, Grow, aligned_mmap_anonymous, Failed, Strdup
        <5>2. CASE create_alloc_bitmap \/ InitFunc \/ ListAdd \/ ErrorBitmap \/ ErrorUnmap
          BY Zenon, <5>2 DEF create_alloc_bitmap, InitFunc, ListAdd, ErrorBitmap, ErrorUnmap, Fallible
        <5>3. CASE \/ \E r \in Ranges : AllocItem(r) \/ FreeItem(r)
                   \/ \E p \in Process, r \in Ranges : MapForeign(p, r)
          BY Zenon, <5>3 DEF AllocItem, FreeItem, MapForeign, callvars
        <5>4. CASE \E p \in Process : Destroy(p) \/ CheckPool(p) \/ FreePool(p) \/ MunmapError(p)
          <6>1. ASSUME NEW p \in Process, Destroy(p) \/ CheckPool(p) \/ FreePool(p) \/ MunmapError(p)
                PROVE  /\ range' = range /\ pc[p] \in {"idle", "destroy", "ranges", "munmap"}
                       /\ \E l : Goto(p, l)
            BY Zenon, <6>1 DEF Destroy, CheckPool, FreePool, MunmapError
          <6>2. QED
            BY Zenon, <1>0, <5>4, <6>1 DEF Goto
        <5>5. CASE \E p \in Process : ListDel(p) \/ Munmap(p)
          BY Zenon, <1>0, <5>5 DEF ListDel, Munmap, Goto, callvars
        <5>6. QED
          BY Zenon, <1>3, <3>5, <5>1, <5>2, <5>3, <5>4, <5>5 DEF Next
      <4>3. QED
        BY Zenon, <3>0, <4>1, <4>2
    <3>6. QED
      BY Zenon, <3>2, <3>3, <3>4, <3>5
  <2>5. QED
    BY Zenon, <2>3, <2>4 DEF FdInv
<1>4. QED
  BY Zenon, <1>2, <1>3

\* A bitmap belongs to a range in the list, or to the one that is created.
LEMMA BitmapNext ==
    ASSUME TypeOK, PoolInv, BitmapInv, ~MunmapFails, Next PROVE BitmapInv'
<1> USE Constants
<1>0. /\ CallInv /\ ListInv /\ pc \in [Process -> Location] /\ New \in Ranges
      /\ alloc_bitmap \in [Process -> SUBSET Ranges] /\ range \in [Process -> Ranges]
      /\ range_list \in [Process -> Seq(Ranges)] /\ aborted \in [Process -> BOOLEAN]
      /\ \A p \in Process : p = Me \/ p = "child"
      /\ \A p \in Process : Listed(p) = Elems(range_list[p]) /\ Listed(p)' = Elems(range_list'[p])
  BY Zenon DEF PoolInv, TypeOK, New, Process, Me, Listed, Elems
<1>1. DEFINE With == {"init_func", "list_add", "error", "undo"}
             Extra(p) == IF p = Me /\ pc[Me] \in With THEN {New} ELSE {}
<1>2. SUFFICES ASSUME NEW p \in Process, pc'[p] # "gone", ~aborted'[p],
                      NEW r \in alloc_bitmap'[p]
               PROVE  r \in Listed(p)' \cup Left(p)' \cup Extra(p)'
  BY Zenon DEF BitmapInv
<1>3. CASE Fork
  <2>1. /\ alloc_bitmap'[Me] = alloc_bitmap[Me] /\ alloc_bitmap'["child"] = alloc_bitmap[Me]
        /\ ~aborted[Me] /\ orphan' = {New} \ Listed(Me) /\ pc'[Me] = pc[Me] /\ New' = New
        /\ range_list'[Me] = range_list[Me] /\ range_list'["child"] = range_list[Me]
    BY Zenon, <1>0, <1>3 DEF Fork, New, callvars
  <2>2. r \in Listed(Me) \cup Extra(Me)
    BY Zenon, <1>0, <1>2, <2>1 DEF BitmapInv, CallInv, Left
  <2>3. Listed(Me)' = Listed(Me) /\ Listed("child")' = Listed(Me) /\ Extra(Me)' = Extra(Me)
        /\ Left("child")' = {New} \ Listed(Me)
    BY Zenon, <1>0, <2>1 DEF Left, Me
  <2>4. CASE p = Me
    BY Zenon, <2>2, <2>3, <2>4
  <2>5. CASE p = "child"
    <3>1. r \in Listed(Me) \cup {New}
      BY Zenon, <2>2
    <3>2. QED
      BY Zenon, <2>3, <2>5, <3>1
  <2>6. QED
    BY Zenon, <1>0, <2>4, <2>5
<1>4. CASE ~Fork
  <2>1. pc[p] # "gone" /\ Left(p)' = Left(p)
    BY Zenon, <1>0, <1>2, <1>4, StaysGone, Frame DEF Left
  <2>2. ~aborted[p]
    <3> USE DEF At, callvars
    <3>1. CASE Create \/ CreateNoMemory \/ Grow \/ aligned_mmap_anonymous \/ Failed \/ Strdup \/ ListAdd
      BY Zenon, <1>2, <3>1
         DEF Create, CreateNoMemory, Grow, aligned_mmap_anonymous, Failed, Strdup, ListAdd
    <3>2. CASE rseq_memfd_create_init \/ MapInit \/ MapCpu \/ DontFork \/ WipeOnFork
               \/ create_alloc_bitmap \/ InitFunc
      BY Zenon, <1>2, <3>2
         DEF rseq_memfd_create_init, MapInit, MapCpu, DontFork, WipeOnFork, create_alloc_bitmap,
             InitFunc, Fallible
    <3>3. CASE WriteMarker \/ rseq_memfd_close \/ ErrorClose \/ ErrorUnmap
      BY Zenon, <1>2, <3>3 DEF WriteMarker, rseq_memfd_close, ErrorClose, ErrorUnmap
    <3>4. CASE ErrorBitmap
      BY Zenon, <1>0, <1>2, <3>4 DEF ErrorBitmap, destroy_alloc_bitmap
    <3>5. CASE \/ \E q \in Ranges : AllocItem(q) \/ FreeItem(q)
               \/ \E q \in Process, t \in Ranges : MapForeign(q, t)
      BY Zenon, <1>2, <3>5 DEF AllocItem, FreeItem, MapForeign
    <3>6. CASE \E q \in Process : Destroy(q) \/ FreePool(q) \/ MunmapError(q) \/ Munmap(q)
      BY Zenon, <1>2, <3>6 DEF Destroy, FreePool, MunmapError, Munmap
    <3>7. ASSUME NEW q \in Process, CheckPool(q) PROVE ~aborted[p]
      BY Zenon, <1>0, <1>2, <3>7 DEF CheckPool
    <3>8. ASSUME NEW q \in Process, ListDel(q) PROVE ~aborted[p]
      BY Zenon, <1>0, <1>2, <3>8 DEF ListDel, destroy_alloc_bitmap
    <3>9. QED
      BY Zenon, <1>4, <3>1, <3>2, <3>3, <3>4, <3>5, <3>6, <3>7, <3>8 DEF Next
  <2>3. CASE r \notin alloc_bitmap[p]
    <3>1. create_alloc_bitmap
      <4>1. ASSUME NEW q \in Process, ListDel(q) PROVE FALSE
        BY Zenon, <1>0, <1>2, <2>3, <4>1 DEF ListDel, destroy_alloc_bitmap, Delete
      <4>2. ~ErrorBitmap
        BY Zenon, <1>0, <1>2, <2>3 DEF ErrorBitmap, destroy_alloc_bitmap, Delete
      <4>3. QED
        BY Zenon, <1>2, <1>4, <2>3, <4>1, <4>2, Frame
    <3>2. alloc_bitmap' = Insert(alloc_bitmap, Me, New) /\ pc'[Me] = AfterBitmap /\ range' = range
      BY Zenon, <1>0, <1>2, <2>3, <3>1 DEF create_alloc_bitmap, Fallible, mapvars, Goto
    <3>3. p = Me /\ r = New
      BY Zenon, <1>0, <1>2, <2>3, <3>2 DEF Insert
    <3>4. QED
      BY Zenon, <3>2, <3>3 DEF AfterBitmap, New
  <2>4. CASE r \in Listed(p) /\ r \in alloc_bitmap[p]
    <3>1. CASE ListDel(p)
      <4>1. r # Head(range_list[p])
        <5>1. \/ aborted' = [aborted EXCEPT ![p] = TRUE]
              \/ alloc_bitmap' = Delete(alloc_bitmap, p, Head(range_list[p]))
          BY Zenon, <3>1 DEF ListDel, destroy_alloc_bitmap
        <5>2. QED
          BY <1>0, <1>2, <5>1 DEF Delete
      <4>2. range_list'[p] = Tail(range_list[p]) /\ range_list[p] # << >>
        BY Zenon, <1>0, <3>1 DEF ListDel
      <4>3. r \in Elems(range_list'[p])
        <5>1. Elems(range_list[p]) = {Head(range_list[p])} \cup Elems(Tail(range_list[p]))
          BY Zenon, <1>0, <4>2, TailIs
        <5>2. QED
          BY Zenon, <1>0, <2>4, <4>1, <4>2, <5>1
      <4>4. QED
        BY Zenon, <1>0, <4>3
    <3>2. CASE ~ListDel(p)
      <4>1. CASE range_list'[p] = range_list[p]
        BY Zenon, <1>0, <2>4, <4>1
      <4>2. CASE ListAdd /\ range_list'[p] # range_list[p]
        <5>1. range_list'[p] = <<New>> \o range_list[p]
          BY Zenon, <1>0, <4>2 DEF ListAdd
        <5>2. Elems(range_list'[p]) = {New} \cup Elems(range_list[p])
          BY Zenon, <1>0, <5>1, ConsIs
        <5>3. QED
          BY <1>0, <2>4, <5>2
      <4>3. ASSUME NEW q \in Process, ListDel(q) \/ MunmapError(q)
            PROVE  range_list'[p] = range_list[p]
        BY Zenon, <1>0, <3>2, <4>3 DEF ListDel, MunmapError
      <4>4. QED
        BY Zenon, <1>4, <4>1, <4>2, <4>3, Frame
    <3>3. QED
      BY Zenon, <3>1, <3>2
  <2>5. CASE r \in Extra(p) /\ r \in alloc_bitmap[p]
    <3>1. p = Me /\ r = New /\ pc[Me] \in With /\ pc[Me] \in Creating
      BY Zenon, <2>5 DEF Creating
    <3>2. CASE ListAdd
      <4>1. range_list'[p] = <<New>> \o range_list[p]
        BY Zenon, <1>0, <3>1, <3>2 DEF ListAdd
      <4>2. New \in Elems(range_list'[p])
        BY <1>0, <4>1, ConsIs
      <4>3. QED
        BY Zenon, <1>0, <3>1, <4>2
    <3>3. CASE ErrorBitmap
      <4>1. \/ aborted' = [aborted EXCEPT ![Me] = TRUE]
            \/ alloc_bitmap' = [alloc_bitmap EXCEPT ![Me] = alloc_bitmap[Me] \ {New}]
        BY Zenon, <3>3 DEF ErrorBitmap, destroy_alloc_bitmap, Delete
      <4>2. aborted' # [aborted EXCEPT ![Me] = TRUE]
        BY Zenon, <1>0, <1>2, <3>1
      <4>3. alloc_bitmap'[Me] = alloc_bitmap[Me] \ {New}
        BY Zenon, <1>0, <4>1, <4>2, <3>1
      <4>4. QED
        BY Zenon, <1>2, <3>1, <4>3
    <3>4. CASE ~ListAdd /\ ~ErrorBitmap
      <4>1. pc'[Me] \in With
        <5> USE DEF At
        <5>1. \A l : Goto(Me, l) => pc'[Me] = l
          BY Zenon, <1>0 DEF Goto
        <5>2. CASE Create \/ CreateNoMemory \/ Grow \/ aligned_mmap_anonymous \/ Failed \/ Strdup
          BY Zenon, <3>1, <5>2 DEF Create, CreateNoMemory, Grow, aligned_mmap_anonymous, Failed, Strdup
        <5>3. CASE rseq_memfd_create_init \/ MapInit \/ MapCpu \/ DontFork \/ WipeOnFork
                   \/ create_alloc_bitmap
          BY Zenon, <3>1, <5>3
             DEF rseq_memfd_create_init, MapInit, MapCpu, DontFork, WipeOnFork, create_alloc_bitmap,
                 Fallible
        <5>4. CASE InitFunc \/ ErrorClose
          BY Zenon, <3>1, <5>1, <5>4 DEF InitFunc, ErrorClose, Fallible
        <5>5. CASE WriteMarker \/ rseq_memfd_close \/ ErrorUnmap
          BY Zenon, <3>1, <5>5 DEF WriteMarker, rseq_memfd_close, ErrorUnmap
        <5>6. CASE \/ \E q \in Ranges : AllocItem(q) \/ FreeItem(q)
                   \/ \E q \in Process, t \in Ranges : MapForeign(q, t)
          BY Zenon, <3>1, <5>6 DEF AllocItem, FreeItem, MapForeign
        <5>7. CASE \E q \in Process : Destroy(q) \/ CheckPool(q) \/ FreePool(q) \/ MunmapError(q)
          BY Zenon, <1>0, <3>1, <5>7 DEF Destroy, CheckPool, FreePool, MunmapError, Goto
        <5>8. CASE \E q \in Process : ListDel(q) \/ Munmap(q)
          BY Zenon, <1>0, <3>1, <5>8 DEF ListDel, Munmap, Goto
        <5>9. QED
          BY Zenon, <1>4, <3>4, <5>2, <5>3, <5>4, <5>5, <5>6, <5>7, <5>8 DEF Next
      <4>2. New' = New
        BY Zenon, <3>1, <4>1, RangesNext, <1>0 DEF Building, Creating, aligned_mmap_anonymous, At
      <4>3. QED
        BY Zenon, <3>1, <4>1, <4>2
    <3>5. QED
      BY Zenon, <3>2, <3>3, <3>4
  <2>6. alloc_bitmap[p] \subseteq Listed(p) \cup Left(p) \cup Extra(p)
    BY Zenon, <2>1, <2>2 DEF BitmapInv
  <2>7. QED
    BY Zenon, <2>1, <2>3, <2>4, <2>5, <2>6
<1>5. QED
  BY Zenon, <1>3, <1>4

\* If munmap() does not fail, a process that is in no call has mappings, a memfd
\* or a bitmap only of the ranges in its list: a creation that fails at any step
\* undoes the earlier ones, and a destroy leaves nothing.  A child may have those
\* of the range another thread was creating at the fork.
THEOREM NothingIsLeft == ASSUME ~MunmapFails PROVE Spec => []NothingLeft
<1> USE Constants
<1>1. ASSUME Init PROVE LeftInv
  BY Zenon, <1>1 DEF Init, LeftInv, FdInv, BitmapInv, OwnInv, ForBoth, Own
<1>2. ASSUME TypeOK, PoolInv, LeftInv, [Next]_vars PROVE LeftInv'
  <2>1. CASE Next
    BY Zenon, <1>2, <2>1, FdNext, BitmapNext, OwnNext DEF LeftInv
  <2>2. CASE UNCHANGED vars
    <3>1. /\ memfd' = memfd /\ alloc_bitmap' = alloc_bitmap /\ maps' = maps /\ pc' = pc
          /\ aborted' = aborted /\ orphan' = orphan /\ New' = New
          /\ \A p \in Process : /\ Listed(p)' = Listed(p) /\ Known(p)' = Known(p)
                                /\ Building(p)' = Building(p) /\ Left(p)' = Left(p)
      BY Zenon, <2>2 DEF vars, mapvars, poolvars, callvars, forkvars, Known, Building, Removing, Listed,
                         Left, New
    <3>2. FdInv' /\ BitmapInv'
      BY Zenon, <1>2, <3>1 DEF LeftInv, FdInv, BitmapInv
    <3>3. OwnInv'
      BY Zenon, <1>2, <3>1 DEF LeftInv, OwnInv
    <3>4. QED
      BY Zenon, <3>2, <3>3 DEF LeftInv
  <2>3. QED
    BY Zenon, <1>2, <2>1, <2>2
<1>3. ASSUME LeftInv PROVE NothingLeft
  <2>1. SUFFICES ASSUME NEW p \in Process, At(p, "idle")
                 PROVE  /\ memfd[p] \subseteq Left(p)
                        /\ \A r \in Ranges \ (Listed(p) \cup Left(p)) :
                              /\ r \notin alloc_bitmap[p]
                              /\ \A a \in Area : maps[p][r][a] \notin Own
    BY Zenon DEF NothingLeft
  <2>2. pc[p] = "idle" /\ ~aborted[p] /\ (p = Me \/ p = "child")
    BY Zenon, <2>1 DEF At, Process, Me
  <2>3. memfd[p] \subseteq Left(p)
    BY Zenon, <1>3, <2>2 DEF LeftInv, FdInv, Left
  <2>4. alloc_bitmap[p] \subseteq Listed(p) \cup Left(p)
    BY Zenon, <1>3, <2>2 DEF LeftInv, BitmapInv
  <2>5. Known(p) = Listed(p) /\ Building(p) = {}
    BY Zenon, <2>2 DEF Known, Removing, Building, Creating
  <2>6. \A r \in Ranges \ (Listed(p) \cup Left(p)), a \in Area : maps[p][r][a] \notin Own
    BY Zenon, <1>3, <2>2, <2>5 DEF LeftInv, OwnInv
  <2>7. QED
    BY Zenon, <2>3, <2>4, <2>6
<1>4. QED
  BY <1>1, <1>2, <1>3, RangesInvariant, PTL DEF Spec

\* No child ever shares the initial values of a range in its list with its parent.
THEOREM InitIsPrivate == Spec => []InitNotShared
<1> USE Constants
<1>1. DEFINE SharedInv == \A p \in Process, r \in Ranges, a \in Area :
                 maps[p][r][a] = "shared" => attr.cow_init /\ IsData(a)
<1>2. ASSUME Init PROVE SharedInv
  BY Zenon, <1>2 DEF Init, ForBoth
<1>3. ASSUME TypeOK, PoolInv, SharedInv, [Next]_vars PROVE SharedInv'
  <2>1. CASE UNCHANGED vars
    BY Zenon, <1>3, <2>1 DEF vars, mapvars
  <2>2. CASE Next
    <3>1. SUFFICES ASSUME NEW p \in Process, NEW r \in Ranges, NEW a \in Area,
                          maps'[p][r][a] = "shared"
                   PROVE  attr.cow_init /\ IsData(a)
      BY Zenon, <2>2, Frame
    <3>2. CASE Fork
      <4>1. maps[Me][r][a] = "shared"
        BY <1>3, <3>1, <3>2, ForkIs DEF Process, Me
      <4>2. QED
        BY Zenon, <1>3, <4>1
    <3>3. CASE ~Fork /\ maps'[p][r][a] # maps[p][r][a]
      <4>1. (MapInit \/ MapCpu) /\ IsData(a)
        <5>1. MapsStep(p, r, a)
          BY Zenon, <1>3, <2>2, <3>3, MapsNext DEF PoolInv
        <5>2. QED
          BY Zenon, <3>1, <5>1 DEF MapsStep
      <4>2. QED
        BY Zenon, <1>3, <4>1 DEF PoolInv, CallInv, MapInit, MapCpu, Fallible, At
    <3>4. QED
      BY Zenon, <1>3, <3>1, <3>2, <3>3
  <2>3. QED
    BY Zenon, <1>3, <2>1, <2>2
<1>4. ASSUME TypeOK, PoolInv, SharedInv PROVE InitNotShared
  <2>1. SUFFICES ASSUME NEW r \in Listed("child"), NEW a \in Area, maps["child"][r][a] = "shared"
                 PROVE  FALSE
    BY Zenon DEF InitNotShared
  <2>2. r \in Known("child") /\ r \in Ranges
    <3>1. \A k \in DOMAIN range_list["child"] : range_list["child"][k] \in Ranges
      BY <1>4 DEF TypeOK
    <3>2. QED
      BY Zenon, <3>1 DEF Known, Listed
  <2>3. attr.cow_init /\ IsData(a) /\ maps["child"][r][a] \in Own
    BY Zenon, <1>4, <2>1, <2>2 DEF Own
  <2>4. InRange(a, attr)
    BY Zenon, <1>4, <2>2, <2>3 DEF PoolInv, AreaInv
  <2>5. QED
    BY Zenon, <1>4, <2>2, <2>3, <2>4 DEF PoolInv, KnownInv, Accessible
<1>5. QED
  BY <1>2, <1>3, <1>4, RangesInvariant, PTL DEF Spec

=============================================================================
