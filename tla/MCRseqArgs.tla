----------------------------- MODULE MCRseqArgs -----------------------------
(***************************************************************************)
(* What TLC runs the helpers on: a small memory, the arguments of a call   *)
(* and sets of helpers.                                                    *)
(***************************************************************************)
EXTENDS Integers, RseqArch

CONSTANTS t1, t2

MemWords == 16

\* Words of CPU c: the word helpers commit to, and two more.
V(c) == 1 + 3 * c
D1(c) == 2 + 3 * c
\* Two words private to a context.
Mine(k) == 7 + (IF k[1] = t1 THEN 0 ELSE 4) + (IF k[2] = "main" THEN 0 ELSE 2)

MCMemory0 == [x \in 0 .. MemWords - 1 |->
                CASE x \in {1, 4} -> x + 1      \* v points to d1
                  [] x \in {2, 5} -> x + 1      \* d1 points to d2
                  [] x \in 7 .. 14 -> x
                  [] OTHER -> 0]

Flip(c, m) == IF m[V(c)] = 0 THEN D1(c) ELSE 0

\* Arguments of a call: the expected values are read beforehand, the new value
\* brings an old one back, and private words identify their owner.
MCArgs(f, c, k, m) ==
    CASE f[1] = "load_cbne_store" ->
           {[cpu |-> c, v |-> V(c), expect |-> m[V(c)], newv |-> Flip(c, m)]}
      [] f[1] = "load_add_store" -> {[cpu |-> c, v |-> V(c), count |-> MemWords - 1]}
      [] f[1] = "load_cbeq_store_add_load_store" ->
           {[cpu |-> c, v |-> V(c), expectnot |-> 0, voffp |-> 0, load |-> Mine(k)]}
      [] f[1] = "load_add_load_load_add_store" ->
           {[cpu |-> c, ptr |-> V(c), off |-> 0, inc |-> 1]}
      [] f[1] = "load_cbne_load_cbne_store" ->
           {[cpu |-> c, v |-> V(c), expect |-> m[V(c)], v2 |-> D1(c),
             expect2 |-> m[D1(c)], newv |-> Flip(c, m)]}
      [] f[1] = "load_cbne_store_store" ->
           {[cpu |-> c, v |-> V(c), expect |-> m[V(c)], v2 |-> D1(c),
             newv2 |-> Mine(k), newv |-> Flip(c, m)]}
      [] f[1] = "load_cbne_memcpy_store" ->
           {[cpu |-> c, v |-> V(c), expect |-> m[V(c)], dst |-> D1(c),
             src |-> Mine(k), len |-> IF c = 0 THEN 2 ELSE 0, newv |-> Flip(c, m)]}

MCPrep(f, c, k, m) == {[arg |-> a, mem |-> m] : a \in MCArgs(f, c, k, m)}

\* One helper per behaviour: those with a single store, those that store to
\* other words first, all of them.
StoreHelpers == UNION {Codes({f}) : f \in (RelaxedOnly \X {"relaxed"}) \cup {AddLoadLoadAdd}}
AttemptHelpers == UNION {Codes({f}) : f \in RelaxedOrRelease \X {"relaxed", "release"}}
AllHelpers == StoreHelpers \cup AttemptHelpers
CbneStoreHelpers == Codes({<<"load_cbne_store", "relaxed">>})
AddStoreHelpers == Codes({<<"load_add_store", "relaxed">>})
CbneStoreRelease == {<<"load_cbne_store", "release">>}
TwoThreads == {t1, t2}

=============================================================================
