--------------------------- MODULE RseqPseudocode ---------------------------
(***************************************************************************)
(* What the helpers promise: include/rseq/pseudocode.h, the reference for  *)
(* the architecture implementations, with each operation taking effect in  *)
(* one step.  A call ends in one of three ways.  Its final store happens   *)
(* together with all its loads and comparisons; or a comparison sends it   *)
(* to ne (eq) and nothing is stored to v; or it aborts.  Only the stores   *)
(* marked "attempt" may be seen of a call that does not commit.            *)
(***************************************************************************)
EXTENDS Integers

CONSTANTS Ctx, WordMod, MayCall(_, _, _, _, _)

VARIABLES mem, st, fn, arg
vars == <<mem, st, fn, arg>>

Plus(x, y) == (x + y) % WordMod
Op(k) == fn[k][1]

-----------------------------------------------------------------------------
(* The loads and comparisons of an operation lead to its final store.      *)
Falls(op, a, m) ==
    CASE op \in {"load_cbne_store", "load_cbne_store_store", "load_cbne_memcpy_store"}
           -> m[a.v] = a.expect
      [] op = "load_cbne_load_cbne_store"
           -> m[a.v] = a.expect /\ m[a.v2] = a.expect2
      [] op = "load_cbeq_store_add_load_store" -> m[a.v] # a.expectnot
      [] OTHER -> TRUE

rseq_load_cbne_store(a, m) == [m EXCEPT ![a.v] = a.newv]
rseq_load_add_store(a, m) == [m EXCEPT ![a.v] = Plus(@, a.count)]
rseq_load_cbeq_store_add_load_store(a, m) ==
    LET r1 == m[a.v]
    IN  [m EXCEPT ![a.load] = r1, ![a.v] = m[Plus(r1, a.voffp)]]
rseq_load_add_load_load_add_store(a, m) ==
    LET r2 == m[Plus(m[a.ptr], a.off)]
    IN  [m EXCEPT ![r2] = Plus(@, a.inc)]
rseq_load_cbne_load_cbne_store(a, m) == [m EXCEPT ![a.v] = a.newv]
rseq_load_cbne_store_store(a, m) == [m EXCEPT ![a.v2] = a.newv2, ![a.v] = a.newv]
rseq_load_cbne_memcpy_store(a, m) ==
    [x \in DOMAIN m |-> IF x = a.v THEN a.newv
                        ELSE IF x \in a.dst .. a.dst + a.len - 1
                          THEN m[a.src + (x - a.dst)] ELSE m[x]]

Effect(op, a, m) ==
    CASE op = "load_cbne_store" -> rseq_load_cbne_store(a, m)
      [] op = "load_add_store" -> rseq_load_add_store(a, m)
      [] op = "load_cbeq_store_add_load_store"
           -> rseq_load_cbeq_store_add_load_store(a, m)
      [] op = "load_add_load_load_add_store" -> rseq_load_add_load_load_add_store(a, m)
      [] op = "load_cbne_load_cbne_store" -> rseq_load_cbne_load_cbne_store(a, m)
      [] op = "load_cbne_store_store" -> rseq_load_cbne_store_store(a, m)
      [] op = "load_cbne_memcpy_store" -> rseq_load_cbne_memcpy_store(a, m)

\* Memory after a "store attempt", one store at a time.
Attempts(op, a, m) ==
    CASE op = "load_cbne_store_store" -> {[m EXCEPT ![a.v2] = a.newv2]}
      [] op = "load_cbeq_store_add_load_store" -> {[m EXCEPT ![a.load] = m[a.v]]}
      [] op = "load_cbne_memcpy_store"
           -> {[m EXCEPT ![a.dst + i] = m[a.src + i]] : i \in 0 .. a.len - 1}
      [] OTHER -> {}

-----------------------------------------------------------------------------
Init == st = [k \in Ctx |-> "idle"]

Call(k) ==
    /\ st[k] = "idle"
    /\ \E s \in {"pending", "done"} : st' = [st EXCEPT ![k] = s]
    /\ MayCall(k, fn'[k], arg'[k], mem, mem')
    /\ \A j \in Ctx \ {k} : fn'[j] = fn[j] /\ arg'[j] = arg[j]

Goto(k, s) == st' = [st EXCEPT ![k] = s] /\ UNCHANGED <<fn, arg>>

Attempt(k) ==
    /\ st[k] = "pending"
    /\ Falls(Op(k), arg[k], mem)
    /\ mem' \in Attempts(Op(k), arg[k], mem)
    /\ UNCHANGED <<st, fn, arg>>

Commit(k) ==
    /\ st[k] = "pending"
    /\ Falls(Op(k), arg[k], mem)
    /\ mem' = Effect(Op(k), arg[k], mem)
    /\ Goto(k, "commit")

Differ(k) ==
    /\ st[k] = "pending"
    /\ ~Falls(Op(k), arg[k], mem)
    /\ UNCHANGED mem
    /\ Goto(k, IF Op(k) = "load_cbeq_store_add_load_store" THEN "eq" ELSE "ne")

Abort(k) ==
    /\ st[k] = "pending"
    /\ UNCHANGED mem
    /\ Goto(k, "abort")

Leave(k) ==
    /\ UNCHANGED mem
    /\ \/ st[k] \in {"commit", "abort", "ne", "eq"} /\ Goto(k, "done")
       \/ /\ st[k] = "done"
          /\ st' = [st EXCEPT ![k] = "idle"]
          /\ \A j \in Ctx \ {k} : fn'[j] = fn[j] /\ arg'[j] = arg[j]

Next == \E k \in Ctx : Call(k) \/ Attempt(k) \/ Commit(k) \/ Differ(k) \/ Abort(k) \/ Leave(k)

Spec == Init /\ [][Next]_vars
=============================================================================
