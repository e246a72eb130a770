--------------------------- MODULE RseqMempoolCow ---------------------------
(***************************************************************************)
(* Initialization of items of a COW_INIT pool against the copy-on-write of *)
(* the page they share.  rseq_percpu_init_item() stores the initial values *)
(* word by word, then compares what each CPU sees with them and stores     *)
(* where it differs.  The owner of another item on the page stores to it   *)
(* meanwhile, and the first store through a CPU's mapping copies the page. *)
(*                                                                         *)
(* The kernel's part, as far as the code relies on it: a write fault       *)
(* copies the page of initial values, word by word, and then installs the  *)
(* copy if the mapping has not changed.  While the page of a CPU is not    *)
(* mapped, other accesses through it wait for the copy; once a read has    *)
(* mapped it, they read the initial values until the copy is installed.    *)
(***************************************************************************)
EXTENDS Integers, Sequences

CONSTANTS
    NThread,         \* thread t owns item t
    NCpu,            \* attr.max_nr_cpus
    ItemLen,         \* words of an item
    Scenarios        \* of [kind, atomic]: what each thread calls, and whether
                     \* the copy of a mapped page is taken to be atomic

Thread == 0 .. NThread - 1
Cpu == 0 .. NCpu - 1
PageLen == NThread * ItemLen
Page == 1 .. PageLen
First(t) == t * ItemLen + 1
Last(t) == (t + 1) * ItemLen
Kind == {"malloc", "zmalloc", "malloc_init"}
Word == {"old", "zero", "init", "user"}
Pte == {"none", "ro", "rw"}

CowAssumption ==
    /\ NThread \in Nat \ {0} /\ NCpu \in Nat \ {0} /\ ItemLen \in Nat \ {0}
    /\ Scenarios \subseteq [kind : [Thread -> Kind], atomic : BOOLEAN]

VARIABLES
    scenario,
    init,            \* the initial values
    private,         \* the copy of each CPU, once there is one
    pte,             \* how each CPU's page is mapped
    pc, cpu, word,   \* of each thread: where its loops are
    fault,           \* of each thread: the write fault it is in, as a sequence
    stored           \* the <<cpu, word>> the owner has stored to

loopvars == <<pc, cpu, word>>
memvars == <<init, private, pte>>
vars == <<scenario, memvars, loopvars, fault, stored>>

Kinds(t) == scenario.kind[t]
Value(t) == IF Kinds(t) = "zmalloc" THEN "zero" ELSE "init"

Init ==
    /\ scenario \in Scenarios
    /\ init = [k \in Page |-> "old"]
    /\ private = [c \in Cpu |-> [k \in Page |-> "old"]]
    /\ pte = [c \in Cpu |-> "none"]
    /\ pc = [t \in Thread |-> IF Kinds(t) = "malloc" THEN "use" ELSE "init"]
    /\ cpu = [t \in Thread |-> 0]
    /\ word = [t \in Thread |-> First(t)]
    /\ fault = [t \in Thread |-> << >>]
    /\ stored = {}

View(c, k) == IF pte[c] = "rw" THEN private[c][k] ELSE init[k]

At(t, l) == pc[t] = l /\ fault[t] = << >>

\* One word further, or back to the first word at location l and CPU c.
NextWord(t, l, c) ==
    IF word[t] < Last(t)
      THEN word' = [word EXCEPT ![t] = @ + 1] /\ UNCHANGED <<pc, cpu>>
      ELSE /\ word' = [word EXCEPT ![t] = First(t)]
           /\ pc' = [pc EXCEPT ![t] = l]
           /\ cpu' = [cpu EXCEPT ![t] = c]

\* After CPU c: the next one, or the end of the call.
NextCpu(t) == IF cpu[t] + 1 < NCpu THEN "compare" ELSE "use"

-----------------------------------------------------------------------------
\* memcpy(init_p, init_ptr, init_len), or bzero().
StoreInit(t) ==
    /\ At(t, "init")
    /\ init' = [init EXCEPT ![word[t]] = Value(t)]
    /\ NextWord(t, "compare", 0)
    /\ UNCHANGED <<scenario, private, pte, fault, stored>>


\* memcmp(init_ptr, p, init_len): the read maps the page, after a copy that has
\* begun; a word that differs ends the comparison and the item is stored.
Compare(t) ==
    LET c == cpu[t]
    IN  /\ At(t, "compare")
        /\ pte[c] = "none" =>
              \A u \in Thread : fault[u] # << >> => Head(fault[u]) # <<c, "none">>
        /\ pte' = [pte EXCEPT ![c] = IF @ = "none" THEN "ro" ELSE @]
        /\ IF View(c, word[t]) = Value(t)
             THEN NextWord(t, NextCpu(t), c + 1)
             ELSE /\ pc' = [pc EXCEPT ![t] = "memcpy"]
                  /\ word' = [word EXCEPT ![t] = First(t)]
                  /\ UNCHANGED cpu
        /\ UNCHANGED <<scenario, init, private, fault, stored>>

\* memcpy(p, init_ptr, init_len), to a page that is private.
StoreCpu(t) ==
    /\ At(t, "memcpy") /\ pte[cpu[t]] = "rw"
    /\ private' = [private EXCEPT ![cpu[t]][word[t]] = Value(t)]
    /\ NextWord(t, NextCpu(t), cpu[t] + 1)
    /\ UNCHANGED <<scenario, init, pte, fault, stored>>

\* The call has returned: the owner stores to the first word of its item on
\* CPU c.
Use(t, c) ==
    /\ At(t, "use") /\ pte[c] = "rw" /\ <<c, First(t)>> \notin stored
    /\ private' = [private EXCEPT ![c][First(t)] = "user"]
    /\ stored' = stored \cup {<<c, First(t)>>}
    /\ UNCHANGED <<scenario, init, pte, loopvars, fault>>

-----------------------------------------------------------------------------
\* The kernel.  A store to a page that is not private faults; the fault of a
\* page that is not mapped waits for another one.
WantsStore(t, c) ==
    \/ At(t, "memcpy") /\ c = cpu[t]
    \/ At(t, "use") /\ <<c, First(t)>> \notin stored

BeginFault(t, c) ==
    /\ WantsStore(t, c) /\ pte[c] # "rw"
    /\ pte[c] = "none" =>
          \A u \in Thread : fault[u] # << >> => Head(fault[u]) # <<c, "none">>
    /\ ~(scenario.atomic /\ pte[c] = "ro")
    /\ fault' = [fault EXCEPT ![t] = << <<c, pte[c]>> >>]
    /\ UNCHANGED <<scenario, memvars, loopvars, stored>>

CopyWord(t) ==
    /\ fault[t] # << >> /\ Len(fault[t]) <= PageLen
    /\ fault' = [fault EXCEPT ![t] = Append(@, init[Len(@)])]
    /\ UNCHANGED <<scenario, memvars, loopvars, stored>>

\* The copy is dropped, and the store tried again, if the mapping has changed.
InstallCopy(t) ==
    /\ Len(fault[t]) = PageLen + 1
    /\ LET c == fault[t][1][1]
       IN  IF pte[c] = fault[t][1][2]
             THEN /\ private' = [private EXCEPT ![c] = [k \in Page |-> fault[t][k + 1]]]
                  /\ pte' = [pte EXCEPT ![c] = "rw"]
             ELSE UNCHANGED <<private, pte>>
    /\ fault' = [fault EXCEPT ![t] = << >>]
    /\ UNCHANGED <<scenario, init, loopvars, stored>>

AtomicCopy(t, c) ==
    /\ scenario.atomic /\ WantsStore(t, c) /\ pte[c] = "ro"
    /\ private' = [private EXCEPT ![c] = init]
    /\ pte' = [pte EXCEPT ![c] = "rw"]
    /\ UNCHANGED <<scenario, init, loopvars, fault, stored>>

Next ==
    \E t \in Thread :
        \/ StoreInit(t) \/ Compare(t) \/ StoreCpu(t) \/ CopyWord(t) \/ InstallCopy(t)
        \/ \E c \in Cpu : Use(t, c) \/ BeginFault(t, c) \/ AtomicCopy(t, c)

Spec == Init /\ [][Next]_vars

-----------------------------------------------------------------------------
\* Type correctness.
TypeOK ==
    /\ scenario \in Scenarios
    /\ init \in [Page -> Word]
    /\ private \in [Cpu -> [Page -> Word]]
    /\ pte \in [Cpu -> Pte]
    /\ pc \in [Thread -> {"init", "compare", "memcpy", "use"}]
    /\ cpu \in [Thread -> 0 .. NCpu]
    /\ \A t \in Thread : word[t] \in First(t) .. Last(t)
    /\ \A t \in Thread : Len(fault[t]) \in 0 .. PageLen + 1
    /\ stored \subseteq Cpu \X Page


=============================================================================
