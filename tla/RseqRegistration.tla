-------------------------- MODULE RseqRegistration --------------------------
(***************************************************************************)
(* rseq.c: who owns the registration of struct rseq_abi, glibc or librseq, *)
(* and what threads that register and unregister see of each other.  The   *)
(* public symbols rseq_size and rseq_offset, the ownership flag and        *)
(* init_done are shared by the threads; only init_done is tested under     *)
(* init_lock.  Steps are the reads, writes and system calls of the code.   *)
(***************************************************************************)
EXTENDS Integers

CONSTANTS
    Thread,       \* threads of the process
    Loader,       \* the one that runs the constructors and destructors
    Features,     \* values of getauxval(AT_RSEQ_FEATURE_SIZE)
    UintMod,      \* 2^w for unsigned int of w bits
    Constructor,  \* TRUE if no thread calls before rseq_init() ran at load
    MaxCalls      \* calls per thread (bound)

RSEQ_THREAD_AREA_ALLOC_SIZE == 1024
ORIG_RSEQ_FEATURE_SIZE == 20
ORIG_RSEQ_ALLOC_SIZE == 32
MinusOne == UintMod - 1                 \* -1U
Int32(x) == IF 2 * x < UintMod THEN x ELSE x - UintMod

\* The kernel offers at least the original fields or says nothing, and
\* get_rseq_kernel_feature_size() asserts the upper bound.
ASSUME RegistrationAssumption ==
    /\ Loader \in Thread
    /\ Features \subseteq {0} \cup ORIG_RSEQ_FEATURE_SIZE .. RSEQ_THREAD_AREA_ALLOC_SIZE
    /\ UintMod \in Nat /\ UintMod > 2 * RSEQ_THREAD_AREA_ALLOC_SIZE
    /\ Constructor \in BOOLEAN /\ MaxCalls \in Nat

Location ==
    {"idle", "check", "lock", "locked", "write", "unlock", "owner", "size",
     "register", "registered", "failed", "publish", "unowner", "unsize",
     "unregister"}
Symbol == {"ownership", "offset", "size"}

VARIABLES
    auxv,        \* getauxval(AT_RSEQ_FEATURE_SIZE)
    libc,        \* glibc's __rseq_size, 0 if it does not own the registration
    enosys,      \* TRUE if the kernel has no rseq system call
    kreg,        \* length each thread is registered with in the kernel, or 0
    init_done, init_lock, rseq_ownership, rseq_offset, rseq_size,
    unwritten,   \* symbols the thread inside rseq_init() has yet to write
    ctor,        \* the constructor: "todo", "run", "done"; "exit" after rseq_exit()
    pc, len,     \* of each thread: where it is, the length it has computed
    user,        \* threads whose registration returned 0, until they unregister
    unfailed,    \* threads whose unregistration returned -1
    aborted,     \* abort() was called
    calls

envvars == <<auxv, libc, enosys>>
libvars == <<init_done, init_lock, rseq_ownership, rseq_offset, rseq_size, unwritten>>
uservars == <<user, unfailed, aborted, calls>>
vars == <<envvars, libvars, uservars, kreg, ctor, pc, len>>

get_rseq_kernel_feature_size == IF auxv # 0 THEN auxv ELSE ORIG_RSEQ_FEATURE_SIZE

\* glibc owns the registration with the size it knows of: 32 or 20 for the
\* versions that do not query the kernel, what the kernel says for others.  It
\* registers every thread with an area of at least 32 bytes.
Init ==
    /\ auxv \in Features
    /\ enosys \in BOOLEAN
    /\ libc \in {0} \cup (IF enosys THEN {} ELSE {ORIG_RSEQ_FEATURE_SIZE, ORIG_RSEQ_ALLOC_SIZE, auxv})
    /\ kreg = [t \in Thread |->
                 CASE libc = 0 -> 0
                   [] libc # 0 /\ libc < ORIG_RSEQ_ALLOC_SIZE -> ORIG_RSEQ_ALLOC_SIZE
                   [] OTHER -> libc]
    /\ init_done = FALSE /\ init_lock = {} /\ unwritten = {}
    /\ rseq_ownership = FALSE /\ rseq_offset = "none" /\ rseq_size = MinusOne
    /\ ctor = "todo"
    /\ pc = [t \in Thread |-> "idle"]
    /\ len = [t \in Thread |-> 0]
    /\ user = {} /\ unfailed = {} /\ aborted = FALSE
    /\ calls = [t \in Thread |-> 0]

-----------------------------------------------------------------------------
Goto(t, l) == pc' = [pc EXCEPT ![t] = l]
At(t, l) == ~aborted /\ pc[t] = l

\* The constructor and the call at the head of rseq_register_current_thread().
Construct ==
    /\ ctor = "todo" /\ At(Loader, "idle")
    /\ ctor' = "run"
    /\ Goto(Loader, "check")
    /\ UNCHANGED <<envvars, libvars, uservars, kreg, len>>

MayCall(t) ==
    /\ At(t, "idle") /\ ctor # "exit" /\ (Constructor => ctor = "done")
    /\ calls[t] < MaxCalls

rseq_register_current_thread(t) ==
    /\ MayCall(t) /\ t \notin user
    /\ calls' = [calls EXCEPT ![t] = @ + 1]
    /\ Goto(t, "check")
    /\ UNCHANGED <<envvars, libvars, kreg, ctor, len, user, unfailed, aborted>>

\* rseq_init() returns to the loader or to the registration.
InitReturns(t) ==
    IF t = Loader /\ ctor = "run" THEN Goto(t, "idle") /\ ctor' = "done"
                                  ELSE Goto(t, "owner") /\ UNCHANGED ctor

CheckInitDone(t) ==
    /\ At(t, "check")
    /\ IF init_done THEN InitReturns(t) ELSE Goto(t, "lock") /\ UNCHANGED ctor
    /\ UNCHANGED <<envvars, libvars, uservars, kreg, len>>

Lock(t) ==
    /\ At(t, "lock") /\ init_lock = {}
    /\ init_lock' = {t}
    /\ Goto(t, "locked")
    /\ UNCHANGED <<envvars, init_done, rseq_ownership, rseq_offset, rseq_size, unwritten,
                   uservars, kreg, ctor, len>>

\* Mutant: the flag is not tested again under the mutex.
SetInitDoneUntested(t) ==
    /\ At(t, "locked")
    /\ init_done' = TRUE
    /\ unwritten' = IF libc # 0 THEN Symbol \ {"ownership"} ELSE Symbol
    /\ Goto(t, "write")
    /\ UNCHANGED <<envvars, init_lock, rseq_ownership, rseq_offset, rseq_size, uservars, kreg,
                   ctor, len>>

SetInitDone(t) ==
    /\ At(t, "locked")
    /\ IF init_done THEN Goto(t, "unlock") /\ UNCHANGED <<init_done, unwritten>>
       ELSE /\ init_done' = TRUE
            /\ unwritten' = IF libc # 0 THEN Symbol \ {"ownership"} ELSE Symbol
            /\ Goto(t, "write")
    /\ UNCHANGED <<envvars, init_lock, rseq_ownership, rseq_offset, rseq_size, uservars, kreg,
                   ctor, len>>

Least(a, b) == IF a < b THEN a ELSE b

\* Mutant: 32 is taken for the size of a feature set.
SizeAsExposed ==
    IF libc = 0 THEN 0
    ELSE IF libc = ORIG_RSEQ_FEATURE_SIZE
           THEN Least(ORIG_RSEQ_ALLOC_SIZE, get_rseq_kernel_feature_size)
           ELSE libc

InitialSize ==
    IF libc = 0 THEN 0
    ELSE IF libc \in {ORIG_RSEQ_FEATURE_SIZE, ORIG_RSEQ_ALLOC_SIZE}
           THEN Least(ORIG_RSEQ_ALLOC_SIZE, get_rseq_kernel_feature_size)
           ELSE libc

\* The symbols are plain variables other threads read: the build may order
\* the stores in any way.
WriteSymbol(t) ==
    /\ At(t, "write")
    /\ \E s \in unwritten :
          /\ unwritten' = unwritten \ {s}
          /\ rseq_ownership' = IF s = "ownership" THEN TRUE ELSE rseq_ownership
          /\ rseq_offset' = IF s # "offset" THEN rseq_offset
                            ELSE IF libc # 0 THEN "libc" ELSE "librseq"
          /\ rseq_size' = IF s = "size" THEN InitialSize ELSE rseq_size
          /\ Goto(t, IF unwritten = {s} THEN "unlock" ELSE "write")
    /\ UNCHANGED <<envvars, init_done, init_lock, uservars, kreg, ctor, len>>

Unlock(t) ==
    /\ At(t, "unlock")
    /\ init_lock' = {}
    /\ InitReturns(t)
    /\ UNCHANGED <<envvars, init_done, rseq_ownership, rseq_offset, rseq_size, unwritten,
                   uservars, kreg, len>>

-----------------------------------------------------------------------------
\* A registration or unregistration ends and returns 0.
Succeed(t, u) ==
    /\ Goto(t, "idle")
    /\ user' = u
    /\ UNCHANGED <<unfailed, aborted, calls>>

\* Mutants: the flag is tested the wrong way round; the length is what the
\* process has published; the first registration publishes nothing.
NotOwner(t) ==
    /\ At(t, "owner")
    /\ IF rseq_ownership THEN Succeed(t, user \cup {t})
                         ELSE Goto(t, "size") /\ UNCHANGED uservars
    /\ UNCHANGED <<envvars, libvars, kreg, ctor, len>>
PublishedSize == IF rseq_size = 0 THEN ORIG_RSEQ_ALLOC_SIZE ELSE rseq_size
NeverPublish(t) ==
    /\ At(t, "registered")
    /\ Succeed(t, user \cup {t})
    /\ UNCHANGED <<envvars, libvars, kreg, ctor, len>>
AbortOnFailure(t) ==
    /\ At(t, "failed")
    /\ aborted' = TRUE /\ UNCHANGED <<pc, user, unfailed, calls>>
    /\ UNCHANGED <<envvars, libvars, kreg, ctor, len>>

TestOwnership(t) ==
    /\ At(t, "owner")
    /\ IF rseq_ownership THEN Goto(t, "size") /\ UNCHANGED uservars
                         ELSE Succeed(t, user \cup {t})
    /\ UNCHANGED <<envvars, libvars, kreg, ctor, len>>

get_rseq_min_alloc_size ==
    IF rseq_size < ORIG_RSEQ_ALLOC_SIZE THEN ORIG_RSEQ_ALLOC_SIZE ELSE rseq_size

ReadSize(t) ==
    /\ At(t, "size")
    /\ len' = [len EXCEPT ![t] = get_rseq_min_alloc_size]
    /\ Goto(t, "register")
    /\ UNCHANGED <<envvars, libvars, uservars, kreg, ctor>>

\* The kernel (external) registers a thread once, with a length that covers the
\* original structure and stays inside the address space.
SysRegister(t) ==
    /\ At(t, "register")
    /\ IF /\ ~enosys /\ kreg[t] = 0
          /\ len[t] \in ORIG_RSEQ_ALLOC_SIZE .. RSEQ_THREAD_AREA_ALLOC_SIZE
         THEN kreg' = [kreg EXCEPT ![t] = len[t]] /\ Goto(t, "registered")
         ELSE UNCHANGED kreg /\ Goto(t, "failed")
    /\ UNCHANGED <<envvars, libvars, uservars, ctor, len>>

RegisterFailed(t) ==
    /\ At(t, "failed")
    /\ IF rseq_size > 0 THEN aborted' = TRUE /\ UNCHANGED <<pc, user, unfailed, calls>>
                        ELSE Goto(t, "idle") /\ UNCHANGED uservars
    /\ UNCHANGED <<envvars, libvars, kreg, ctor, len>>

TestSize(t) ==
    /\ At(t, "registered")
    /\ IF rseq_size = 0 THEN Goto(t, "publish") /\ UNCHANGED uservars
                        ELSE Succeed(t, user \cup {t})
    /\ UNCHANGED <<envvars, libvars, kreg, ctor, len>>

PublishSize(t) ==
    /\ At(t, "publish")
    /\ rseq_size' = get_rseq_kernel_feature_size
    /\ Succeed(t, user \cup {t})
    /\ UNCHANGED <<envvars, init_done, init_lock, rseq_ownership, rseq_offset, unwritten,
                   kreg, ctor, len>>

rseq_unregister_current_thread(t) ==
    /\ MayCall(t) /\ t \in user
    /\ calls' = [calls EXCEPT ![t] = @ + 1]
    /\ Goto(t, "unowner")
    /\ UNCHANGED <<envvars, libvars, kreg, ctor, len, user, unfailed, aborted>>

TestOwnershipUnregister(t) ==
    /\ At(t, "unowner")
    /\ IF rseq_ownership THEN Goto(t, "unsize") /\ UNCHANGED uservars
                         ELSE Succeed(t, user \ {t})
    /\ UNCHANGED <<envvars, libvars, kreg, ctor, len>>

ReadSizeUnregister(t) ==
    /\ At(t, "unsize")
    /\ len' = [len EXCEPT ![t] = get_rseq_min_alloc_size]
    /\ Goto(t, "unregister")
    /\ UNCHANGED <<envvars, libvars, uservars, kreg, ctor>>

\* The kernel unregisters the registration it has, of the length it has.
SysUnregister(t) ==
    /\ At(t, "unregister")
    /\ IF ~enosys /\ kreg[t] = len[t]
         THEN kreg' = [kreg EXCEPT ![t] = 0] /\ Succeed(t, user \ {t})
         ELSE /\ unfailed' = unfailed \cup {t} /\ Goto(t, "idle")
              /\ UNCHANGED <<kreg, user, aborted, calls>>
    /\ UNCHANGED <<envvars, libvars, ctor, len>>

\* The destructor, when no thread calls any more.
rseq_exit ==
    /\ ctor = "done" /\ \A t \in Thread : At(t, "idle")
    /\ ctor' = "exit"
    /\ IF rseq_ownership
         THEN rseq_offset' = "none" /\ rseq_size' = MinusOne /\ rseq_ownership' = FALSE
         ELSE UNCHANGED <<rseq_offset, rseq_size, rseq_ownership>>
    /\ UNCHANGED <<envvars, init_done, init_lock, unwritten, uservars, kreg, pc, len>>

Step(t) ==
    \/ CheckInitDone(t) \/ Lock(t) \/ SetInitDone(t) \/ WriteSymbol(t) \/ Unlock(t)
    \/ TestOwnership(t) \/ ReadSize(t) \/ SysRegister(t) \/ RegisterFailed(t)
    \/ TestSize(t) \/ PublishSize(t)
    \/ TestOwnershipUnregister(t) \/ ReadSizeUnregister(t) \/ SysUnregister(t)

Call(t) == rseq_register_current_thread(t) \/ rseq_unregister_current_thread(t)

Next == Construct \/ rseq_exit \/ \E t \in Thread : Call(t) \/ Step(t)

Spec == Init /\ [][Next]_vars

-----------------------------------------------------------------------------
\* The state has its types: rseq_size, -1U until it is initialized and after the
\* destructor, is an unsigned int.
TypeOK ==
    /\ auxv \in Features /\ libc \in 0 .. RSEQ_THREAD_AREA_ALLOC_SIZE /\ enosys \in BOOLEAN
    /\ kreg \in [Thread -> Nat]
    /\ init_done \in BOOLEAN /\ init_lock \in SUBSET Thread
    /\ rseq_ownership \in BOOLEAN /\ rseq_offset \in {"none", "libc", "librseq"}
    /\ rseq_size \in 0 .. MinusOne
    /\ unwritten \in SUBSET Symbol
    /\ ctor \in {"todo", "run", "done", "exit"}
    /\ pc \in [Thread -> Location] /\ len \in [Thread -> Nat]
    /\ user \in SUBSET Thread /\ unfailed \in SUBSET Thread /\ aborted \in BOOLEAN
    /\ calls \in [Thread -> 0 .. MaxCalls]

\* The caller's view and the kernel's agree: a thread that was told its
\* registration succeeded is registered, and rseq_get_abi() finds the structure
\* its owner registered (until the destructor).
RegisteredOnSuccess ==
    ctor # "exit" =>
        \A t \in user : pc[t] = "idle" =>
            /\ kreg[t] # 0
            /\ rseq_offset = IF libc # 0 THEN "libc" ELSE "librseq"

\* rseq.c:167-169: "After at least one thread has registered successfully
\* (rseq_size > 0), the registration of other threads should never fail."
\* rseq_register_current_thread() never meets the failure it aborts on.
NoAbort == ~aborted

\* A thread that was told its registration succeeded finds the feature set of
\* the kernel published, whichever thread was first.
SizePublished ==
    ctor # "exit" /\ libc = 0 => \A t \in user : rseq_size = get_rseq_kernel_feature_size

\* Unregistering a thread that registered succeeds, whatever other threads
\* published in between.
UnregisterSucceeds == unfailed = {}

rseq_node_id_available == Int32(rseq_size) >= 24
rseq_mm_cid_available == Int32(rseq_size) >= 28
rseq_available_libc == rseq_size # 0 /\ ~rseq_ownership

\* At every moment, before the initialization and after the destructor
\* included, the fields the queries of rseq.h say are available are fields the
\* kernel writes; and a thread that asks after the constructor learns who owns
\* the registration.
QueriesSound ==
    /\ rseq_node_id_available => get_rseq_kernel_feature_size >= 24
    /\ rseq_mm_cid_available => get_rseq_kernel_feature_size >= 28
    /\ ctor = "done" /\ unwritten = {} => (rseq_available_libc <=> libc # 0)

\* rseq.c:217-218: "Take the mutex, check the initialization flag again and
\* atomically set it to ensure we are the only thread doing the initialization."
\* A second initialization would take back the size a registered thread has
\* published: it is written once, and stays until the destructor.
SizeStable ==
    [][rseq_size = get_rseq_kernel_feature_size /\ ctor' # "exit" => UNCHANGED rseq_size]_vars

=============================================================================
