----------------------- MODULE RseqRegistrationProofs -----------------------
(***************************************************************************)
(* Registration after the constructor, for any number of threads and any   *)
(* kernel feature sizes.                                                   *)
(***************************************************************************)
EXTENDS RseqRegistration, TLAPS

Owner == IF libc # 0 THEN "libc" ELSE "librseq"
Feature == get_rseq_kernel_feature_size
Initializing == {"check", "lock", "locked", "write", "unlock"}

\* What rseq_init() has written when it returns.
Initialised ==
    /\ init_done /\ unwritten = {} /\ (rseq_ownership <=> libc = 0) /\ rseq_offset = Owner
    /\ libc = 0 => rseq_size \in {0, Feature}

\* Until the constructor has run only the loader is inside the library.
Loading ==
    /\ user = {}
    /\ \A t \in Thread : libc = 0 => kreg[t] = 0
    /\ \A t \in Thread \ {Loader} : pc[t] = "idle"
    /\ ctor = "todo" => pc[Loader] = "idle" /\ ~init_done /\ ~rseq_ownership
    /\ ctor = "run" =>
         /\ pc[Loader] \in Initializing
         /\ pc[Loader] \in {"check", "lock", "locked"} => ~init_done /\ ~rseq_ownership
         /\ pc[Loader] = "write" =>
              /\ init_done /\ unwritten # {}
              /\ "ownership" \in unwritten => libc = 0
              /\ "ownership" \notin unwritten => (rseq_ownership <=> libc = 0)
              /\ "ownership" \in unwritten => ~rseq_ownership
              /\ "offset" \notin unwritten => rseq_offset = Owner
              /\ "size" \notin unwritten /\ libc = 0 => rseq_size = 0
         /\ pc[Loader] = "unlock" => Initialised /\ (libc = 0 => rseq_size = 0)

\* A registration under way, and what a finished one has left.
Registering(t) ==
    /\ pc[t] \notin Initializing \ {"check"}
    /\ libc # 0 => pc[t] \in {"idle", "check", "owner", "unowner"}
    /\ pc[t] \in {"check", "owner", "size", "register", "failed", "registered", "publish"}
         => t \notin user
    /\ pc[t] \in {"unowner", "unsize", "unregister"} => t \in user
    /\ libc = 0 => (kreg[t] # 0 <=> t \in user \/ pc[t] \in {"registered", "publish"})
    /\ pc[t] = "register" => len[t] \in ORIG_RSEQ_ALLOC_SIZE .. RSEQ_THREAD_AREA_ALLOC_SIZE
    /\ pc[t] = "failed" => enosys
    /\ libc = 0 /\ enosys => kreg[t] = 0
    /\ libc = 0 /\ t \in user => rseq_size = Feature

Coherent ==
    /\ TypeOK /\ ~aborted
    /\ \A t \in Thread : libc # 0 => kreg[t] # 0
    /\ ctor \in {"todo", "run"} => Loading
    /\ ctor = "done" => Initialised /\ \A t \in Thread : Registering(t)
    /\ ctor = "done" /\ libc = 0 /\ enosys => rseq_size = 0
    /\ ctor = "exit" => \A t \in Thread : pc[t] = "idle"

\* The kernel has one feature set of at least the original size.
LEMMA FeatureRange ==
    ASSUME TypeOK
    PROVE  Feature \in ORIG_RSEQ_FEATURE_SIZE .. RSEQ_THREAD_AREA_ALLOC_SIZE
BY RegistrationAssumption
   DEF TypeOK, Feature, get_rseq_kernel_feature_size, ORIG_RSEQ_FEATURE_SIZE,
       RSEQ_THREAD_AREA_ALLOC_SIZE

\* A length the kernel accepts is not the 0 of a thread that is not registered.
LEMMA LengthNotZero == \A n \in ORIG_RSEQ_ALLOC_SIZE .. RSEQ_THREAD_AREA_ALLOC_SIZE : n # 0
BY DEF ORIG_RSEQ_ALLOC_SIZE, RSEQ_THREAD_AREA_ALLOC_SIZE

\* No thread is inside the library at the start.
LEMMA CoherentInit == Init => Coherent
<1>1. SUFFICES ASSUME Init PROVE Coherent
  OBVIOUS
<1>2. libc \in 0 .. RSEQ_THREAD_AREA_ALLOC_SIZE
  BY <1>1, RegistrationAssumption
     DEF Init, ORIG_RSEQ_FEATURE_SIZE, ORIG_RSEQ_ALLOC_SIZE, RSEQ_THREAD_AREA_ALLOC_SIZE
<1>3. kreg \in [Thread -> Nat] /\ \A t \in Thread : kreg[t] = 0 <=> libc = 0
  <2>1. CASE libc = 0
    BY Zenon, <1>1, <2>1 DEF Init
  <2>2. CASE libc # 0 /\ libc < ORIG_RSEQ_ALLOC_SIZE
    BY <1>1, <2>2 DEF Init, ORIG_RSEQ_ALLOC_SIZE
  <2>3. CASE libc # 0 /\ ~(libc < ORIG_RSEQ_ALLOC_SIZE)
    BY <1>1, <1>2, <2>3 DEF Init, ORIG_RSEQ_ALLOC_SIZE, RSEQ_THREAD_AREA_ALLOC_SIZE
  <2>4. QED
    BY Zenon, <2>1, <2>2, <2>3
<1>4. TypeOK
  <2>1. rseq_size \in 0 .. MinusOne
    BY <1>1, RegistrationAssumption DEF Init, MinusOne, RSEQ_THREAD_AREA_ALLOC_SIZE
  <2>2. len \in [Thread -> Nat] /\ calls \in [Thread -> 0 .. MaxCalls]
    BY <1>1, RegistrationAssumption DEF Init
  <2>3. pc \in [Thread -> Location]
    BY Zenon, <1>1 DEF Init, Location
  <2>4. QED
    BY <1>1, <1>2, <1>3, <2>1, <2>2, <2>3, Zenon DEF Init, TypeOK
<1>5. QED
  BY Zenon, <1>1, <1>3, <1>4, RegistrationAssumption DEF Init, Coherent, Loading

\* The state has its types after every step.
LEMMA TypeNext == ASSUME TypeOK, Next PROVE TypeOK'
<1>1. Feature \in 0 .. MinusOne /\ InitialSize \in 0 .. MinusOne /\ MinusOne \in 0 .. MinusOne
  <2>1. Feature \in 0 .. MinusOne /\ MinusOne \in 0 .. MinusOne
    BY SMTT(20), FeatureRange, RegistrationAssumption
       DEF MinusOne, ORIG_RSEQ_FEATURE_SIZE, RSEQ_THREAD_AREA_ALLOC_SIZE
  <2>2. libc \in 0 .. MinusOne
    BY RegistrationAssumption DEF TypeOK, MinusOne, RSEQ_THREAD_AREA_ALLOC_SIZE
  <2>3. Least(ORIG_RSEQ_ALLOC_SIZE, Feature) \in 0 .. MinusOne
    BY <2>1, RegistrationAssumption
       DEF Least, MinusOne, ORIG_RSEQ_ALLOC_SIZE, RSEQ_THREAD_AREA_ALLOC_SIZE
  <2>4. QED
    BY Zenon, <2>1, <2>2, <2>3 DEF InitialSize, Feature
<1>2. get_rseq_min_alloc_size \in Nat
  BY RegistrationAssumption
     DEF TypeOK, get_rseq_min_alloc_size, MinusOne, ORIG_RSEQ_ALLOC_SIZE
<1>3. CASE Construct
  BY Zenon, <1>3, RegistrationAssumption
     DEF TypeOK, Construct, Goto, Location, envvars, libvars, uservars
<1>4. CASE rseq_exit
  BY <1>1, <1>4, RegistrationAssumption, Zenon DEF TypeOK, rseq_exit, envvars, uservars
<1>5. ASSUME NEW t \in Thread, Call(t) PROVE TypeOK'
  <2>1. calls[t] < MaxCalls /\ calls' = [calls EXCEPT ![t] = @ + 1]
        /\ \E l \in Location : Goto(t, l)
    BY Zenon, <1>5 DEF Call, rseq_register_current_thread, rseq_unregister_current_thread, MayCall,
                Location
  <2>2. calls' \in [Thread -> 0 .. MaxCalls]
    BY <2>1, RegistrationAssumption DEF TypeOK
  <2>3. QED
    BY <1>5, <2>1, <2>2
       DEF TypeOK, Call, rseq_register_current_thread, rseq_unregister_current_thread, Goto,
           envvars, libvars
<1>6. ASSUME NEW t \in Thread, Step(t) PROVE TypeOK'
  <2>1. CASE CheckInitDone(t)
    BY Zenon, <2>1 DEF TypeOK, CheckInitDone, InitReturns, Goto, Location, envvars, libvars, uservars
  <2>2. CASE Lock(t)
    BY Zenon, <2>2 DEF TypeOK, Lock, Goto, Location, envvars, libvars, uservars
  <2>3. CASE SetInitDone(t)
    BY <2>3, Zenon DEF TypeOK, SetInitDone, Symbol, Goto, Location, envvars, libvars, uservars
  <2>4. CASE WriteSymbol(t)
    BY <1>1, <2>4, Zenon DEF TypeOK, WriteSymbol, Goto, Location, envvars, libvars, uservars
  <2>5. CASE Unlock(t)
    BY Zenon, <2>5 DEF TypeOK, Unlock, InitReturns, Goto, Location, envvars, libvars, uservars
  <2>6. CASE TestOwnership(t)
    BY Zenon, <2>6 DEF TypeOK, TestOwnership, Succeed, Goto, Location, envvars, libvars, uservars
  <2>7. CASE ReadSize(t)
    BY Zenon, <1>2, <2>7 DEF TypeOK, ReadSize, Goto, Location, envvars, libvars, uservars
  <2>8. CASE SysRegister(t)
    BY Zenon, <2>8 DEF TypeOK, SysRegister, Goto, Location, envvars, libvars, uservars
  <2>9. CASE RegisterFailed(t)
    BY <2>9, Zenon DEF TypeOK, RegisterFailed, Goto, Location, envvars, libvars, uservars
  <2>10. CASE TestSize(t)
    BY Zenon, <2>10 DEF TypeOK, TestSize, Succeed, Goto, Location, envvars, libvars, uservars
  <2>11. CASE PublishSize(t)
    BY Zenon, <1>1, <2>11 DEF TypeOK, PublishSize, Feature, Succeed, Goto, Location, envvars, libvars, uservars
  <2>12. CASE TestOwnershipUnregister(t)
    BY Zenon, <2>12 DEF TypeOK, TestOwnershipUnregister, Succeed, Goto, Location, envvars, libvars, uservars
  <2>13. CASE ReadSizeUnregister(t)
    BY Zenon, <1>2, <2>13 DEF TypeOK, ReadSizeUnregister, Goto, Location, envvars, libvars, uservars
  <2>14. CASE SysUnregister(t)
    BY <2>14 DEF TypeOK, SysUnregister, Succeed, Goto, Location, envvars, libvars, uservars
  <2>15. QED
    BY Zenon, <1>6, <2>1, <2>2, <2>3, <2>4, <2>5, <2>6, <2>7, <2>8, <2>9, <2>10, <2>11, <2>12, <2>13, <2>14 DEF Step
<1>7. QED
  BY Zenon, <1>3, <1>4, <1>5, <1>6 DEF Next

\* Every step keeps the coherence of the library's symbols, the kernel's
\* registrations and what callers were told.
LEMMA CoherentNext == ASSUME Constructor, Coherent, Next PROVE Coherent'
<1> USE RegistrationAssumption
    DEF Coherent, Loading, Initialised, Registering, Initializing, Owner, Feature,
        get_rseq_kernel_feature_size, TypeOK, At, Goto, envvars, libvars, uservars
<1>1. TypeOK' /\ Feature # 0
  BY TypeNext, FeatureRange DEF ORIG_RSEQ_FEATURE_SIZE
<1>2. CASE Construct
  BY Zenon, <1>1, <1>2 DEF Construct
<1>3. CASE rseq_exit
  BY Zenon, <1>1, <1>3 DEF rseq_exit
<1>4. ASSUME NEW t \in Thread, Call(t) PROVE Coherent'
  BY <1>1, <1>4 DEF Call, MayCall, rseq_register_current_thread, rseq_unregister_current_thread
<1>5. ASSUME NEW t \in Thread, Step(t) PROVE Coherent'
  <2>1. CASE CheckInitDone(t)
    BY <1>1, <2>1 DEF CheckInitDone, InitReturns
  <2>2. CASE Lock(t)
    BY Zenon, <1>1, <2>2 DEF Lock
  <2>3. CASE SetInitDone(t)
    BY <1>1, <2>3 DEF SetInitDone, Symbol
  <2>4. CASE WriteSymbol(t)
    <3>1. t = Loader /\ ctor = "run"
      BY Zenon, <2>4 DEF WriteSymbol
    <3>2. PICK s \in unwritten :
            /\ unwritten' = unwritten \ {s}
            /\ rseq_ownership' = IF s = "ownership" THEN TRUE ELSE rseq_ownership
            /\ rseq_offset' = IF s # "offset" THEN rseq_offset ELSE Owner
            /\ rseq_size' = IF s = "size" THEN InitialSize ELSE rseq_size
            /\ Goto(t, IF unwritten = {s} THEN "unlock" ELSE "write")
      BY <2>4, Zenon DEF WriteSymbol
    <3>3. s \in Symbol /\ (libc = 0 => InitialSize = 0)
      BY Zenon, <3>2 DEF InitialSize
    <3>4. /\ UNCHANGED <<auxv, libc, enosys, init_done, kreg, ctor, user, aborted>>
          /\ \A u \in Thread : u # Loader => pc'[u] = pc[u]
          /\ pc'[Loader] = IF unwritten = {s} THEN "unlock" ELSE "write"
          /\ pc[Loader] = "write"
      BY Zenon, <2>4, <3>1, <3>2 DEF WriteSymbol
    <3>5. CASE s = "ownership"
      <4>1. libc = 0 /\ rseq_ownership' /\ UNCHANGED <<rseq_offset, rseq_size>>
        BY Zenon, <3>1, <3>2, <3>4, <3>5
      <4>2. (rseq_ownership <=> libc = 0)'
        BY Zenon, <1>1, <3>4, <4>1
      <4>3. QED
        BY <1>1, <3>1, <3>2, <3>4, <3>5, <4>1, <4>2
    <3>6. CASE s = "offset"
      BY <1>1, <3>1, <3>2, <3>4, <3>6
    <3>7. CASE s = "size"
      BY <1>1, <3>1, <3>2, <3>3, <3>4, <3>7
    <3>8. QED
      BY Zenon, <3>3, <3>5, <3>6, <3>7 DEF Symbol
  <2>5. CASE Unlock(t)
    BY <1>1, <2>5 DEF Unlock, InitReturns
  <2>6. CASE TestOwnership(t)
    BY <1>1, <2>6 DEF TestOwnership, Succeed
  <2>7. CASE ReadSize(t)
    <3>1. ctor = "done" /\ libc = 0
      BY Zenon, <2>7 DEF ReadSize
    <3>2. get_rseq_min_alloc_size \in ORIG_RSEQ_ALLOC_SIZE .. RSEQ_THREAD_AREA_ALLOC_SIZE
      BY SMTT(20), <3>1, FeatureRange
         DEF get_rseq_min_alloc_size, ORIG_RSEQ_ALLOC_SIZE, RSEQ_THREAD_AREA_ALLOC_SIZE
    <3>3. QED
      BY <1>1, <2>7, <3>1, <3>2 DEF ReadSize
  <2>8. CASE SysRegister(t)
    <3>1. ctor = "done" /\ libc = 0 /\ kreg[t] = 0
      BY Zenon, <2>8 DEF SysRegister
    <3>2. len[t] \in ORIG_RSEQ_ALLOC_SIZE .. RSEQ_THREAD_AREA_ALLOC_SIZE
      BY Zenon, <2>8, <3>1 DEF SysRegister
    <3>3. len[t] # 0
      BY Zenon, <3>2, LengthNotZero
    <3>4. QED
      BY <1>1, <2>8, <3>1, <3>2, <3>3 DEF SysRegister
  <2>9. CASE RegisterFailed(t)
    BY <1>1, <2>9 DEF RegisterFailed
  <2>10. CASE TestSize(t)
    BY <1>1, <2>10 DEF TestSize, Succeed
  <2>11. CASE PublishSize(t)
    BY Zenon, <1>1, <2>11 DEF PublishSize, Succeed
  <2>12. CASE TestOwnershipUnregister(t)
    BY <1>1, <2>12 DEF TestOwnershipUnregister, Succeed
  <2>13. CASE ReadSizeUnregister(t)
    BY Zenon, <1>1, <2>13 DEF ReadSizeUnregister
  <2>14. CASE SysUnregister(t)
    BY <1>1, <2>14 DEF SysUnregister, Succeed
  <2>15. QED
    BY Zenon, <1>5, <2>1, <2>2, <2>3, <2>4, <2>5, <2>6, <2>7, <2>8, <2>9, <2>10, <2>11, <2>12, <2>13, <2>14 DEF Step
<1>6. QED
  BY Zenon, <1>2, <1>3, <1>4, <1>5 DEF Next

-----------------------------------------------------------------------------
\* The inductive invariant holds of every process whose constructor runs first.
THEOREM AlwaysCoherent == ASSUME Constructor PROVE Spec => []Coherent
<1>1. Coherent /\ [Next]_vars => Coherent'
  <2>1. ASSUME Coherent, UNCHANGED vars PROVE Coherent'
    BY <2>1
       DEF Coherent, Loading, Initialised, Registering, Initializing, Owner, Feature,
           get_rseq_kernel_feature_size, TypeOK, vars, envvars, libvars, uservars
  <2>2. QED
    BY Zenon, <2>1, CoherentNext
<1>2. QED
  BY CoherentInit, <1>1, PTL DEF Spec

\* rseq_register_current_thread() returns 0 only to a thread that is registered,
\* by glibc or by the system call, and whose struct rseq_abi rseq_offset finds.
THEOREM SuccessIsRegistration == ASSUME Constructor PROVE Spec => []RegisteredOnSuccess
<1>1. Coherent => RegisteredOnSuccess
  BY Zenon DEF Coherent, Loading, Initialised, Registering, Owner, RegisteredOnSuccess, TypeOK
<1>2. QED
  BY <1>1, AlwaysCoherent, PTL

\* The abort() of rseq_register_current_thread() on an "incoherent
\* success/failure within process" is never reached.
THEOREM NeverAborts == ASSUME Constructor PROVE Spec => []NoAbort
<1>1. Coherent => NoAbort
  BY Zenon DEF Coherent, NoAbort
<1>2. QED
  BY <1>1, AlwaysCoherent, PTL

\* Whichever thread registered first, one that was told it succeeded finds
\* rseq_size published.
THEOREM SizeIsPublished == ASSUME Constructor PROVE Spec => []SizePublished
<1>1. Coherent => SizePublished
  BY Zenon DEF Coherent, Loading, Initialised, Registering, Feature, SizePublished, TypeOK
<1>2. QED
  BY <1>1, AlwaysCoherent, PTL

-----------------------------------------------------------------------------
\* While the feature set fits the original allocation size, every length the
\* library passes to the kernel is that size.
SmallFeatures == Features \subseteq 0 .. ORIG_RSEQ_ALLOC_SIZE
OneLength ==
    /\ unfailed = {}
    /\ \A t \in Thread : libc = 0 => kreg[t] \in {0, ORIG_RSEQ_ALLOC_SIZE}
    /\ \A t \in Thread : pc[t] \in {"register", "unregister"} => len[t] = ORIG_RSEQ_ALLOC_SIZE

\* Every step keeps to the one length.
LEMMA OneLengthNext ==
    ASSUME SmallFeatures, Coherent, OneLength, Next PROVE OneLength'
<1>1. get_rseq_min_alloc_size = ORIG_RSEQ_ALLOC_SIZE
      \/ ~(ctor = "done" /\ libc = 0)
  BY FeatureRange
     DEF SmallFeatures, Coherent, Initialised, Feature, get_rseq_kernel_feature_size, TypeOK,
         get_rseq_min_alloc_size, ORIG_RSEQ_ALLOC_SIZE, ORIG_RSEQ_FEATURE_SIZE
<1>2. CASE Construct \/ rseq_exit
  BY Zenon, <1>2, RegistrationAssumption
     DEF OneLength, Coherent, TypeOK, Construct, rseq_exit, Goto, envvars, libvars, uservars
<1>3. ASSUME NEW t \in Thread, Call(t) PROVE OneLength'
  BY Zenon, <1>3
     DEF OneLength, Coherent, TypeOK, Call, rseq_register_current_thread,
         rseq_unregister_current_thread, Goto, envvars, libvars
<1>4. ASSUME NEW t \in Thread, CheckInitDone(t) \/ Lock(t) \/ SetInitDone(t) \/ Unlock(t)
      PROVE  OneLength'
  BY <1>4
     DEF OneLength, Coherent, TypeOK, CheckInitDone, Lock, SetInitDone, Unlock, InitReturns,
         Goto, envvars, libvars, uservars
<1>5. ASSUME NEW t \in Thread, WriteSymbol(t) PROVE OneLength'
  BY Zenon, <1>5 DEF OneLength, Coherent, TypeOK, WriteSymbol, Goto, envvars, uservars
<1>6. ASSUME NEW t \in Thread,
             TestOwnership(t) \/ RegisterFailed(t) \/ TestSize(t) \/ PublishSize(t)
             \/ TestOwnershipUnregister(t)
      PROVE  OneLength'
  BY Zenon, <1>6
     DEF OneLength, Coherent, TypeOK, TestOwnership, RegisterFailed, TestSize, PublishSize,
         TestOwnershipUnregister, Succeed, Goto, envvars, libvars, uservars
<1>7. ASSUME NEW t \in Thread, ReadSize(t) \/ ReadSizeUnregister(t) PROVE OneLength'
  <2>1. ctor = "done" /\ libc = 0
    BY Zenon, <1>7, RegistrationAssumption
       DEF Coherent, TypeOK, Loading, Registering, Initializing, ReadSize, ReadSizeUnregister, At
  <2>2. QED
    BY Zenon, <1>1, <1>7, <2>1
       DEF OneLength, Coherent, TypeOK, ReadSize, ReadSizeUnregister, Goto, envvars, libvars,
           uservars
<1>8. ASSUME NEW t \in Thread, SysRegister(t) PROVE OneLength'
  BY Zenon, <1>8
     DEF OneLength, Coherent, TypeOK, SysRegister, At, Goto, envvars, libvars, uservars
<1>9. ASSUME NEW t \in Thread, SysUnregister(t) PROVE OneLength'
  <2>1. ctor = "done" /\ libc = 0 /\ t \in user
    BY Zenon, <1>9, RegistrationAssumption
       DEF Coherent, TypeOK, Loading, Registering, Initializing, SysUnregister, At
  <2>2. ~enosys /\ kreg[t] = len[t]
    BY Zenon, <1>9, <2>1 DEF Coherent, TypeOK, Registering, OneLength, SysUnregister, At
  <2>3. QED
    BY Zenon, <1>9, <2>2
       DEF OneLength, Coherent, TypeOK, SysUnregister, Succeed, Goto, envvars, libvars, uservars
<1>10. QED
  BY Zenon, <1>2, <1>3, <1>4, <1>5, <1>6, <1>7, <1>8, <1>9 DEF Next, Step

\* rseq_unregister_current_thread() succeeds for every registered thread of a
\* kernel whose feature set is at most the original 32 bytes; run unregister_large
\* shows that the bound is needed.
THEOREM Unregisters == ASSUME Constructor, SmallFeatures PROVE Spec => []UnregisterSucceeds
<1>1. Init => OneLength
  <2>1. SUFFICES ASSUME Init PROVE OneLength
    OBVIOUS
  <2>2. QED
    BY Zenon, <2>1 DEF Init, OneLength
<1>2. Coherent /\ OneLength /\ [Next]_vars => OneLength'
  <2>1. ASSUME OneLength, UNCHANGED vars PROVE OneLength'
    BY Zenon, <2>1 DEF OneLength, vars, envvars, libvars, uservars
  <2>2. QED
    BY Zenon, <2>1, OneLengthNext
<1>3. OneLength => UnregisterSucceeds
  BY Zenon DEF OneLength, UnregisterSucceeds
<1>4. QED
  BY <1>1, <1>2, <1>3, AlwaysCoherent, PTL DEF Spec

-----------------------------------------------------------------------------
\* The state has its types whether or not the constructor ran first.
THEOREM RegistrationTyped == Spec => []TypeOK
<1>1. Init => TypeOK
  BY Zenon, CoherentInit DEF Coherent
<1>2. TypeOK /\ [Next]_vars => TypeOK'
  <2>1. ASSUME TypeOK, UNCHANGED vars PROVE TypeOK'
    BY Zenon, <2>1 DEF TypeOK, vars, envvars, libvars, uservars
  <2>2. QED
    BY Zenon, <2>1, TypeNext
<1>3. QED
  BY <1>1, <1>2, PTL DEF Spec

\* rseq_size is -1U or no more than the kernel's feature set; it is -1U until
\* rseq_init() writes it, and then not 0 when glibc registered the threads.
Sized ==
    /\ rseq_size = MinusOne \/ rseq_size <= Feature
    /\ libc \in {0, ORIG_RSEQ_FEATURE_SIZE, ORIG_RSEQ_ALLOC_SIZE, auxv}
    /\ ctor = "todo" => rseq_size = MinusOne
    /\ ctor = "run" /\ pc[Loader] \in {"check", "lock", "locked"} => rseq_size = MinusOne
    /\ ctor = "run" /\ pc[Loader] = "write" /\ "size" \in unwritten => rseq_size = MinusOne
    /\ ctor # "exit" /\ libc # 0 => rseq_size # 0

\* What rseq_init() computes fits the kernel's feature set, and -1U is no size.
LEMMA InitialFits ==
    ASSUME TypeOK, libc \in {0, ORIG_RSEQ_FEATURE_SIZE, ORIG_RSEQ_ALLOC_SIZE, auxv}
    PROVE  InitialSize <= Feature /\ (libc # 0 => InitialSize # 0) /\ MinusOne > Feature
<1>1. Feature \in ORIG_RSEQ_FEATURE_SIZE .. RSEQ_THREAD_AREA_ALLOC_SIZE
  BY Zenon, FeatureRange
<1>2. MinusOne > Feature
  BY <1>1, RegistrationAssumption
     DEF MinusOne, ORIG_RSEQ_FEATURE_SIZE, RSEQ_THREAD_AREA_ALLOC_SIZE
<1>3. CASE libc = 0
  BY <1>1, <1>2, <1>3 DEF InitialSize, ORIG_RSEQ_FEATURE_SIZE
<1>4. CASE libc # 0 /\ libc \in {ORIG_RSEQ_FEATURE_SIZE, ORIG_RSEQ_ALLOC_SIZE}
  BY <1>1, <1>2, <1>4
     DEF InitialSize, Least, Feature, ORIG_RSEQ_FEATURE_SIZE, ORIG_RSEQ_ALLOC_SIZE,
         RSEQ_THREAD_AREA_ALLOC_SIZE
<1>5. CASE libc # 0 /\ libc \notin {ORIG_RSEQ_FEATURE_SIZE, ORIG_RSEQ_ALLOC_SIZE}
  <2>1. libc = auxv /\ InitialSize = auxv
    BY Zenon, <1>5 DEF InitialSize
  <2>2. auxv <= Feature
    BY <1>5, <2>1, RegistrationAssumption
       DEF TypeOK, Feature, get_rseq_kernel_feature_size, ORIG_RSEQ_FEATURE_SIZE,
           RSEQ_THREAD_AREA_ALLOC_SIZE
  <2>3. QED
    BY Zenon, <1>2, <1>5, <2>1, <2>2
<1>6. QED
  BY Zenon, <1>3, <1>4, <1>5

\* Every step keeps the size sound.
LEMMA SizedNext == ASSUME Coherent, Sized, Next PROVE Sized'
<1>1. /\ InitialSize <= Feature /\ (libc # 0 => InitialSize # 0) /\ MinusOne > Feature
      /\ Feature >= 20 /\ Feature \in Int
  BY InitialFits, FeatureRange
     DEF Coherent, Sized, ORIG_RSEQ_FEATURE_SIZE, RSEQ_THREAD_AREA_ALLOC_SIZE
<1>2. UNCHANGED <<auxv, libc, enosys>> /\ Feature' = Feature
  <2>1. UNCHANGED <<auxv, libc, enosys>>
    BY Zenon DEF Next, Step, Construct, rseq_exit, Call, rseq_register_current_thread,
           rseq_unregister_current_thread, CheckInitDone, Lock, SetInitDone, WriteSymbol, Unlock,
           TestOwnership, ReadSize, SysRegister, RegisterFailed, TestSize, PublishSize,
           TestOwnershipUnregister, ReadSizeUnregister, SysUnregister, envvars
  <2>2. QED
    BY Zenon, <2>1 DEF Feature, get_rseq_kernel_feature_size
<1>3. MinusOne \in Int /\ MinusOne # 0 /\ TypeOK
  BY RegistrationAssumption DEF Coherent, MinusOne, RSEQ_THREAD_AREA_ALLOC_SIZE
<1>4. CASE Construct
  BY Zenon, <1>2, <1>4, RegistrationAssumption DEF Sized, Construct, Goto, libvars
<1>5. CASE rseq_exit
  BY Zenon, <1>2, <1>5 DEF Sized, rseq_exit
<1>6. ASSUME NEW t \in Thread, Call(t) PROVE Sized'
  <2>1. ctor' = ctor /\ rseq_size' = rseq_size /\ unwritten' = unwritten
        /\ \E l \in {"check", "unowner"} : Goto(t, l) /\ pc[t] = "idle"
    BY Zenon, <1>6 DEF Call, MayCall, At, rseq_register_current_thread,
                rseq_unregister_current_thread, libvars
  <2>2. ctor = "run" => pc'[Loader] = pc[Loader]
    BY Zenon, <1>3, <2>1, RegistrationAssumption
       DEF Coherent, Loading, Initializing, TypeOK, Goto
  <2>3. QED
    BY Zenon, <1>2, <2>1, <2>2 DEF Sized
<1>7. ASSUME NEW t \in Thread, Step(t), ctor \in {"todo", "run"} PROVE Sized'
  <2>1. t = Loader /\ ctor = "run" /\ pc[t] \in Initializing
    BY <1>7, RegistrationAssumption, Zenon
       DEF Coherent, Loading, Step, At, CheckInitDone, Lock, SetInitDone, WriteSymbol, Unlock,
           TestOwnership, ReadSize, SysRegister, RegisterFailed, TestSize, PublishSize,
           TestOwnershipUnregister, ReadSizeUnregister, SysUnregister
  <2>2. CASE CheckInitDone(t) \/ Lock(t) \/ SetInitDone(t)
    BY <1>1, <1>2, <1>3, <2>1, <2>2, Zenon
       DEF Sized, TypeOK, Coherent, Loading, At, CheckInitDone, InitReturns, Lock, SetInitDone,
           Goto, libvars
  <2>3. CASE WriteSymbol(t)
    <3>1. PICK s \in unwritten :
            /\ unwritten' = unwritten \ {s}
            /\ rseq_size' = IF s = "size" THEN InitialSize ELSE rseq_size
            /\ Goto(t, IF unwritten = {s} THEN "unlock" ELSE "write")
      BY <2>3, Zenon DEF WriteSymbol
    <3>2. pc[t] = "write" /\ ctor' = "run" /\ pc'[Loader] \in {"unlock", "write"}
      BY Zenon, <1>3, <2>1, <2>3, <3>1 DEF WriteSymbol, At, Goto, TypeOK
    <3>3. QED
      BY Zenon, <1>1, <1>2, <2>1, <3>1, <3>2 DEF Sized
  <2>4. CASE Unlock(t)
    BY Zenon, <1>2, <1>3, <2>1, <2>4 DEF Sized, TypeOK, Unlock, InitReturns, Goto
  <2>5. QED
    BY Zenon, <1>7, <2>1, <2>2, <2>3, <2>4
       DEF Step, At, Initializing, TestOwnership, ReadSize, SysRegister, RegisterFailed, TestSize,
           PublishSize, TestOwnershipUnregister, ReadSizeUnregister, SysUnregister
<1>8. ASSUME NEW t \in Thread, Step(t), ctor \in {"done", "exit"} PROVE Sized'
  <2>1. pc[t] \notin Initializing \ {"check"} /\ pc[t] # "idle" /\ ctor = "done"
    BY <1>8, Zenon
       DEF Coherent, Registering, Step, At, CheckInitDone, Lock, SetInitDone, WriteSymbol, Unlock,
           TestOwnership, ReadSize, SysRegister, RegisterFailed, TestSize, PublishSize,
           TestOwnershipUnregister, ReadSizeUnregister, SysUnregister
  <2>2. ctor' = "done" /\ rseq_size' \in {rseq_size, Feature}
    BY <1>8, <2>1, Zenon
       DEF Step, At, Initializing, CheckInitDone, InitReturns, Lock, SetInitDone, WriteSymbol,
           Unlock, TestOwnership, ReadSize, SysRegister, RegisterFailed, TestSize, PublishSize,
           TestOwnershipUnregister, ReadSizeUnregister, SysUnregister, Feature, libvars
  <2>3. QED
    BY <1>1, <1>2, <2>1, <2>2 DEF Sized
<1>9. QED
  BY Zenon, <1>3, <1>4, <1>5, <1>6, <1>7, <1>8 DEF Next, TypeOK

\* The size is sound in every process whose constructor runs first.
LEMMA AlwaysSized == ASSUME Constructor PROVE Spec => []Sized
<1>1. Init => Sized
  <2>1. SUFFICES ASSUME Init PROVE Sized
    OBVIOUS
  <2>2. libc \in {0, ORIG_RSEQ_FEATURE_SIZE, ORIG_RSEQ_ALLOC_SIZE, auxv}
    BY Zenon, <2>1 DEF Init
  <2>3. MinusOne # 0
    BY RegistrationAssumption DEF MinusOne, RSEQ_THREAD_AREA_ALLOC_SIZE
  <2>4. QED
    BY Zenon, <2>1, <2>2, <2>3 DEF Init, Sized
<1>2. Coherent /\ Sized /\ [Next]_vars => Sized'
  <2>1. ASSUME Sized, UNCHANGED vars PROVE Sized'
    BY Zenon, <2>1 DEF Sized, Feature, get_rseq_kernel_feature_size, vars, envvars, libvars, uservars
  <2>2. QED
    BY Zenon, <2>1, SizedNext
<1>3. QED
  BY <1>1, <1>2, AlwaysCoherent, PTL DEF Spec

\* The queries of rseq.h never promise a field the kernel does not write, and
\* tell who registered the threads, whatever glibc and the kernel offer.
THEOREM QueriesAreSound == ASSUME Constructor PROVE Spec => []QueriesSound
<1>1. Coherent /\ Sized => QueriesSound
  <2>1. SUFFICES ASSUME Coherent, Sized PROVE QueriesSound
    OBVIOUS
  <2>2. Int32(rseq_size) <= Feature /\ Int32(rseq_size) \in Int /\ Feature \in Int
    <3>1. Feature \in ORIG_RSEQ_FEATURE_SIZE .. RSEQ_THREAD_AREA_ALLOC_SIZE
      BY Zenon, <2>1, FeatureRange DEF Coherent
    <3>2. CASE rseq_size = MinusOne
      BY <3>1, <3>2, RegistrationAssumption
         DEF Int32, MinusOne, ORIG_RSEQ_FEATURE_SIZE, RSEQ_THREAD_AREA_ALLOC_SIZE
    <3>3. CASE rseq_size <= Feature
      BY <2>1, <3>1, <3>3, RegistrationAssumption
         DEF Coherent, TypeOK, Int32, MinusOne, ORIG_RSEQ_FEATURE_SIZE,
             RSEQ_THREAD_AREA_ALLOC_SIZE
    <3>4. QED
      BY Zenon, <2>1, <3>2, <3>3 DEF Sized
  <2>3. (rseq_node_id_available => Feature >= 24) /\ (rseq_mm_cid_available => Feature >= 28)
    BY <2>2 DEF rseq_node_id_available, rseq_mm_cid_available
  <2>4. ctor = "done" => (rseq_available_libc <=> libc # 0)
    BY Zenon, <2>1 DEF Coherent, Initialised, Sized, rseq_available_libc
  <2>5. QED
    BY Zenon, <2>3, <2>4 DEF QueriesSound, Feature
<1>2. QED
  BY <1>1, AlwaysCoherent, AlwaysSized, PTL

\* No thread takes back a size that is published: rseq_init() writes it once,
\* and a second PublishSize writes the same.
THEOREM SizeStays == ASSUME Constructor PROVE Spec => SizeStable
<1>1. Coherent /\ Sized /\ [Next]_vars
        => [rseq_size = get_rseq_kernel_feature_size /\ ctor' # "exit" => UNCHANGED rseq_size]_vars
  <2>1. SUFFICES ASSUME Coherent, Sized, Next, rseq_size = Feature, ctor' # "exit"
                 PROVE  UNCHANGED rseq_size
    BY Zenon DEF Feature
  <2>2. rseq_size # MinusOne
    BY <2>1, InitialFits, FeatureRange
       DEF Coherent, Sized, ORIG_RSEQ_FEATURE_SIZE, RSEQ_THREAD_AREA_ALLOC_SIZE
  <2>3. CASE Construct \/ rseq_exit \/ \E t \in Thread : Call(t)
    BY Zenon, <2>1, <2>3 DEF Construct, rseq_exit, Call, rseq_register_current_thread,
                      rseq_unregister_current_thread, libvars
  <2>4. ASSUME NEW t \in Thread, WriteSymbol(t) PROVE UNCHANGED rseq_size
    <3>1. PICK s \in unwritten : rseq_size' = IF s = "size" THEN InitialSize ELSE rseq_size
      BY <2>4, Zenon DEF WriteSymbol
    <3>2. t = Loader /\ ctor = "run" /\ pc[Loader] = "write"
      BY Zenon, <2>1, <2>4, RegistrationAssumption
         DEF Coherent, TypeOK, Loading, Registering, Initializing, WriteSymbol, At
    <3>3. QED
      BY Zenon, <2>1, <2>2, <3>1, <3>2 DEF Sized
  <2>5. ASSUME NEW t \in Thread, Step(t), ~WriteSymbol(t) PROVE UNCHANGED rseq_size
    BY Zenon, <2>1, <2>5
       DEF Step, CheckInitDone, Lock, SetInitDone, Unlock, TestOwnership, ReadSize, SysRegister,
           RegisterFailed, TestSize, PublishSize, TestOwnershipUnregister, ReadSizeUnregister,
           SysUnregister, Feature, libvars
  <2>6. QED
    BY Zenon, <2>1, <2>3, <2>4, <2>5 DEF Next
<1>2. QED
  BY <1>1, AlwaysCoherent, AlwaysSized, PTL DEF Spec, SizeStable

=============================================================================
