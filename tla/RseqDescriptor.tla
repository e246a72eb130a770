--------------------------- MODULE RseqDescriptor ---------------------------
(***************************************************************************)
(* The critical-section descriptors as the assembler lays them out, byte   *)
(* by byte, on every architecture, word size and byte order, and as the    *)
(* kernel reads them: through the 64-bit field rseq_cs of a thread, which  *)
(* the program stores in its own word size and does not clear when it      *)
(* leaves a critical section.  The library that holds the descriptor may   *)
(* be unloaded once its threads have called rseq_prepare_unload().         *)
(*                                                                         *)
(* Numbers are sequences of bytes, the most significant one first; an      *)
(* address fits in two.                                                    *)
(***************************************************************************)
EXTENDS Integers, Sequences
LOCAL INSTANCE SequencesExt

CONSTANTS
    Thread,
    Offsets,        \* where in a block of 32 bytes the section may start
    BodyLens        \* instructions of the section

\* A build: architecture, word size, byte order of the data and the least length
\* of an instruction, on which every instruction is aligned.  The two compressed
\* instruction sets of mips, which have signatures of their own, are left out.
Build(name, bits, big, insn) == [name |-> name, bits |-> bits, big |-> big, insn |-> insn]
Builds ==
    {Build("x86", 64, FALSE, 1), Build("x86", 32, FALSE, 1),
     Build("arm", 32, FALSE, 4), Build("arm", 32, TRUE, 4),
     Build("aarch64", 64, FALSE, 4), Build("aarch64", 64, TRUE, 4),
     Build("mips", 32, FALSE, 4), Build("mips", 32, TRUE, 4),
     Build("mips", 64, FALSE, 4), Build("mips", 64, TRUE, 4),
     Build("ppc", 32, TRUE, 4), Build("ppc", 64, FALSE, 4), Build("ppc", 64, TRUE, 4),
     Build("riscv", 32, FALSE, 2), Build("riscv", 64, FALSE, 2),
     Build("s390", 32, TRUE, 2), Build("s390", 64, TRUE, 2)}

\* The sections of the library.
TextAt == 1024
FailureAt == 2048
TableAt == 4096

VARIABLES
    build, offset, len,     \* of the build: the start of the section, its length
    field,                  \* rseq_cs of each thread, in memory order
    ip,
    clean,                  \* has called rseq_prepare_unload() since its last section
    loaded,                 \* the library is
    killed                  \* the kernel sent SIGSEGV

vars == <<build, offset, len, field, ip, clean, loaded, killed>>

Outside == 0

Init ==
    /\ build \in Builds
    /\ offset \in {o \in Offsets : o % build.insn = 0}
    /\ len \in BodyLens
    /\ field = [t \in Thread |-> <<0, 0, 0, 0, 0, 0, 0, 0>>]
    /\ ip = [t \in Thread |-> Outside]
    /\ clean = [t \in Thread |-> TRUE]
    /\ loaded = TRUE
    /\ killed = FALSE

-----------------------------------------------------------------------------
\* What the assembler emits.
Zero == <<0, 0, 0, 0>>
Cleared == Zero \o Zero         \* rseq_cs without a descriptor
Word(x) == <<0, 0, x \div 256, x % 256>>
InOrder(big, bytes) == IF big THEN bytes ELSE Reverse(bytes)

U32(w) == InOrder(build.big, w)
Quad(x) == InOrder(build.big, Zero \o Word(x))
LowFirst(x) == U32(Word(x)) \o U32(Zero)
HighFirst(x) == U32(Zero) \o U32(Word(x))

x86_U64_PTR(x) == IF build.bits = 64 THEN Quad(x) ELSE LowFirst(x)
arm_U64_PTR(x) == IF build.big THEN HighFirst(x) ELSE LowFirst(x)
aarch64_U64_PTR(x) == Quad(x)

mips_U64_PTR(x) ==
    IF build.bits = 64 THEN Quad(x) ELSE IF build.big THEN HighFirst(x) ELSE LowFirst(x)
ppc_U64_PTR(x) == IF build.bits = 64 THEN Quad(x) ELSE HighFirst(x)
riscv_U64_PTR(x) == Quad(x)
s390_U64_PTR(x) == IF build.bits = 64 THEN Quad(x) ELSE HighFirst(x)

RSEQ_ASM_U64_PTR(x) ==
    CASE build.name = "x86" -> x86_U64_PTR(x)
      [] build.name = "arm" -> arm_U64_PTR(x)
      [] build.name = "aarch64" -> aarch64_U64_PTR(x)
      [] build.name = "mips" -> mips_U64_PTR(x)
      [] build.name = "ppc" -> ppc_U64_PTR(x)
      [] build.name = "riscv" -> riscv_U64_PTR(x)
      [] build.name = "s390" -> s390_U64_PTR(x)

\* Version and flags are 0.
__RSEQ_ASM_DEFINE_CS_FIELDS(start, post_commit, abort) ==
    U32(Zero) \o U32(Zero) \o RSEQ_ASM_U64_PTR(start)
    \o RSEQ_ASM_U64_PTR(post_commit - start) \o RSEQ_ASM_U64_PTR(abort)

\* Section __rseq_cs: the fields, and the fields once more.
RSEQ_ASM_DEFINE_TABLE(start, post_commit, abort) ==
    __RSEQ_ASM_DEFINE_CS_FIELDS(start, post_commit, abort)
    \o U32(Zero) \o U32(Zero) \o RSEQ_ASM_U64_PTR(start)
    \o RSEQ_ASM_U64_PTR(post_commit - start) \o RSEQ_ASM_U64_PTR(abort)

\* RSEQ_SIG, as the number the thread registers.
RSEQ_SIG ==
    CASE build.name = "x86" -> <<83, 5, 48, 83>>
      [] build.name = "arm" -> IF build.big THEN <<243, 222, 245, 231>> ELSE <<231, 245, 222, 243>>
      [] build.name = "aarch64" -> IF build.big THEN <<0, 188, 40, 212>> ELSE <<212, 40, 188, 0>>
      [] build.name = "mips" -> <<3, 80, 0, 13>>
      [] build.name = "ppc" -> <<15, 229, 0, 11>>
      [] build.name = "riscv" -> <<241, 64, 16, 115>>
      [] build.name = "s390" -> <<178, 255, 15, 255>>

Balign(x, n) == ((x + n - 1) \div n) * n

start_ip == TextAt + offset
post_commit_ip == start_ip + len * build.insn

\* Where the signature of the abort handler is, and its bytes.  The handler
\* follows it: in a section of its own, behind the branch that ends the helper,
\* or behind the copy of the descriptor there.
x86_DEFINE_ABORT == [sig |-> FailureAt + offset + 3, bytes |-> U32(RSEQ_SIG)]
ppc_DEFINE_ABORT == [sig |-> FailureAt + offset, bytes |-> U32(RSEQ_SIG)]
s390_DEFINE_ABORT == [sig |-> FailureAt + offset, bytes |-> U32(RSEQ_SIG)]
aarch64_DEFINE_ABORT ==
    [sig |-> post_commit_ip + build.insn, bytes |-> InOrder(FALSE, <<212, 40, 188, 0>>)]
riscv_DEFINE_ABORT ==
    [sig |-> Balign(post_commit_ip + build.insn, 4), bytes |-> U32(RSEQ_SIG)]
NearTable == Balign(post_commit_ip + build.insn, 32)
arm_DEFINE_ABORT == [sig |-> NearTable + 32, bytes |-> U32(RSEQ_SIG)]
mips_DEFINE_ABORT == [sig |-> NearTable + 32, bytes |-> U32(RSEQ_SIG)]

RSEQ_ASM_DEFINE_ABORT ==
    CASE build.name = "x86" -> x86_DEFINE_ABORT
      [] build.name = "arm" -> arm_DEFINE_ABORT
      [] build.name = "aarch64" -> aarch64_DEFINE_ABORT
      [] build.name = "mips" -> mips_DEFINE_ABORT
      [] build.name = "ppc" -> ppc_DEFINE_ABORT
      [] build.name = "riscv" -> riscv_DEFINE_ABORT
      [] build.name = "s390" -> s390_DEFINE_ABORT

abort_ip == RSEQ_ASM_DEFINE_ABORT.sig + 4

\* The tables of the library, and the one whose address a helper stores.
HasNearTable == build.name \in {"arm", "mips"}
Tables ==
    [at \in {TableAt} \cup (IF HasNearTable THEN {NearTable} ELSE {}) |->
        IF at = TableAt THEN RSEQ_ASM_DEFINE_TABLE(start_ip, post_commit_ip, abort_ip)
        ELSE __RSEQ_ASM_DEFINE_CS_FIELDS(start_ip, post_commit_ip, abort_ip)]
CsLabel == IF HasNearTable THEN NearTable ELSE TableAt

-----------------------------------------------------------------------------
\* rseq_cs.arch.ptr: the low half of the field, or all of it.
PtrAt == IF build.bits = 32 /\ build.big THEN 5 ELSE 1
PtrBytes(x) == InOrder(build.big, IF build.bits = 64 THEN Zero \o Word(x) ELSE Word(x))

StorePtr(f, x) ==
    [i \in 1 .. 8 |-> IF i - PtrAt + 1 \in DOMAIN PtrBytes(x) THEN PtrBytes(x)[i - PtrAt + 1]
                      ELSE f[i]]

RSEQ_ASM_STORE_RSEQ_CS(t) ==
    /\ loaded /\ ip[t] = Outside
    /\ field' = [field EXCEPT ![t] = StorePtr(@, CsLabel)]
    /\ ip' = [ip EXCEPT ![t] = start_ip]
    /\ clean' = [clean EXCEPT ![t] = FALSE]
    /\ UNCHANGED <<build, offset, len, loaded, killed>>

InSection(a) == start_ip <= a /\ a < post_commit_ip

\* The next instruction, or a branch to an exit point of the section.
Step(t) ==
    /\ ip[t] # Outside
    /\ \E next \in {Outside} \cup (IF InSection(ip[t]) THEN {ip[t] + build.insn} ELSE {}) :
          ip' = [ip EXCEPT ![t] = next]
    /\ UNCHANGED <<build, offset, len, field, clean, loaded, killed>>

\* Mutant: the half of the field that is always zero.
ClearPadding(t) ==
    /\ ip[t] = Outside
    /\ field' = [field EXCEPT ![t] = [i \in 1 .. 8 |-> IF i > 4 THEN 0 ELSE @[i]]]
    /\ clean' = [clean EXCEPT ![t] = TRUE]
    /\ UNCHANGED <<build, offset, len, ip, loaded, killed>>

rseq_prepare_unload(t) ==
    /\ ip[t] = Outside
    /\ field' = [field EXCEPT ![t] = StorePtr(@, 0)]
    /\ clean' = [clean EXCEPT ![t] = TRUE]
    /\ UNCHANGED <<build, offset, len, ip, loaded, killed>>

Unload ==
    /\ loaded
    /\ \A t \in Thread : clean[t] /\ ip[t] = Outside
    /\ loaded' = FALSE
    /\ UNCHANGED <<build, offset, len, field, ip, clean, killed>>

\* The kernel.
Number(bytes) == LET b == InOrder(build.big, bytes) IN b[Len(b)] + 256 * b[Len(b) - 1]
Fits(bytes) == \A i \in 1 .. Len(bytes) - 2 : InOrder(build.big, bytes)[i] = 0

\* A descriptor as the kernel reads it.
Decode(bytes) ==
    LET num(i) == SubSeq(bytes, i, i + 7)
    IN  [version |-> SubSeq(bytes, 1, 4), flags |-> SubSeq(bytes, 5, 8),
         start_ip |-> Number(num(9)), post_commit_offset |-> Number(num(17)),
         abort_ip |-> Number(num(25)),
         fits |-> Fits(num(9)) /\ Fits(num(17)) /\ Fits(num(25))]

Acceptable(d) ==
    /\ d.version = Zero /\ d.flags = Zero /\ d.fits
    /\ ~(d.start_ip <= d.abort_ip /\ d.abort_ip < d.start_ip + d.post_commit_offset)
    /\ d.abort_ip = RSEQ_ASM_DEFINE_ABORT.sig + 4
    /\ InOrder(build.big, RSEQ_ASM_DEFINE_ABORT.bytes) = RSEQ_SIG

\* Before the thread returns to user space: it reads the field as 64 bits, and the
\* descriptor and the signature through it; memory of a library that is no longer
\* loaded cannot be read.
Interrupt(t) ==
    LET ptr == Number(field[t])
        found == loaded /\ Fits(field[t]) /\ ptr \in DOMAIN Tables
        d == Decode(SubSeq(Tables[ptr], 1, 32))
    IN  /\ field' = [field EXCEPT ![t] = Cleared]
        /\ \/ /\ field[t] = Cleared
              /\ UNCHANGED <<ip, killed>>
           \/ /\ field[t] # Cleared
              /\ ~found \/ ~Acceptable(d)
              /\ killed' = TRUE
              /\ UNCHANGED ip
           \/ /\ field[t] # Cleared
              /\ found /\ Acceptable(d)
              /\ ip' = [ip EXCEPT ![t] =
                          IF d.start_ip <= @ /\ @ < d.start_ip + d.post_commit_offset
                            THEN d.abort_ip ELSE @]
              /\ UNCHANGED killed
        /\ UNCHANGED <<build, offset, len, clean, loaded>>

Next ==
    /\ ~killed
    /\ \/ Unload
       \/ \E t \in Thread : \/ RSEQ_ASM_STORE_RSEQ_CS(t) \/ Step(t)
                            \/ rseq_prepare_unload(t) \/ Interrupt(t)

Spec == Init /\ [][Next]_vars

-----------------------------------------------------------------------------
\* Every descriptor of the library, and the copy arm and mips keep near the code,
\* is aligned as the interface asks and says what the labels say; the signature
\* the thread registered is right in front of the abort handler.
TablesDecode ==
    \A at \in DOMAIN Tables :
        LET d == Decode(SubSeq(Tables[at], 1, 32))
        IN  /\ at % 32 = 0
            /\ Acceptable(d)
            /\ d.start_ip = start_ip /\ d.abort_ip = abort_ip
            /\ d.start_ip + d.post_commit_offset = post_commit_ip

\* The kernel never refuses what it finds in rseq_cs: it finds nothing or a
\* descriptor of a loaded library.
NotKilled == ~killed

\* A thread that is interrupted in the section goes on at the abort handler, one
\* that is interrupted elsewhere where it was, whatever rseq_cs still holds.
AbortsAtHandler ==
    [][\A t \in Thread :
          (field[t] # Cleared /\ field'[t] = Cleared /\ clean'[t] = clean[t])
            => ip'[t] = IF InSection(ip[t]) THEN abort_ip ELSE ip[t]]_vars

\* A table is one structure of 32 bytes: the section is an array of them.  It does
\* not hold: the macro emits two.
OneDescriptor == Len(RSEQ_ASM_DEFINE_TABLE(start_ip, post_commit_ip, abort_ip)) = 32

=============================================================================
