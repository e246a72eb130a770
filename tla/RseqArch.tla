------------------------------ MODULE RseqArch ------------------------------
(***************************************************************************)
(* The helpers each architecture provides (include/rseq/arch.h includes    *)
(* one of them), under the names the dispatchers of include/rseq/rseq.h    *)
(* use: an operation and a memory order.                                   *)
(***************************************************************************)
EXTENDS RseqAsm

X86_64 == INSTANCE RseqX86_64
I386 == INSTANCE RseqI386
Arm == INSTANCE RseqArm
Aarch64 == INSTANCE RseqAarch64
Mips == INSTANCE RseqMips
Ppc == INSTANCE RseqPpc
Riscv == INSTANCE RseqRiscv
S390 == INSTANCE RseqS390

RelaxedOnly == {"load_cbne_store", "load_cbeq_store_add_load_store",
                "load_add_store", "load_cbne_load_cbne_store"}
RelaxedOrRelease == {"load_cbne_store_store", "load_cbne_memcpy_store"}

\* What the switch statements of rseq.h reach; every other pair returns -1.
Supported ==
    (RelaxedOnly \X {"relaxed"}) \cup (RelaxedOrRelease \X {"relaxed", "release"})

\* A helper only x86-64 has (rseq_arch_has_load_add_load_load_add_store).
AddLoadLoadAdd == <<"load_add_load_load_add_store", "relaxed">>

Table(cbne_store, cbeq, add, cbne_cbne, store_store(_), memcpy(_)) ==
    [f \in Supported |->
        CASE f[1] = "load_cbne_store" -> cbne_store
          [] f[1] = "load_cbeq_store_add_load_store" -> cbeq
          [] f[1] = "load_add_store" -> add
          [] f[1] = "load_cbne_load_cbne_store" -> cbne_cbne
          [] f[1] = "load_cbne_store_store" -> store_store(f[2])
          [] f[1] = "load_cbne_memcpy_store" -> memcpy(f[2])]

x86_64 ==
    LET t == Table(X86_64!rseq_load_cbne_store__ptr,
                   X86_64!rseq_load_cbeq_store_add_load_store__ptr,
                   X86_64!rseq_load_add_store__ptr,
                   X86_64!rseq_load_cbne_load_cbne_store__ptr,
                   X86_64!rseq_load_cbne_store_store__ptr,
                   X86_64!rseq_load_cbne_memcpy_store__ptr)
    IN  [f \in Supported \cup {AddLoadLoadAdd} |->
            IF f = AddLoadLoadAdd
              THEN X86_64!rseq_load_add_load_load_add_store__ptr ELSE t[f]]
i386 == Table(I386!rseq_load_cbne_store__ptr,
              I386!rseq_load_cbeq_store_add_load_store__ptr,
              I386!rseq_load_add_store__ptr,
              I386!rseq_load_cbne_load_cbne_store__ptr,
              I386!rseq_load_cbne_store_store__ptr,
              I386!rseq_load_cbne_memcpy_store__ptr)
arm == Table(Arm!rseq_load_cbne_store__ptr,
             Arm!rseq_load_cbeq_store_add_load_store__ptr,
             Arm!rseq_load_add_store__ptr,
             Arm!rseq_load_cbne_load_cbne_store__ptr,
             Arm!rseq_load_cbne_store_store__ptr,
             Arm!rseq_load_cbne_memcpy_store__ptr)
aarch64 == Table(Aarch64!rseq_load_cbne_store__ptr,
                 Aarch64!rseq_load_cbeq_store_add_load_store__ptr,
                 Aarch64!rseq_load_add_store__ptr,
                 Aarch64!rseq_load_cbne_load_cbne_store__ptr,
                 Aarch64!rseq_load_cbne_store_store__ptr,
                 Aarch64!rseq_load_cbne_memcpy_store__ptr)
mips == Table(Mips!rseq_load_cbne_store__ptr,
              Mips!rseq_load_cbeq_store_add_load_store__ptr,
              Mips!rseq_load_add_store__ptr,
              Mips!rseq_load_cbne_load_cbne_store__ptr,
              Mips!rseq_load_cbne_store_store__ptr,
              Mips!rseq_load_cbne_memcpy_store__ptr)
ppc == Table(Ppc!rseq_load_cbne_store__ptr,
             Ppc!rseq_load_cbeq_store_add_load_store__ptr,
             Ppc!rseq_load_add_store__ptr,
             Ppc!rseq_load_cbne_load_cbne_store__ptr,
             Ppc!rseq_load_cbne_store_store__ptr,
             Ppc!rseq_load_cbne_memcpy_store__ptr)
riscv == Table(Riscv!rseq_load_cbne_store__ptr,
               Riscv!rseq_load_cbeq_store_add_load_store__ptr,
               Riscv!rseq_load_add_store__ptr,
               Riscv!rseq_load_cbne_load_cbne_store__ptr,
               Riscv!rseq_load_cbne_store_store__ptr,
               Riscv!rseq_load_cbne_memcpy_store__ptr)
s390 == Table(S390!rseq_load_cbne_store__ptr,
              S390!rseq_load_cbeq_store_add_load_store__ptr,
              S390!rseq_load_add_store__ptr,
              S390!rseq_load_cbne_load_cbne_store__ptr,
              S390!rseq_load_cbne_store_store__ptr,
              S390!rseq_load_cbne_memcpy_store__ptr)

Arch == {x86_64, i386, arm, aarch64, mips, ppc, riscv, s390}

\* The helpers of a set F on each architecture that has them all.
Codes(F) == {[f \in F |-> t[f]] : t \in {u \in Arch : F \subseteq DOMAIN u}}

=============================================================================
