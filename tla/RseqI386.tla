----------------------------- MODULE RseqI386 -----------------------------
(***************************************************************************)
(* The critical-section helpers of include/rseq/arch/x86/bits.h for        *)
(* x86-32.                                                                 *)
(***************************************************************************)
EXTENDS RseqAsm

rseq_load_cbne_store__ptr ==
    Plain(<<RSEQ_ASM_CBNE_CPU_ID("abort"),
            RSEQ_ASM_OP_CBNE("v", "expect", "ne")>>
          \o Twice(<<RSEQ_ASM_CBNE_CPU_ID("error1"),
                     RSEQ_ASM_OP_CBNE("v", "expect", "error2")>>)
          \o <<RSEQ_ASM_OP_STORE("newv", "v")>>)

rseq_load_cbeq_store_add_load_store__ptr ==
    Plain(<<RSEQ_ASM_CBNE_CPU_ID("abort"),
            RSEQ_ASM_OP_R_LOAD("v"),
            R_CBEQ("expectnot", "eq")>>
          \o Twice(<<RSEQ_ASM_CBNE_CPU_ID("error1"),
                     RSEQ_ASM_OP_R_LOAD("v"),
                     R_CBEQ("expectnot", "error2")>>)
          \o <<RSEQ_ASM_OP_R_STORE("load"),
               RSEQ_ASM_OP_R_ADD("voffp"),
               R_LOAD_IND,
               RSEQ_ASM_OP_R_STORE("v")>>)

rseq_load_add_store__ptr ==
    Plain(<<RSEQ_ASM_CBNE_CPU_ID("abort")>>
          \o Twice(<<RSEQ_ASM_CBNE_CPU_ID("error1")>>)
          \o <<MEM_ADD("v", "count")>>)

rseq_load_cbne_load_cbne_store__ptr ==
    Plain(<<RSEQ_ASM_CBNE_CPU_ID("abort"),
            RSEQ_ASM_OP_CBNE("v", "expect", "ne"),
            RSEQ_ASM_OP_CBNE("v2", "expect2", "ne")>>
          \o Twice(<<RSEQ_ASM_CBNE_CPU_ID("error1"),
                     RSEQ_ASM_OP_CBNE("v", "expect", "error2"),
                     RSEQ_ASM_OP_CBNE("v2", "expect2", "error3")>>)
          \o <<RSEQ_ASM_OP_STORE("newv", "v")>>)

rseq_load_cbne_store_store__ptr(mo) ==
    Plain(<<RSEQ_ASM_CBNE_CPU_ID("abort"),
            RSEQ_ASM_OP_CBNE("v", "expect", "ne")>>
          \o Twice(<<RSEQ_ASM_CBNE_CPU_ID("error1"),
                     RSEQ_ASM_OP_CBNE("v", "expect", "error2")>>)
          \o <<RSEQ_ASM_OP_STORE("newv2", "v2")>>
          \o IfRelease(mo, <<FENCE>>)
          \o <<RSEQ_ASM_OP_STORE("newv", "v")>>)

\* dst, src and len are loaded from rseq_local inside the critical section.
rseq_load_cbne_memcpy_store__ptr(mo) ==
    RSEQ_ASM_DEFINE_TABLE(
        << >>,
        <<RSEQ_ASM_CBNE_CPU_ID("abort"),
          RSEQ_ASM_OP_CBNE("v", "expect", "ne")>>
        \o Twice(<<RSEQ_ASM_CBNE_CPU_ID("error1"),
                   RSEQ_ASM_OP_CBNE("v", "expect", "error2")>>)
        \o <<MOVE_INPUTS, MEMCPY_UP>>
        \o IfRelease(mo, <<FENCE>>)
        \o <<RSEQ_ASM_OP_STORE("newv", "v")>>,
        {}, FALSE)

=============================================================================
