----------------------------- MODULE RseqAarch64 -----------------------------
(***************************************************************************)
(* The critical-section helpers of include/rseq/arch/aarch64/bits.h.       *)
(***************************************************************************)
EXTENDS RseqAsm

rseq_load_cbne_store__ptr ==
    Plain(<<RSEQ_ASM_CBNE_CPU_ID("abort"),
            RSEQ_ASM_OP_CBNE("v", "expect", "ne")>>
          \o Twice(<<RSEQ_ASM_CBNE_CPU_ID("error1"),
                     RSEQ_ASM_OP_CBNE("v", "expect", "error2")>>)
          \o <<RSEQ_ASM_OP_STORE("newv", "v")>>)

\* The comparison does not keep the value it loads: v is loaded a second time.
rseq_load_cbeq_store_add_load_store__ptr ==
    Plain(<<RSEQ_ASM_CBNE_CPU_ID("abort"),
            RSEQ_ASM_OP_CBEQ("v", "expectnot", "eq")>>
          \o Twice(<<RSEQ_ASM_CBNE_CPU_ID("error1"),
                     RSEQ_ASM_OP_CBEQ("v", "expectnot", "error2")>>)
          \o <<RSEQ_ASM_OP_R_LOAD("v"),
               RSEQ_ASM_OP_R_STORE("load"),
               RSEQ_ASM_OP_R_LOAD_OFF("voffp"),
               RSEQ_ASM_OP_R_STORE("v")>>)

rseq_load_add_store__ptr ==
    Plain(<<RSEQ_ASM_CBNE_CPU_ID("abort")>>
          \o Twice(<<RSEQ_ASM_CBNE_CPU_ID("error1")>>)
          \o <<RSEQ_ASM_OP_R_LOAD("v"),
               RSEQ_ASM_OP_R_ADD("count"),
               RSEQ_ASM_OP_R_STORE("v")>>)

rseq_load_cbne_load_cbne_store__ptr ==
    Plain(<<RSEQ_ASM_CBNE_CPU_ID("abort"),
            RSEQ_ASM_OP_CBNE("v", "expect", "ne"),
            RSEQ_ASM_OP_CBNE("v2", "expect2", "ne")>>
          \o Twice(<<RSEQ_ASM_CBNE_CPU_ID("error1"),
                     RSEQ_ASM_OP_CBNE("v", "expect", "error2"),
                     RSEQ_ASM_OP_CBNE("v2", "expect2", "error3")>>)
          \o <<RSEQ_ASM_OP_STORE("newv", "v")>>)

rseq_load_cbne_store_store__ptr(mo) ==
    Plain(<<RSEQ_ASM_CBNE_CPU_ID("abort"),
            RSEQ_ASM_OP_CBNE("v", "expect", "ne")>>
          \o Twice(<<RSEQ_ASM_CBNE_CPU_ID("error1"),
                     RSEQ_ASM_OP_CBNE("v", "expect", "error2")>>)
          \o <<RSEQ_ASM_OP_STORE("newv2", "v2")>>
          \o <<IF mo = "release" THEN RSEQ_ASM_OP_STORE_RELEASE("newv", "v")
                             ELSE RSEQ_ASM_OP_STORE("newv", "v")>>)

\* The copy counts an index register down to 0.
rseq_load_cbne_memcpy_store__ptr(mo) ==
    RSEQ_ASM_DEFINE_TABLE(
        << >>,
        <<RSEQ_ASM_CBNE_CPU_ID("abort"),
          RSEQ_ASM_OP_CBNE("v", "expect", "ne")>>
        \o Twice(<<RSEQ_ASM_CBNE_CPU_ID("error1"),
                   RSEQ_ASM_OP_CBNE("v", "expect", "error2")>>)
        \o <<MOVE_INPUTS, MEMCPY_DOWN>>
        \o <<IF mo = "release" THEN RSEQ_ASM_OP_STORE_RELEASE("newv", "v")
                           ELSE RSEQ_ASM_OP_STORE("newv", "v")>>,
        {}, FALSE)

=============================================================================
