----------------------------- MODULE MCFuzzers ------------------------------
(***************************************************************************)
(* A TL-C and a TL-UL fuzzer, in every pair of modes in which one ends.    *)
(***************************************************************************)
EXTENDS Fuzzers

CAndUL == <<"C", "UL">>
ModePairs == {"FUZZ_ARI", "FUZZ_STREAM", "BWPROF_STREAM_STRIDE_READ"}
             \X {"FUZZ_ARI", "FUZZ_STREAM", "PASSIVE"}
=============================================================================
