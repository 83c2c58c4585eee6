---------------------------- MODULE MCMMIOAgent ----------------------------
(***************************************************************************)
(* MMIOAgent on small instances: a word of two places stands for the eight *)
(* bytes, so that a partial Put may share a word with others, or its       *)
(* address.                                                                *)
(***************************************************************************)
EXTENDS MMIOAgent

\* A mismatch is reported only when the device is wrong (verifyData).
MismatchIsReal == "data mismatch" \notin failed
=============================================================================
