----------------------------- MODULE MCULAgent ------------------------------
(***************************************************************************)
(* TL-UL agents beside one TL-C agent on small instances.                  *)
(***************************************************************************)
EXTENDS ULAgent

ReadsAndInvals == {"AcquireBlock", "Release", "CBOInval"}
=============================================================================
