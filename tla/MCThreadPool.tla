----------------------------- MODULE MCThreadPool -----------------------------
(***************************************************************************)
(* Instances of the thread pool for TLC; the numbers are in the cfg files. *)
(***************************************************************************)
EXTENDS ThreadPoolProperties
=============================================================================
