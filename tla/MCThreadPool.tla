---------------------------- MODULE MCThreadPool ----------------------------
(***************************************************************************)
(* The pool with two workers, an immediate task and two timed ones.        *)
(***************************************************************************)
EXTENDS ThreadPool
=============================================================================
