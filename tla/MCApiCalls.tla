------------------------------- MODULE MCApiCalls -------------------------------
(* One thread makes the calls that are repeated most, and one, with a breaker in   *)
(* common with it, the others.                                               *)
EXTENDS ApiCalls, TLC

CONSTANTS t1, t2

MCThreads == {t1, t2}
MCMayCall == (t1 :> {"direct", "upload", "post"}) @@ (t2 :> {"plain", "list"})
=============================================================================
