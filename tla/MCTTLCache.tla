------------------------------ MODULE MCTTLCache ------------------------------
(* Four keys of three namespaces, room for two. *)
EXTENDS TTLCache

CONSTANTS listing, retired, result, off
TwoSpeeds == [k \in Keys |-> IF k = off THEN 0 ELSE IF k = listing THEN 1 ELSE 3]
=============================================================================
