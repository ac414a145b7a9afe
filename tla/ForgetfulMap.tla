----------------------------- MODULE ForgetfulMap -----------------------------
(***************************************************************************)
(* What the webhook service may rely on in its process-local cache: a map    *)
(* that forgets entries at any moment, but never answers with a value other   *)
(* than the last one stored and not deleted.                                 *)
(***************************************************************************)
CONSTANTS Keys, Values, None

VARIABLES map, answer

Forgetting(m) == {[k \in Keys |-> IF k \in F THEN None ELSE m[k]] : F \in SUBSET Keys}

Init == map = [k \in Keys |-> None] /\ answer = None

Store(k, v) == map' \in Forgetting([map EXCEPT ![k] = v]) /\ UNCHANGED answer
Delete(k) == map' \in Forgetting([map EXCEPT ![k] = None]) /\ UNCHANGED answer
Load(k) == answer' = map[k] /\ map' \in Forgetting(map)
Forget == map' \in Forgetting(map) /\ UNCHANGED answer

Next ==
    \/ \E k \in Keys : (\E v \in Values : Store(k, v)) \/ Delete(k) \/ Load(k)
    \/ Forget

Spec == Init /\ [][Next]_<<map, answer>>
=============================================================================
