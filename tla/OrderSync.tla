------------------------------- MODULE OrderSync -------------------------------
(***************************************************************************)
(* Orders as BaseLinker sees them: its polls read what its updates, the sellers    *)
(* and the buyers do to them, all at the same time.                            *)
(***************************************************************************)
EXTENDS OrderReads, OrderUpdates

vars == <<now, orders, reads, jobs, held>>

Init == DiscogsInit /\ ReadsInit /\ UpdatesInit

(* A second passes.                                                          *)
Tick == now < MaxTime /\ now' = now + 1 /\ UNCHANGED <<orders, reads, jobs>>

Next ==
    /\ \/ Tick
       \/ DiscogsStep /\ UNCHANGED <<reads, jobs>>
       \/ ReadsStep /\ UNCHANGED jobs
       \/ UpdatesStep /\ UNCHANGED <<now, reads>>
    /\ held' = Observed

Spec == Init /\ [][Next]_vars

(* Types.                                                                   *)
TypeOK == DiscogsTypeOK /\ ReadsTypeOK /\ UpdatesTypeOK

(* StatusesFollow, for every step.                                            *)
StatusesAlwaysFollow == [][StatusesFollow]_vars
=============================================================================
