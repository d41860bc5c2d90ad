------------------------------- MODULE MCMint -------------------------------
(***************************************************************************)
(* Mint rights on a small instance: one right, quotas and windows the      *)
(* admin changes, an instrument of the tenant's, one of another tenant's   *)
(* and one without a prefix.                                               *)
(***************************************************************************)
EXTENDS MintRights

CONSTANTS r1, t1, t2, gold, shield, plain

MCTenantOf == [r \in Right |-> t1]
MCNamespaceOf == [i \in Instrument |-> IF i = gold THEN t1 ELSE IF i = shield THEN t2 ELSE NoTenant]
MCQuota == {-1, 0, 1, 2}
MCWindow == {0, 1, 2}
MCAmount == {0, 1}
=============================================================================
