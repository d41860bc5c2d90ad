------------------------------ MODULE Balances ------------------------------
(***************************************************************************)
(* What the asset registry promises: every player has a free and a         *)
(* reserved balance of every instrument.  Minting and burning change free  *)
(* balances one at a time, reserving moves value of one player from free   *)
(* to reserved, and a payout turns reserved value of some players into     *)
(* free value of others without creating or losing any.  A failed transfer *)
(* is the one way in which reserved value disappears.  Trades.tla          *)
(* implements this specification with holdings, offers and allocations.    *)
(***************************************************************************)
EXTENDS Integers, FiniteSetsExt

CONSTANTS Player, Instrument

VARIABLES free, reserved

Purse == Player \X Instrument

\* The value of instrument i in the balance b.
Supply(b, i) == MapThenSumSet(LAMBDA p : b[<<p, i>>], Player)

Init ==
  /\ free \in [Purse -> Nat]
  /\ reserved = [k \in Purse |-> 0]

OthersSame(k) ==
  \A l \in Purse \ {k} : free'[l] = free[l] /\ reserved'[l] = reserved[l]

Mint(k) == free'[k] > free[k] /\ reserved'[k] = reserved[k]

Burn(k) == free'[k] < free[k] /\ free'[k] >= 0 /\ reserved'[k] = reserved[k]

Reserve(k) ==
  /\ free'[k] < free[k] /\ free'[k] >= 0
  /\ free'[k] + reserved'[k] = free[k] + reserved[k]

Forfeit(k) == reserved'[k] < reserved[k] /\ reserved'[k] >= 0 /\ free'[k] = free[k]

PayOut ==
  /\ \A k \in Purse : free'[k] >= free[k] /\ reserved'[k] <= reserved[k] /\ reserved'[k] >= 0
  /\ \A i \in Instrument :
       Supply(free', i) + Supply(reserved', i) = Supply(free, i) + Supply(reserved, i)

Next ==
  \/ \E k \in Purse : OthersSame(k) /\ (Mint(k) \/ Burn(k) \/ Reserve(k) \/ Forfeit(k))
  \/ PayOut

Spec == Init /\ [][Next]_<<free, reserved>>
=============================================================================
