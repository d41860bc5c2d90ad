------------------------------ MODULE MCMarket ------------------------------
(***************************************************************************)
(* The market on a small instance: alice has gold, one more gold or a      *)
(* sword may be minted, and carol looks on; a bound proposal, an open one  *)
(* and one that validLeg refuses.                                          *)
(***************************************************************************)
EXTENDS Trades

CONSTANTS r1, t1, gold, sword, alice, bob, carol

MCTenantOf == [r \in Right |-> t1]
MCNamespaceOf == [i \in Instrument |-> t1]
MCEndowment == SetToBag({NewAsset(alice, gold, 1)})

Leg(from, to, i, a) == [sender |-> from, receiver |-> to, instrument |-> i, amount |-> a]
Deal(taker, legs) ==
  [maker |-> alice, taker |-> taker, legs |-> legs, expiresAt |-> 1, settleBefore |-> 1]
Exchange ==
  [k \in {"offer", "ask"} |->
     IF k = "offer" THEN Leg(alice, bob, gold, 1) ELSE Leg(bob, alice, sword, 1)]
ToOneself == [Exchange EXCEPT !["ask"].receiver = bob]

MCDeals == {Deal(bob, Exchange), Deal(AnyTaker, Exchange), Deal(bob, ToOneself)}
=============================================================================
