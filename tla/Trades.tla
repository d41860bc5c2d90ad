------------------------------- MODULE Trades -------------------------------
(***************************************************************************)
(* The market (Trade.daml over Registry.daml): a proposal names the legs   *)
(* of an exchange, its acceptance makes a trade, and the venue settles the *)
(* trade by executing one allocation for every leg in one transaction, or  *)
(* cancels it and returns the allocations it is given.                     *)
(***************************************************************************)
EXTENDS Assets, Functions

CONSTANTS
  TradeId,        \* the proposals that may ever be made
  Deals,          \* the terms a maker may propose
  AnyTaker,       \* the taker of an open proposal
  Endowment       \* the assets minted before the market opens

ASSUME MarketAssumption ==
  /\ IsFiniteSet(Player)
  /\ IsABag(Endowment) /\ IsFiniteSet(DOMAIN Endowment) /\ DOMAIN Endowment \subseteq Asset
  /\ \A d \in Deals :
       /\ d \in [ maker : Player, taker : Player \cup {AnyTaker}, legs : {d.legs},
                 expiresAt : Int, settleBefore : Int ]
       /\ IsFiniteSet(DOMAIN d.legs)

VARIABLE trade    \* proposals and trades, ended ones included

vars == <<now, account, right, holdings, trade>>

ValidLeg(l) == l.amount > 0 /\ l.sender # l.receiver

\* The `ensure' of TradeProposal.
EnsureProposal(d) ==
  /\ Cardinality(DOMAIN d.legs) >= 2
  /\ \A k \in DOMAIN d.legs : ValidLeg(d.legs[k])
  /\ d.expiresAt <= d.settleBefore

\* The states of an archived contract are history.
Archived(state) == [state |-> state]
NoTrade == Archived("none")
Contract(state, deal) == [state |-> state, deal |-> deal]

MarketTypeOK ==
  /\ TypeOK
  /\ HoldingsOK
  /\ \A t \in TradeId :
       \/ trade[t] \in {Archived("none"), Archived("settled"), Archived("ended")}
       \/ /\ trade[t].state \in {"proposed", "agreed"}
          /\ EnsureProposal(trade[t].deal)
          /\ trade[t].state = "agreed" => trade[t].deal.taker \in Player

\* The market opens once the registry has issued the mint rights and every
\* player has an account; what happens to those is MintRights' own subject.
Open ==
  /\ now = 0
  /\ account = Player
  /\ \E q \in Quota, w \in Window :
       EnsureMintRight(q, w) /\ right = [r \in Right |-> NewRight(q, w)]
  /\ holdings = Endowment
  /\ trade = [t \in TradeId |-> NoTrade]

Becomes(t, contract) == trade' = [trade EXCEPT ![t] = contract]

\* TradeProposal, created by the maker.
Propose(t, deal) ==
  /\ trade[t] = NoTrade
  /\ EnsureProposal(deal)
  /\ Becomes(t, Contract("proposed", deal))
  /\ UNCHANGED <<now, account, right, holdings>>

\* TradeProposal_Accept, by the acceptor.
Accept(t, acceptor) ==
  /\ trade[t].state = "proposed"
  /\ LET deal == trade[t].deal
     IN  /\ now < deal.expiresAt
         /\ deal.taker = acceptor \/ (deal.taker = AnyTaker /\ acceptor # deal.maker)
         /\ Becomes(t, Contract("agreed", [deal EXCEPT !.taker = acceptor]))
  /\ UNCHANGED <<now, account, right, holdings>>

\* TradeProposal_Cancel by the maker, TradeProposal_Expire by the venue.
CancelProposal(t) ==
  /\ trade[t].state = "proposed"
  /\ Becomes(t, Archived("ended"))
  /\ UNCHANGED <<now, account, right, holdings>>

ExpireProposal(t) ==
  /\ trade[t].state = "proposed"
  /\ now >= trade[t].deal.expiresAt
  /\ Becomes(t, Archived("ended"))
  /\ UNCHANGED <<now, account, right, holdings>>

\* Variant for mutation: the venue executes whatever allocation it can see.
AuthorisedByVenue(deal, a) == TRUE

\* An allocation is executed or cancelled by its executor, its sender and its
\* receiver together; inside a trade the venue acts with maker and taker.
Authorised(deal, a) == {a.sender, a.receiver} \subseteq {deal.maker, deal.taker}

\* How often a choice of one allocation per leg takes each of them.
Picked(chosen) ==
  [a \in Range(chosen) |-> Cardinality({k \in DOMAIN chosen : chosen[k] = a})]

\* What becomes of the chosen allocations: every leg is delivered, or returned.
AllDelivered(chosen) == Picked([k \in DOMAIN chosen |-> Delivered(chosen[k])])
AllReturned(chosen) == Picked([k \in DOMAIN chosen |-> Returned(chosen[k])])

\* Variant for mutation: an executed allocation is not consumed.
SettleKeeping(t, chosen) ==
  /\ trade[t].state = "agreed"
  /\ LET deal == trade[t].deal
     IN  /\ now < deal.settleBefore
         /\ DOMAIN chosen = DOMAIN deal.legs
         /\ Picked(chosen) \sqsubseteq holdings
         /\ \A a \in Range(chosen) : Authorised(deal, a) /\ InTime(a)
         /\ Replace(EmptyBag, AllDelivered(chosen))
         /\ Becomes(t, Archived("settled"))
  /\ UNCHANGED <<now, account, right>>

\* Trade_Settle, by the venue: an allocation for every leg, all or none.
Settle(t, chosen) ==
  /\ trade[t].state = "agreed"
  /\ LET deal == trade[t].deal
     IN  /\ now < deal.settleBefore
         /\ DOMAIN chosen = DOMAIN deal.legs
         /\ Picked(chosen) \sqsubseteq holdings
         /\ \A a \in Range(chosen) : Authorised(deal, a) /\ InTime(a)
         /\ Replace(Picked(chosen), AllDelivered(chosen))
         /\ Becomes(t, Archived("settled"))
  /\ UNCHANGED <<now, account, right>>

\* Trade_Cancel, by the venue: the allocations it names, under any keys, go back.
CancelTrade(t, chosen) ==
  /\ trade[t].state = "agreed"
  /\ LET deal == trade[t].deal
     IN  /\ Picked(chosen) \sqsubseteq holdings
         /\ \A a \in Range(chosen) : Authorised(deal, a)
         /\ Replace(Picked(chosen), AllReturned(chosen))
         /\ Becomes(t, Archived("ended"))
  /\ UNCHANGED <<now, account, right>>

ProposalStep ==
  \E t \in TradeId :
    \/ \E d \in Deals : Propose(t, d)
    \/ \E p \in Player : Accept(t, p)
    \/ CancelProposal(t)
    \/ ExpireProposal(t)

\* No cancellation can name more allocations than there are.
Reservations == BagCardinality([a \in Contracts("allocation") |-> holdings[a]])

TradeStep ==
  \E t \in TradeId :
    /\ trade[t].state = "agreed"
    /\ \/ \E chosen \in [DOMAIN trade[t].deal.legs -> Contracts("allocation")] :
            Settle(t, chosen)
       \/ \E n \in 0 .. Reservations : \E chosen \in [1 .. n -> Contracts("allocation")] :
            CancelTrade(t, chosen)

MarketNext ==
  \/ Tick /\ UNCHANGED <<holdings, trade>>
  \/ AssetStep /\ UNCHANGED trade
  \/ ProposalStep
  \/ TradeStep

MarketSpec == Open /\ [][MarketNext]_vars

-----------------------------------------------------------------------------
Purse == Player \X Instrument

\* What player k[1] has of instrument k[2], unlocked and locked.
FreeOf(k) ==
  Value({h \in Contracts("asset") : h.owner = k[1] /\ h.instrument = k[2]}, holdings)
ReservedOf(k) ==
  Value({h \in Contracts("offer") \cup Contracts("allocation") :
           h.sender = k[1] /\ h.instrument = k[2]}, holdings)

Free == [k \in Purse |-> FreeOf(k)]
Reserved == [k \in Purse |-> ReservedOf(k)]

Abstract == INSTANCE Balances WITH free <- Free, reserved <- Reserved

\* Holdings, offers and allocations implement the balances: no order of
\* splits, offers, reservations, withdrawals and settlements creates value,
\* spends it twice, or loses it other than in a failed transfer or a burn.
ImplementsBalances == Abstract!Spec

Claim(k) == FreeOf(k) + ReservedOf(k)
Ended(h) == h \in DOMAIN holdings' => holdings'[h] < holdings[h]

\* Nobody loses what they have not offered, allocated or asked to burn: the
\* registry, the venue and the other players can move a player's assets only
\* through a contract the player made (Registry.daml 345-363, 383-411).
NobodyLosesUnasked ==
  [][\A k \in Purse : Claim(k)' < Claim(k) =>
       \E h \in DOMAIN holdings :
         /\ Ended(h) /\ h.instrument = k[2]
         /\ IF h.kind = "asset" THEN h.owner = k[1] /\ h.burnAsked ELSE h.sender = k[1]]_vars

Concludes(t) == trade[t].state = "agreed" /\ trade'[t] # trade[t]

\* A trade, settled or cancelled, touches its own two parties only: the venue
\* cannot use one trade to release or execute allocations between others
\* (Trade.daml 135-165).
TradesStayBetweenParties ==
  [][\A t \in TradeId : Concludes(t) =>
       \A k \in Purse : k[1] \notin {trade[t].deal.maker, trade[t].deal.taker} =>
         FreeOf(k)' = FreeOf(k) /\ ReservedOf(k)' = ReservedOf(k)]_vars

-----------------------------------------------------------------------------
(* What the comments say and the contracts do not guarantee. *)

\* "The amount of a rejected or withdrawn transfer is returned to the sender"
\* (Registry.daml 462): an offer that ends leaves its value with somebody.
EndedTransfersPayOut ==
  [][\A o \in Contracts("offer") : Ended(o) =>
       \E k \in Purse : k[2] = o.instrument /\ FreeOf(k)' >= FreeOf(k) + o.amount]_vars

\* "A missing leg cannot be skipped silently, an additional one cannot open a
\* leak" (Trade.daml 143-144): what a settlement moves is what the legs say.
LegSum(deal, k, side) ==
  LET mine == {x \in DOMAIN deal.legs :
                 deal.legs[x][side] = k[1] /\ deal.legs[x].instrument = k[2]}
  IN  MapThenSumSet(LAMBDA x : deal.legs[x].amount, mine)

SettlementMovesItsLegs ==
  [][\A t \in TradeId : Concludes(t) /\ trade'[t].state = "settled" =>
       \A k \in Purse :
         Claim(k)' - Claim(k)
           = LegSum(trade[t].deal, k, "receiver") - LegSum(trade[t].deal, k, "sender")]_vars
=============================================================================
