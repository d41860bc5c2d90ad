------------------------------- MODULE Assets -------------------------------
(***************************************************************************)
(* The asset registry (Registry.daml): holdings, transfer offers and       *)
(* allocations.  The active contracts are a bag: two contracts with the    *)
(* same data are interchangeable, and consuming one leaves the other.  A   *)
(* pending offer and an allocation are themselves the locked holding of    *)
(* what they move.  A step is one ledger transaction.                      *)
(***************************************************************************)
EXTENDS MintRights, Bags, FiniteSetsExt

VARIABLE holdings       \* the active assets, offers and allocations

\* burnAsked: the owner has created an AssetBurnRequest for this very asset.
Asset ==
  [ kind : {"asset"}, owner : Player, instrument : Instrument,
    amount : Nat \ {0}, burnAsked : BOOLEAN ]

\* The offer's deadline is checked when it is made and never afterwards, so it
\* is no part of the state.
AssetTransferOffer ==
  [ kind : {"offer"}, sender : Player, receiver : Player, instrument : Instrument,
    amount : Nat \ {0} ]

\* The executor of every allocation is the venue.
AssetAllocation ==
  [ kind : {"allocation"}, sender : Player, receiver : Player, instrument : Instrument,
    amount : Nat \ {0}, settleBefore : Nat ]

HoldingsOK ==
  /\ IsABag(holdings)
  /\ DOMAIN holdings \subseteq Asset \cup AssetTransferOffer \cup AssetAllocation

NewAsset(owner, i, amount) ==
  [ kind |-> "asset", owner |-> owner, instrument |-> i, amount |-> amount,
    burnAsked |-> FALSE ]

One(h) == SetToBag({h})
Replace(old, new) == holdings' = (holdings (-) old) (+) new
Value(these, bag) == MapThenSumSet(LAMBDA h : h.amount * bag[h], these)
Total(bag) == Value(DOMAIN bag, bag)

Contracts(kind) == {h \in DOMAIN holdings : h.kind = kind}

-----------------------------------------------------------------------------
\* Variant for mutation: anybody's holdings serve as inputs.
MayConsumeAny(owner, i, amount, inputs) ==
  /\ inputs \sqsubseteq holdings
  /\ \A h \in DOMAIN inputs : h.kind = "asset" /\ h.instrument = i
  /\ Total(inputs) >= amount

\* consumeAssets: every input is an unlocked holding of the owner's, and
\* together they suffice; what is left over comes back as one asset.
MayConsume(owner, i, amount, inputs) ==
  /\ inputs \sqsubseteq holdings
  /\ \A h \in DOMAIN inputs :
       h.kind = "asset" /\ h.owner = owner /\ h.instrument = i
  /\ Total(inputs) >= amount

\* Variant for mutation: what is left over comes back even when it is nothing.
ChangeOfNothing(owner, i, amount, inputs) ==
  One(NewAsset(owner, i, Total(inputs) - amount))

Change(owner, i, amount, inputs) ==
  IF Total(inputs) > amount THEN One(NewAsset(owner, i, Total(inputs) - amount))
  ELSE EmptyBag

\* transferFactory_transferImpl, by the sender: to oneself at once, to another
\* through an offer.
Transfer(sender, receiver, i, amount, inputs) ==
  /\ amount > 0
  /\ MayConsume(sender, i, amount, inputs)
  /\ Replace(inputs, Change(sender, i, amount, inputs) (+)
       One(IF receiver = sender THEN NewAsset(sender, i, amount)
           ELSE [ kind |-> "offer", sender |-> sender, receiver |-> receiver,
                  instrument |-> i, amount |-> amount ]))
  /\ UNCHANGED <<now, account, right>>

\* transferInstruction_acceptImpl, by the receiver, at any time.
AcceptTransfer(offer) ==
  /\ Replace(One(offer), One(NewAsset(offer.receiver, offer.instrument, offer.amount)))
  /\ UNCHANGED <<now, account, right>>

\* Rejected by the receiver or withdrawn by the sender: returnToSender creates
\* nothing.
FailTransfer(offer) ==
  /\ Replace(One(offer), EmptyBag)
  /\ UNCHANGED <<now, account, right>>

\* allocationFactory_allocateImpl, by the sender: the client chooses an
\* allocateBefore between now and settleBefore.
Allocate(sender, receiver, i, amount, inputs, settleBefore) ==
  /\ amount > 0
  /\ now < settleBefore
  /\ MayConsume(sender, i, amount, inputs)
  /\ Replace(inputs, Change(sender, i, amount, inputs) (+)
       One([ kind |-> "allocation", sender |-> sender, receiver |-> receiver,
             instrument |-> i, amount |-> amount, settleBefore |-> settleBefore ]))
  /\ UNCHANGED <<now, account, right>>

Returned(a) == NewAsset(a.sender, a.instrument, a.amount)

Delivered(a) == NewAsset(a.receiver, a.instrument, a.amount)

InTime(a) == now < a.settleBefore

\* Allocation_Withdraw by the sender alone, or Allocation_Cancel by the venue
\* with both parties: the same effect.
ReturnAllocation(a) ==
  /\ Replace(One(a), One(Returned(a)))
  /\ UNCHANGED <<now, account, right>>

\* Allocation_ExecuteTransfer by the venue with both parties, outside a trade.
ExecuteAllocation(a) ==
  /\ InTime(a)
  /\ Replace(One(a), One(Delivered(a)))
  /\ UNCHANGED <<now, account, right>>

\* AssetBurnRequest, created by the owner.
RequestBurn(h) ==
  /\ ~h.burnAsked
  /\ Replace(One(h), One([h EXCEPT !.burnAsked = TRUE]))
  /\ UNCHANGED <<now, account, right>>

\* Its owner signed the request alone, and alone archives it.
WithdrawBurn(h) ==
  /\ h.burnAsked
  /\ Replace(One(h), One([h EXCEPT !.burnAsked = FALSE]))
  /\ UNCHANGED <<now, account, right>>

\* BurnRequest_Execute, by admin and owner.
Burn(h) ==
  /\ h.burnAsked
  /\ Replace(One(h), EmptyBag)
  /\ UNCHANGED <<now, account, right>>

\* A mint, free or approved, and the asset it deposits.
MintAsset(r, p, i, amount) ==
  /\ Mint(r, p, i, amount) \/ MintApproved(r, p, i, amount)
  /\ Replace(EmptyBag, One(NewAsset(p, i, amount)))

\* The holdings a client may name as inputs, each as often as there may be.
MostCopies == Max({holdings[h] : h \in DOMAIN holdings} \cup {0})
Inputs == UNION {[S -> 1 .. MostCopies] : S \in SUBSET Contracts("asset")}

AssetStep ==
  \/ \E r \in Right, p \in Player, i \in Instrument, a \in Amount : MintAsset(r, p, i, a)
  \/ \E p, q \in Player, i \in Instrument, a \in Amount, inputs \in Inputs :
       \/ Transfer(p, q, i, a, inputs)
       \/ \E t \in now .. MaxTime : Allocate(p, q, i, a, inputs, t)
  \/ \E o \in Contracts("offer") : AcceptTransfer(o) \/ FailTransfer(o)
  \/ \E a \in Contracts("allocation") : ReturnAllocation(a) \/ ExecuteAllocation(a)
  \/ \E h \in Contracts("asset") : RequestBurn(h) \/ WithdrawBurn(h) \/ Burn(h)
=============================================================================
