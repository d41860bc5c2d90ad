\* What a settlement moves, against the legs of its trade.
SPECIFICATION MarketSpec
CONSTANTS
  TicksPerSecond = 1
  r1 = r1
  t1 = t1
  gold = gold
  sword = sword
  alice = alice
  bob = bob
  carol = carol
  Player = {alice, bob, carol}
  Right = {r1}
  Tenant = {t1}
  Instrument = {gold, sword}
  NoTenant = NoTenant
  TenantOf <- MCTenantOf
  NamespaceOf <- MCNamespaceOf
  Quota = {1}
  Window = {1}
  Amount = {1}
  MaxTime = 1
  MaxMints = 1
  TradeId = {x}
  Deals <- MCDeals
  AnyTaker = AnyTaker
  Endowment <- MCEndowment
PROPERTY SettlementMovesItsLegs
CHECK_DEADLOCK FALSE
