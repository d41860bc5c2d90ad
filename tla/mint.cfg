\* One right through its windows, with every quota and window the admin tries.
SPECIFICATION Spec
CONSTANTS
  TicksPerSecond = 2
  r1 = r1
  t1 = t1
  t2 = t2
  gold = gold
  shield = shield
  plain = plain
  Player = {p1}
  Right = {r1}
  Tenant = {t1, t2}
  Instrument = {gold, shield, plain}
  NoTenant = NoTenant
  TenantOf <- MCTenantOf
  NamespaceOf <- MCNamespaceOf
  Quota <- MCQuota
  Window <- MCWindow
  Amount <- MCAmount
  MaxTime = 6
  MaxMints = 6
INVARIANTS TypeOK MintRateBounded
CHECK_DEADLOCK FALSE
