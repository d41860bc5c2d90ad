---------------------------- MODULE TenantQuota ----------------------------
(***************************************************************************)
(* The service's quota of writes per tenant (tenant.js, class              *)
(* TenantQuota).  Each process counts in its own memory and forgets it     *)
(* when it restarts; the tenant is one, the others have buckets of their   *)
(* own.  The clock of the processes is one and does not go back.           *)
(***************************************************************************)
EXTENDS Integers, FiniteSets

CONSTANTS
  Process,
  Cost,           \* what one call may cost
  windowMs,
  maxWrites,
  MaxNow,         \* bound on time
  MaxRestarts     \* bound on the restarts of a process

ASSUME QuotaAssumption ==
  /\ windowMs \in Nat \ {0} /\ maxWrites \in Nat
  /\ IsFiniteSet(Process) /\ Cost \subseteq Nat \ {0}
  /\ MaxNow \in Nat /\ MaxRestarts \in Nat

VARIABLES
  now,            \* the time of the clock
  bucket,         \* the tenant's bucket in the store of each process
  granted,        \* history: the writes allowed at each time
  total,          \* history: the writes allowed by each process
  restarts        \* history: how often each process restarted

quotaVars == <<now, bucket, granted, total, restarts>>

\* Before the first call the store has no bucket.
NoBucket == [start |-> -1, used |-> 0]
Bucket == [start : Nat \cup {-1}, used : 0..maxWrites]

QuotaTypeOK ==
  /\ now \in 0..MaxNow
  /\ bucket \in [Process -> Bucket]
  /\ granted \in [0..MaxNow -> Nat]
  /\ total \in [Process -> Nat]
  /\ restarts \in [Process -> 0..MaxRestarts]

QuotaInit ==
  /\ now = 0
  /\ bucket = [p \in Process |-> NoBucket]
  /\ granted = [t \in 0..MaxNow |-> 0]
  /\ total = [p \in Process |-> 0]
  /\ restarts = [p \in Process |-> 0]

\* Variant for mutation: the window is over, but its start does not move.
CurrentUnmoved(p) ==
  IF bucket[p] = NoBucket THEN [start |-> now, used |-> 0]
  ELSE IF now - bucket[p].start >= windowMs THEN [bucket[p] EXCEPT !.used = 0]
  ELSE bucket[p]

\* The bucket a call counts in: a fresh one when there is none or its window is
\* over.
Current(p) ==
  IF bucket[p] = NoBucket \/ now - bucket[p].start >= windowMs
  THEN [start |-> now, used |-> 0] ELSE bucket[p]

\* A refused call still stores the bucket it looked at.
Refuse(p, cost) ==
  /\ Current(p).used + cost > maxWrites
  /\ bucket' = [bucket EXCEPT ![p] = Current(p)]
  /\ UNCHANGED <<now, granted, total, restarts>>

Allow(p, cost) ==
  /\ Current(p).used + cost <= maxWrites
  /\ bucket' = [bucket EXCEPT ![p] = [start |-> Current(p).start, used |-> Current(p).used + cost]]
  /\ granted' = [granted EXCEPT ![now] = @ + cost]
  /\ total' = [total EXCEPT ![p] = @ + cost]
  /\ UNCHANGED <<now, restarts>>

Consume(p, cost) == Refuse(p, cost) \/ Allow(p, cost)

\* The memory of a process is lost with it.
Restart(p) ==
  /\ bucket[p] # NoBucket /\ restarts[p] < MaxRestarts
  /\ restarts' = [restarts EXCEPT ![p] = @ + 1]
  /\ bucket' = [bucket EXCEPT ![p] = NoBucket]
  /\ UNCHANGED <<now, granted, total>>

Tick ==
  /\ now < MaxNow
  /\ now' = now + 1
  /\ UNCHANGED <<bucket, granted, total, restarts>>

QuotaNext == Tick \/ \E p \in Process : Restart(p) \/ \E c \in Cost : Consume(p, c)
QuotaSpec == QuotaInit /\ [][QuotaNext]_quotaVars

-----------------------------------------------------------------------------
\* Over its whole life a process allows a tenant one bucket of writes for each
\* window that has passed, one more, and one for each time it restarted: the
\* cost of counting in memory (tenant.js:160-185).
QuotaRateBounded ==
  \A p \in Process :
    total[p] * windowMs <= maxWrites * (windowMs + windowMs * restarts[p] + now)
=============================================================================
