---------------------------- MODULE ClientProofs ----------------------------
(***************************************************************************)
(* The client's parts, for any inputs: the service's quota bounds what a   *)
(* process allows a tenant by the clock and by its restarts, and what all  *)
(* processes allow within a window; a green run of the suite is evidence,  *)
(* and of the generated suite just of what the client does right; the      *)
(* client's checks agree with the ledger's; a row's proof proves that row; *)
(* what the builders make fits the ledger; ids and keys tell their tenant  *)
(* and retried commands their commands; and a document tells its value, up *)
(* to where joined parts meet.                                             *)
(***************************************************************************)
EXTENDS ClientProperties, DigestProofs

\* A call that is allowed leaves its bucket within the limit.
LEMMA QuotaTypeStep == QuotaTypeOK /\ [QuotaNext]_quotaVars => QuotaTypeOK'
  <1> SUFFICES ASSUME QuotaTypeOK, QuotaNext PROVE QuotaTypeOK'
    BY DEF QuotaTypeOK, quotaVars
  <1> USE QuotaAssumption
  <1>1. CASE Tick
    BY <1>1 DEF Tick, QuotaTypeOK
  <1>2. ASSUME NEW p \in Process, Restart(p) PROVE QuotaTypeOK'
    BY <1>2 DEF Restart, QuotaTypeOK, NoBucket, Bucket
  <1>3. ASSUME NEW p \in Process, NEW c \in Cost, Refuse(p, c) PROVE QuotaTypeOK'
    <2>1. Current(p) \in Bucket
      BY DEF Current, QuotaTypeOK, Bucket
    <2> QED
      BY <1>3, <2>1 DEF Refuse, QuotaTypeOK
  <1>4. ASSUME NEW p \in Process, NEW c \in Cost, Allow(p, c) PROVE QuotaTypeOK'
    <2>1. Current(p) \in Bucket
      BY DEF Current, QuotaTypeOK, Bucket
    <2>2. /\ Current(p).start \in Nat \cup {-1} /\ Current(p).used \in 0 .. maxWrites
          /\ c \in Nat
      BY <2>1 DEF Bucket
    <2>3. [start |-> Current(p).start, used |-> Current(p).used + c] \in Bucket
      BY <1>4, <2>2 DEF Allow, Bucket
    <2>4. bucket' \in [Process -> Bucket]
      BY <1>4, <2>3 DEF Allow, QuotaTypeOK
    <2>5. granted' \in [0 .. MaxNow -> Nat] /\ total' \in [Process -> Nat]
      <3>1. granted[now] + c \in Nat /\ total[p] + c \in Nat
        BY <2>2 DEF QuotaTypeOK
      <3> QED
        BY <1>4, <3>1 DEF Allow, QuotaTypeOK
    <2> QED
      BY <1>4, <2>4, <2>5 DEF Allow, QuotaTypeOK
  <1> QED
    BY <1>1, <1>2, <1>3, <1>4 DEF QuotaNext, Consume

LEMMA QuotaTypeInit == QuotaInit => QuotaTypeOK
  BY QuotaAssumption DEF QuotaInit, QuotaTypeOK, NoBucket, Bucket

\* No process's bucket ever holds more than the limit, whatever the costs.
THEOREM QuotaTypeCorrect == QuotaSpec => []QuotaTypeOK
  BY QuotaTypeInit, QuotaTypeStep, PTL DEF QuotaSpec

-----------------------------------------------------------------------------
(* The inductive invariant: what a process allowed before the window it    *)
(* counts in is paid for by the time up to the window's start, and a lost  *)
(* bucket by the restart that lost it.                                     *)
Earned(p, t) == maxWrites * (t + windowMs * restarts[p])

ProcessInv(p) ==
  IF bucket[p] = NoBucket THEN total[p] * windowMs <= Earned(p, now)
  ELSE /\ 0 <= bucket[p].start /\ bucket[p].start <= now
       /\ bucket[p].used <= total[p]
       /\ (total[p] - bucket[p].used) * windowMs <= Earned(p, bucket[p].start)

QuotaInv == \A p \in Process : ProcessInv(p)

\* A factor may be replaced by a larger one.
LEMMA FactorMonotone ==
  ASSUME NEW m \in Nat, NEW a \in Nat, NEW b \in Nat, a <= b
  PROVE  m * a <= m * b
  BY SMT

\* At most the limit, for a whole window or a restart: it is paid for.
LEMMA BucketPaidFor ==
  ASSUME NEW total0 \in Nat, NEW used \in Nat, NEW w \in Nat, NEW m \in Nat,
         NEW s \in Nat, NEW e \in Nat,
         used <= total0, used <= m, s + w <= e,
         (total0 - used) * w <= m * s
  PROVE  total0 * w <= m * e
  <1>1. used * w <= m * w
    BY SMT
  <1>2. total0 * w = (total0 - used) * w + used * w
    BY SMT
  <1>3. m * (s + w) = m * s + m * w
    BY SMT
  <1>4. m * (s + w) <= m * e
    BY FactorMonotone
  <1>5. /\ used * w \in Int /\ m * w \in Int /\ m * s \in Int /\ total0 * w \in Int
        /\ (total0 - used) * w \in Int /\ m * (s + w) \in Int /\ m * e \in Int
    BY SMT
  <1> QED
    BY <1>1, <1>2, <1>3, <1>4, <1>5

\* The types of one process's part of the state.
LEMMA ProcessType ==
  ASSUME QuotaTypeOK, NEW p \in Process
  PROVE  /\ now \in Nat /\ windowMs \in Nat /\ windowMs > 0 /\ maxWrites \in Nat
         /\ total[p] \in Nat /\ restarts[p] \in Nat
         /\ bucket[p].start \in Int /\ bucket[p].used \in Nat
         /\ bucket[p].used <= maxWrites
         /\ windowMs * restarts[p] \in Nat
  <1>1. /\ now \in Nat /\ total[p] \in Nat /\ restarts[p] \in Nat
        /\ windowMs \in Nat /\ windowMs > 0 /\ maxWrites \in Nat
    BY QuotaAssumption DEF QuotaTypeOK
  <1>2. bucket[p] \in Bucket
    BY DEF QuotaTypeOK
  <1>3. /\ bucket[p].start \in Int /\ bucket[p].used \in Nat
        /\ bucket[p].used <= maxWrites
    BY <1>1, <1>2 DEF Bucket
  <1>4. windowMs * restarts[p] \in Nat
    BY <1>1, SMT
  <1> QED
    BY <1>1, <1>3, <1>4

\* What a bucket at its limit allows in all, at any later time.
LEMMA BucketClosed ==
  ASSUME QuotaTypeOK, NEW p \in Process, ProcessInv(p), bucket[p] # NoBucket,
         NEW e \in Nat, bucket[p].start + windowMs * restarts[p] + windowMs <= e
  PROVE  total[p] * windowMs <= maxWrites * e
  <1>1. /\ 0 <= bucket[p].start /\ bucket[p].used <= total[p]
        /\ (total[p] - bucket[p].used) * windowMs
             <= maxWrites * (bucket[p].start + windowMs * restarts[p])
    BY DEF ProcessInv, Earned
  <1> DEFINE s == bucket[p].start + windowMs * restarts[p]
  <1>2. s \in Nat /\ s + windowMs <= e
    BY <1>1, ProcessType
  <1>3. (total[p] - bucket[p].used) * windowMs <= maxWrites * s
    BY <1>1
  <1> HIDE DEF s
  <1> QED
    BY <1>1, <1>2, <1>3, ProcessType, BucketPaidFor

\* The same two facts of the bucket a call counts in, fresh or not.
CountedIn(p) ==
  /\ Current(p).start \in Nat /\ Current(p).start <= now
  /\ Current(p).used \in Nat /\ Current(p).used <= total[p]
  /\ (total[p] - Current(p).used) * windowMs <= Earned(p, Current(p).start)

LEMMA CurrentPaidFor ==
  ASSUME QuotaTypeOK, NEW p \in Process, ProcessInv(p)
  PROVE  CountedIn(p)
  <1>1. CASE bucket[p] = NoBucket
    <2>1. Current(p) = [start |-> now, used |-> 0]
      BY <1>1 DEF Current
    <2>2. total[p] * windowMs <= Earned(p, now)
      BY <1>1 DEF ProcessInv
    <2>3. total[p] - 0 = total[p]
      BY ProcessType
    <2> QED
      BY <2>1, <2>2, <2>3, ProcessType DEF CountedIn
  <1>2. CASE bucket[p] # NoBucket /\ now - bucket[p].start >= windowMs
    <2>1. Current(p) = [start |-> now, used |-> 0]
      BY <1>2 DEF Current
    <2> DEFINE e == now + windowMs * restarts[p]
    <2>2. e \in Nat /\ bucket[p].start + windowMs * restarts[p] + windowMs <= e
      BY <1>2, ProcessType
    <2>3. total[p] * windowMs <= maxWrites * e
      <3> HIDE DEF e
      <3> QED
        BY <1>2, <2>2, BucketClosed
    <2>4. total[p] - 0 = total[p]
      BY ProcessType
    <2> QED
      BY <2>1, <2>3, <2>4, ProcessType DEF CountedIn, Earned
  <1>3. CASE bucket[p] # NoBucket /\ ~(now - bucket[p].start >= windowMs)
    <2>1. Current(p) = bucket[p]
      BY <1>3 DEF Current
    <2> QED
      BY <1>3, <2>1, ProcessType DEF CountedIn, ProcessInv
  <1> QED
    BY <1>1, <1>2, <1>3

\* A process whose bucket, count and restarts stay keeps its part, and later
\* times only help.
LEMMA ProcessUnchanged ==
  ASSUME QuotaTypeOK, NEW p \in Process, ProcessInv(p),
         bucket'[p] = bucket[p], total'[p] = total[p], restarts'[p] = restarts[p],
         now' \in Nat, now <= now'
  PROVE  ProcessInv(p)'
  <1> DEFINE a == now + windowMs * restarts[p]
             b == now' + windowMs * restarts[p]
  <1>1. a \in Nat /\ b \in Nat /\ a <= b /\ maxWrites \in Nat
    BY ProcessType
  <1>2. maxWrites * a <= maxWrites * b /\ maxWrites * a \in Int /\ maxWrites * b \in Int
    <2> HIDE DEF a, b
    <2> QED
      BY <1>1, FactorMonotone
  <1>3. CASE bucket[p] = NoBucket
    <2>1. total[p] * windowMs <= maxWrites * a
      BY <1>3 DEF ProcessInv, Earned
    <2>2. total[p] * windowMs \in Int
      BY ProcessType
    <2>3. total[p] * windowMs <= maxWrites * b
      <3> HIDE DEF a, b
      <3> QED
        BY <1>2, <2>1, <2>2
    <2> QED
      BY <1>3, <2>3 DEF ProcessInv, Earned
  <1>4. CASE bucket[p] # NoBucket
    BY <1>4, ProcessType DEF ProcessInv, Earned
  <1> QED
    BY <1>3, <1>4

\* A restart pays for the bucket it loses.
LEMMA RestartStep ==
  ASSUME QuotaTypeOK, NEW p \in Process, ProcessInv(p), Restart(p)
  PROVE  ProcessInv(p)'
  <1>1. /\ bucket[p] # NoBucket /\ bucket'[p] = NoBucket
        /\ restarts'[p] = restarts[p] + 1 /\ total' = total /\ now' = now
    BY DEF Restart, QuotaTypeOK
  <1> DEFINE e == now + windowMs * restarts'[p]
  <1>2. windowMs * (restarts[p] + 1) = windowMs * restarts[p] + windowMs
    BY ProcessType, SMT
  <1>3. bucket[p].start <= now
    BY <1>1 DEF ProcessInv
  <1>4. e \in Nat /\ bucket[p].start + windowMs * restarts[p] + windowMs <= e
    BY <1>1, <1>2, <1>3, ProcessType
  <1>5. total[p] * windowMs <= maxWrites * e
    <2> HIDE DEF e
    <2> QED
      BY <1>1, <1>4, BucketClosed
  <1> QED
    BY <1>1, <1>5 DEF ProcessInv, Earned

\* A call counts in the bucket it looked at, allowed or not.
LEMMA ConsumeStep ==
  ASSUME QuotaTypeOK, NEW p \in Process, NEW c \in Cost, ProcessInv(p), Consume(p, c)
  PROVE  ProcessInv(p)'
  <1>1. CountedIn(p)
    BY CurrentPaidFor
  <1>2. c \in Nat
    BY QuotaAssumption
  <1>3. CASE Refuse(p, c)
    <2>1. bucket'[p] = Current(p) /\ total' = total /\ restarts' = restarts /\ now' = now
      BY <1>3 DEF Refuse, QuotaTypeOK
    <2>2. Current(p) # NoBucket
      BY <1>1 DEF CountedIn, NoBucket
    <2> QED
      BY <1>1, <2>1, <2>2 DEF CountedIn, ProcessInv, Earned
  <1>4. CASE Allow(p, c)
    <2>1. /\ bucket'[p] = [start |-> Current(p).start, used |-> Current(p).used + c]
          /\ total'[p] = total[p] + c /\ restarts' = restarts /\ now' = now
      BY <1>4 DEF Allow, QuotaTypeOK
    <2>2. bucket'[p] # NoBucket
      BY <1>1, <2>1 DEF CountedIn, NoBucket
    <2>3. total'[p] - bucket'[p].used = total[p] - Current(p).used
      BY <1>1, <1>2, <2>1, ProcessType DEF CountedIn
    <2>4. (total'[p] - bucket'[p].used) * windowMs <= Earned(p, Current(p).start)
      BY <1>1, <2>3 DEF CountedIn
    <2>5. bucket'[p].used <= total'[p]
      BY <1>1, <1>2, <2>1, ProcessType DEF CountedIn
    <2> QED
      BY <1>1, <2>1, <2>2, <2>4, <2>5 DEF CountedIn, ProcessInv, Earned
  <1> QED
    BY <1>3, <1>4 DEF Consume

\* Every action preserves the invariant, one step per action.
LEMMA QuotaStep == QuotaTypeOK /\ QuotaInv /\ [QuotaNext]_quotaVars => QuotaInv'
  <1> SUFFICES ASSUME QuotaTypeOK, QuotaInv, [QuotaNext]_quotaVars, NEW x \in Process
               PROVE  ProcessInv(x)'
    BY DEF QuotaInv
  <1>0. ProcessInv(x) /\ now \in Nat
    BY ProcessType DEF QuotaInv
  <1>1. CASE UNCHANGED quotaVars
    BY <1>0, <1>1, ProcessUnchanged DEF quotaVars
  <1>2. CASE Tick
    <2>1. UNCHANGED <<bucket, total, restarts>> /\ now' \in Nat /\ now <= now'
      BY <1>0, <1>2 DEF Tick
    <2> QED
      BY <1>0, <2>1, ProcessUnchanged
  <1>3. ASSUME NEW p \in Process, Restart(p) PROVE ProcessInv(x)'
    <2>1. CASE x = p
      BY <1>0, <1>3, <2>1, RestartStep
    <2>2. CASE x # p
      <3>1. /\ bucket'[x] = bucket[x] /\ total'[x] = total[x]
            /\ restarts'[x] = restarts[x] /\ now' = now
        BY <1>3, <2>2 DEF Restart, QuotaTypeOK
      <3> QED
        BY <1>0, <3>1, ProcessUnchanged
    <2> QED
      BY <2>1, <2>2
  <1>4. ASSUME NEW p \in Process, NEW c \in Cost, Consume(p, c) PROVE ProcessInv(x)'
    <2>1. CASE x = p
      BY <1>0, <1>4, <2>1, ConsumeStep
    <2>2. CASE x # p
      <3>1. /\ bucket'[x] = bucket[x] /\ total'[x] = total[x]
            /\ restarts'[x] = restarts[x] /\ now' = now
        BY <1>4, <2>2 DEF Consume, Refuse, Allow, QuotaTypeOK
      <3> QED
        BY <1>0, <3>1, ProcessUnchanged
    <2> QED
      BY <2>1, <2>2
  <1> QED
    BY <1>1, <1>2, <1>3, <1>4 DEF QuotaNext

LEMMA QuotaInvInit == QuotaInit => QuotaInv
  <1> SUFFICES ASSUME QuotaInit, NEW p \in Process PROVE ProcessInv(p)
    BY DEF QuotaInv
  <1>1. bucket[p] = NoBucket /\ total[p] = 0 /\ restarts[p] = 0 /\ now = 0
    BY DEF QuotaInit
  <1>2. 0 * windowMs <= maxWrites * (0 + windowMs * 0)
    BY QuotaAssumption, SMT
  <1> QED
    BY <1>1, <1>2 DEF ProcessInv, Earned

\* What a process allowed up to its window, and one bucket more.
LEMMA QuotaInvBounds == QuotaTypeOK /\ QuotaInv => QuotaRateBounded
  <1> SUFFICES ASSUME QuotaTypeOK, NEW p \in Process, ProcessInv(p)
               PROVE  total[p] * windowMs
                        <= maxWrites * (windowMs + windowMs * restarts[p] + now)
    BY DEF QuotaInv, QuotaRateBounded
  <1> DEFINE e == windowMs + windowMs * restarts[p] + now
             a == now + windowMs * restarts[p]
  <1>1. e \in Nat /\ a \in Nat /\ a <= e /\ maxWrites \in Nat
    BY ProcessType
  <1>2. CASE bucket[p] = NoBucket
    <2>1. total[p] * windowMs <= maxWrites * a /\ total[p] * windowMs \in Int
      BY <1>2, ProcessType DEF ProcessInv, Earned
    <2> HIDE DEF e, a
    <2>2. maxWrites * a <= maxWrites * e
      BY <1>1, FactorMonotone
    <2>3. total[p] * windowMs <= maxWrites * e
      BY <1>1, <2>1, <2>2
    <2> QED
      BY <2>3 DEF e
  <1>3. CASE bucket[p] # NoBucket
    <2>1. bucket[p].start <= now
      BY <1>3 DEF ProcessInv
    <2>2. bucket[p].start + windowMs * restarts[p] + windowMs <= e
      BY <2>1, ProcessType
    <2> HIDE DEF e, a
    <2>3. total[p] * windowMs <= maxWrites * e
      BY <1>1, <1>3, <2>2, BucketClosed
    <2> QED
      BY <2>3 DEF e
  <1> QED
    BY <1>2, <1>3

\* Over its whole life a process allows a tenant one bucket of writes for each
\* window of time, one more, and one for each restart (tenant.js 160-185),
\* whatever the window, the limit and the costs are.
THEOREM QuotaRate == QuotaSpec => []QuotaRateBounded
  BY QuotaTypeInit, QuotaTypeStep, QuotaInvInit, QuotaStep, QuotaInvBounds, PTL
     DEF QuotaSpec

-----------------------------------------------------------------------------
(* A burst.  In the window that starts at t a process allows what is left   *)
(* of the bucket it had before, one bucket of its own, and one for each     *)
(* restart: a bucket that starts within the window outlasts it, so only a   *)
(* restart ends it there.                                                   *)
Span(t) == t..(t + windowMs - 1) \cap 0..MaxNow

Counted(p, t) ==
  IF now >= t + windowMs THEN 2 * maxWrites
  ELSE IF bucket[p] = NoBucket THEN maxWrites
  ELSE IF bucket[p].start < t THEN bucket[p].used ELSE maxWrites + bucket[p].used

Share(p, t) == maxWrites * restarts[p] + Counted(p, t)
Shares(t) == [p \in Process |-> Share(p, t)]

NoneAhead == \A u \in 0..MaxNow : u > now => granted[u] = 0
BurstInv == \A t \in 0..now : SumOf(granted, Span(t)) <= SumOf(Shares(t), Process)

LEMMA SpanFinite ==
  ASSUME NEW t \in Nat
  PROVE  IsFiniteSet(Span(t)) /\ Span(t) \subseteq 0..MaxNow
  <1>1. IsFiniteSet(0..MaxNow)
    BY QuotaAssumption, FS_Interval
  <1>2. Span(t) \subseteq 0..MaxNow
    BY DEF Span
  <1> QED
    BY <1>1, <1>2, FS_Subset

LEMMA ShareType ==
  ASSUME QuotaTypeOK, NEW p \in Process, NEW t \in Nat
  PROVE  /\ Counted(p, t) \in Nat /\ Counted(p, t) <= 2 * maxWrites
         /\ maxWrites * restarts[p] \in Nat /\ Share(p, t) \in Nat
  <1>1. Counted(p, t) \in Nat /\ Counted(p, t) <= 2 * maxWrites
    BY ProcessType DEF Counted
  <1>2. maxWrites * restarts[p] \in Nat
    BY ProcessType, SMT
  <1> QED
    BY <1>1, <1>2 DEF Share

LEMMA ShareTypeNext ==
  QuotaTypeOK' => \A p \in Process, t \in Nat : Share(p, t)' \in Nat
  <1>1. ASSUME QuotaTypeOK' PROVE \A p \in Process, t \in Nat : Share(p, t)' \in Nat
    <2> SUFFICES ASSUME NEW p \in Process, NEW t \in Nat PROVE Share(p, t)' \in Nat
      OBVIOUS
    <2>1. /\ bucket'[p] \in Bucket /\ restarts'[p] \in Nat /\ maxWrites \in Nat
          /\ now' \in Nat /\ windowMs \in Nat
      BY <1>1, QuotaAssumption DEF QuotaTypeOK
    <2>2. bucket'[p].used \in Nat /\ bucket'[p].start \in Int
      BY <2>1 DEF Bucket
    <2>3. maxWrites * restarts'[p] \in Nat
      BY <2>1, SMT
    <2> QED
      BY <2>1, <2>2, <2>3 DEF Share, Counted
  <1> QED
    BY <1>1

\* The bucket a call counts in costs its window no less than the bucket before.
CountedInCurrent(p, t) ==
  IF now >= t + windowMs THEN 2 * maxWrites
  ELSE IF Current(p).start < t THEN Current(p).used ELSE maxWrites + Current(p).used

LEMMA CurrentCounted ==
  ASSUME QuotaTypeOK, NEW p \in Process, NEW t \in 0..now
  PROVE  Counted(p, t) <= CountedInCurrent(p, t)
  <1>1. t \in Nat /\ t <= now /\ now \in Nat
    BY ProcessType
  <1>2. CASE bucket[p] = NoBucket \/ now - bucket[p].start >= windowMs
    <2>1. Current(p).start = now /\ Current(p).used = 0
      BY <1>2 DEF Current
    <2> QED
      BY <1>1, <1>2, <2>1, ProcessType DEF Counted, CountedInCurrent
  <1>3. CASE ~(bucket[p] = NoBucket \/ now - bucket[p].start >= windowMs)
    <2>1. Current(p) = bucket[p]
      BY <1>3 DEF Current
    <2> QED
      BY <1>1, <1>3, <2>1, ProcessType DEF Counted, CountedInCurrent
  <1> QED
    BY <1>2, <1>3

\* No step takes from a process's share ...
ShareKept(t) == \A p \in Process : Share(p, t) <= Share(p, t)'

LEMMA ShareUnchanged ==
  ASSUME QuotaTypeOK, NEW p \in Process, NEW t \in 0..now,
         bucket'[p] = bucket[p], restarts'[p] = restarts[p], now' \in Nat, now <= now'
  PROVE  Share(p, t) <= Share(p, t)'
  <1>1. t \in Nat
    BY ProcessType
  <1>2. Counted(p, t) <= Counted(p, t)' /\ Counted(p, t)' \in Nat
    BY <1>1, ProcessType DEF Counted
  <1> QED
    BY <1>1, <1>2, ShareType DEF Share

LEMMA RestartShare ==
  ASSUME QuotaTypeOK, NEW p \in Process, NEW t \in 0..now, Restart(p)
  PROVE  Share(p, t) <= Share(p, t)'
  <1>1. t \in Nat
    BY ProcessType
  <1>2. bucket'[p] = NoBucket /\ restarts'[p] = restarts[p] + 1 /\ now' = now
    BY DEF Restart, QuotaTypeOK
  <1>3. maxWrites * (restarts[p] + 1) = maxWrites * restarts[p] + maxWrites
    BY ProcessType, SMT
  <1>4. Counted(p, t) <= maxWrites + Counted(p, t)' /\ Counted(p, t)' \in Nat
    BY <1>1, <1>2, ProcessType DEF Counted
  <1> QED
    BY <1>1, <1>2, <1>3, <1>4, ShareType, ProcessType DEF Share

LEMMA RefuseShare ==
  ASSUME QuotaTypeOK, NEW p \in Process, NEW t \in 0..now, NEW c, Refuse(p, c)
  PROVE  Share(p, t) <= Share(p, t)'
  <1>1. t \in Nat
    BY ProcessType
  <1>2. bucket'[p] = Current(p) /\ restarts' = restarts /\ now' = now
    BY DEF Refuse, QuotaTypeOK
  <1>3. Current(p) # NoBucket
    BY ProcessType DEF Current, NoBucket
  <1>4. Counted(p, t)' = CountedInCurrent(p, t)
    BY <1>2, <1>3 DEF Counted, CountedInCurrent
  <1>5. CountedInCurrent(p, t) \in Nat
    BY ProcessType DEF CountedInCurrent, Current
  <1> QED
    BY <1>1, <1>2, <1>4, <1>5, CurrentCounted, ShareType DEF Share

\* ... and a call that is allowed within the window adds its cost to it.
LEMMA AllowShare ==
  ASSUME QuotaTypeOK, NEW p \in Process, NEW t \in 0..now, NEW c \in Cost, Allow(p, c)
  PROVE  /\ Share(p, t) <= Share(p, t)'
         /\ now < t + windowMs => Share(p, t) + c <= Share(p, t)'
  <1>1. t \in Nat /\ c \in Nat
    BY ProcessType, QuotaAssumption
  <1>2. /\ bucket'[p] = [start |-> Current(p).start, used |-> Current(p).used + c]
        /\ restarts' = restarts /\ now' = now
    BY DEF Allow, QuotaTypeOK
  <1>3. Current(p).used \in Nat /\ Current(p).start \in Int
    BY ProcessType DEF Current
  <1>4. bucket'[p] # NoBucket
    <2>1. c # 0
      BY QuotaAssumption
    <2> QED
      BY <1>1, <1>2, <1>3, <2>1 DEF NoBucket
  <1>5. /\ CountedInCurrent(p, t) <= Counted(p, t)'
        /\ now < t + windowMs => CountedInCurrent(p, t) + c = Counted(p, t)'
        /\ CountedInCurrent(p, t) \in Nat /\ Counted(p, t)' \in Nat
    BY <1>1, <1>2, <1>3, <1>4, ProcessType DEF Counted, CountedInCurrent
  <1> QED
    BY <1>1, <1>2, <1>5, CurrentCounted, ShareType DEF Share

\* The two sums after a step.
LEMMA BurstNext ==
  ASSUME NEW t
  PROVE  /\ SumOf(granted, Span(t))' = SumOf(granted', Span(t))
         /\ SumOf(Shares(t), Process)' = SumOf([p \in Process |-> Share(p, t)'], Process)
  BY DEF SumOf, MapThenSumSet, MapThenFoldSet, Span, Shares

LEMMA QuietStep ==
  ASSUME QuotaTypeOK, QuotaTypeOK', NEW t \in 0..now, granted' = granted, ShareKept(t),
         SumOf(granted, Span(t)) <= SumOf(Shares(t), Process)
  PROVE  (SumOf(granted, Span(t)) <= SumOf(Shares(t), Process))'
  <1> DEFINE after == [p \in Process |-> Share(p, t)']
  <1>1. t \in Nat /\ IsFiniteSet(Process)
    BY ProcessType, QuotaAssumption DEF QuotaTypeOK
  <1>2. \A p \in Process : /\ Shares(t)[p] \in Int /\ after[p] \in Int
                           /\ Shares(t)[p] <= after[p]
    BY <1>1, ShareType, ShareTypeNext DEF ShareKept, Shares
  <1>3. SumOf(granted, Span(t)) \in Int
    <2>1. \A x \in Span(t) : granted[x] \in Int
      BY <1>1, SpanFinite DEF QuotaTypeOK
    <2> QED
      BY <1>1, <2>1, SpanFinite, SumType
  <1>4. SumOf(Shares(t), Process) \in Int /\ SumOf(after, Process) \in Int
    <2> HIDE DEF after
    <2> QED
      BY <1>1, <1>2, SumType
  <1>5. SumOf(Shares(t), Process) <= SumOf(after, Process)
    <2> HIDE DEF after
    <2> QED
      BY <1>1, <1>2, SumMonotone
  <1>6. SumOf(granted, Span(t)) <= SumOf(after, Process)
    <2> HIDE DEF after
    <2> QED
      BY <1>3, <1>4, <1>5
  <1> QED
    BY <1>6, BurstNext

\* What is allowed now is in the span of every window that is open now.
LEMMA SpentByAllow ==
  ASSUME QuotaTypeOK, NEW p \in Process, NEW t \in 0..now, NEW c \in Cost, Allow(p, c)
  PROVE  /\ now < t + windowMs => SumOf(granted', Span(t)) = SumOf(granted, Span(t)) + c
         /\ now >= t + windowMs => SumOf(granted', Span(t)) = SumOf(granted, Span(t))
  <1>1. t \in Nat /\ c \in Nat /\ now \in 0..MaxNow /\ t <= now
    BY ProcessType, QuotaAssumption DEF QuotaTypeOK
  <1> DEFINE new == granted'
             S == Span(t)
  <1>2. /\ \A u \in 0..MaxNow : granted[u] \in Int /\ (u # now => new[u] = granted[u])
        /\ new[now] = granted[now] + c
    <2>1. granted \in [0..MaxNow -> Nat] /\ new = [granted EXCEPT ![now] = @ + c]
      BY DEF Allow, QuotaTypeOK
    <2>2. \A u \in 0..MaxNow : granted[u] \in Int
      BY <2>1
    <2> QED
      BY <1>1, <2>1, <2>2
  <1>3. IsFiniteSet(S) /\ S \subseteq 0..MaxNow
    BY <1>1, SpanFinite
  <1>4. now < t + windowMs => now \in S
    BY <1>1, QuotaAssumption DEF Span
  <1>5. now >= t + windowMs => now \notin S
    BY <1>1, QuotaAssumption DEF Span
  <1> HIDE DEF new, S
  <1>6. CASE now < t + windowMs
    <2>1. IsFiniteSet(S \ {now})
      BY <1>3, FS_Subset
    <2>2. \A u \in S \ {now} : granted[u] \in Int /\ new[u] = granted[u]
      BY <1>2, <1>3
    <2>3. SumOf(new, S \ {now}) = SumOf(granted, S \ {now}) /\ SumOf(granted, S \ {now}) \in Int
      BY <2>1, <2>2, SumSame, SumType
    <2>4. \A u \in S : granted[u] \in Int /\ new[u] \in Int
      BY <1>1, <1>2, <1>3
    <2>5. /\ SumOf(new, S) = new[now] + SumOf(new, S \ {now})
          /\ SumOf(granted, S) = granted[now] + SumOf(granted, S \ {now})
      BY <1>3, <1>4, <1>6, <2>4, SumSplit
    <2>6. SumOf(new, S) = SumOf(granted, S) + c
      BY <1>1, <1>2, <2>3, <2>5
    <2> QED
      BY <1>1, <1>6, <2>6, QuotaAssumption DEF new, S
  <1>7. CASE now >= t + windowMs
    <2>1. \A u \in S : granted[u] \in Int /\ new[u] = granted[u]
      BY <1>2, <1>3, <1>5, <1>7
    <2>2. SumOf(new, S) = SumOf(granted, S)
      BY <1>3, <2>1, SumSame
    <2> QED
      BY <1>1, <1>7, <2>2, QuotaAssumption DEF new, S
  <1> QED
    BY <1>1, <1>6, <1>7, QuotaAssumption

LEMMA AllowStep ==
  ASSUME QuotaTypeOK, QuotaTypeOK', NEW p \in Process, NEW c \in Cost, Allow(p, c),
         NEW t \in 0..now, SumOf(granted, Span(t)) <= SumOf(Shares(t), Process)
  PROVE  (SumOf(granted, Span(t)) <= SumOf(Shares(t), Process))'
  <1> DEFINE after == [x \in Process |-> Share(x, t)']
             before == Shares(t)
  <1>1. t \in Nat /\ c \in Nat /\ now \in Nat /\ IsFiniteSet(Process)
    BY ProcessType, QuotaAssumption DEF QuotaTypeOK
  <1>2. \A x \in Process : Share(x, t) <= Share(x, t)'
    <2> SUFFICES ASSUME NEW x \in Process PROVE Share(x, t) <= Share(x, t)'
      OBVIOUS
    <2>1. CASE x = p
      BY <2>1, AllowShare
    <2>2. CASE x # p
      <3>1. bucket'[x] = bucket[x] /\ restarts'[x] = restarts[x] /\ now' = now
        BY <2>2 DEF Allow, QuotaTypeOK
      <3> QED
        BY <1>1, <3>1, ShareUnchanged
    <2> QED
      BY <2>1, <2>2
  <1>3. \A x \in Process : before[x] \in Int /\ after[x] \in Int /\ before[x] <= after[x]
    BY <1>1, <1>2, ShareType, ShareTypeNext DEF Shares
  <1>4. now < t + windowMs => before[p] + c <= after[p]
    BY AllowShare DEF Shares
  <1>5. \A x \in Span(t) : granted[x] \in Int
    BY <1>1, SpanFinite DEF QuotaTypeOK
  <1>6. SumOf(granted, Span(t)) \in Int
    BY <1>1, <1>5, SpanFinite, SumType
  <1>7. SumOf(granted, Span(t)) <= SumOf(before, Process)
    OBVIOUS
  <1> HIDE DEF before, after
  <1>8. SumOf(before, Process) \in Int /\ SumOf(after, Process) \in Int
    BY <1>1, <1>3, SumType
  <1>9. SumOf(before, Process) <= SumOf(after, Process)
    BY <1>1, <1>3, SumMonotone
  <1>10. now < t + windowMs => SumOf(before, Process) + c <= SumOf(after, Process)
    BY <1>1, <1>3, <1>4, SumRaise
  <1>11. SumOf(granted', Span(t)) <= SumOf(after, Process)
    <2>1. CASE now < t + windowMs
      BY <1>1, <1>6, <1>7, <1>8, <1>10, <2>1, SpentByAllow
    <2>2. CASE now >= t + windowMs
      BY <1>1, <1>6, <1>7, <1>8, <1>9, <2>2, SpentByAllow
    <2> QED
      BY <1>1, <2>1, <2>2, QuotaAssumption
  <1> QED
    BY <1>11, BurstNext DEF after

\* The span of a window that begins now holds nothing yet but what is allowed now.
LEMMA FreshWindow ==
  ASSUME QuotaTypeOK, QuotaTypeOK', NoneAhead, Tick
  PROVE  (SumOf(granted, Span(now)) <= SumOf(Shares(now), Process))'
  <1> DEFINE S == Span(now')
             after == [p \in Process |-> Share(p, now)']
  <1>1. now' \in Nat /\ IsFiniteSet(Process) /\ now \in Int /\ now' = now + 1
        /\ granted' = granted
    BY QuotaAssumption DEF Tick, QuotaTypeOK
  <1>2. IsFiniteSet(S) /\ S \subseteq 0..MaxNow
    <2> DEFINE t == now'
    <2>1. t \in Nat
      BY <1>1
    <2> HIDE DEF t
    <2>2. IsFiniteSet(Span(t)) /\ Span(t) \subseteq 0..MaxNow
      BY <2>1, SpanFinite
    <2> QED
      BY <2>2 DEF t
  <1>3. \A u \in S : granted[u] = 0
    BY <1>1, <1>2 DEF NoneAhead, Span
  <1>4. SumOf(granted, S) = 0
    <2> HIDE DEF S
    <2> QED
      BY <1>2, <1>3, SumZero
  <1>5. \A p \in Process : after[p] \in Nat
    BY <1>1, ShareTypeNext
  <1>6. SumOf(after, Process) \in Nat
    <2> HIDE DEF after
    <2> QED
      BY <1>1, <1>5, SumNat
  <1>7. SumOf(granted, Span(now))' = SumOf(granted', S)
    BY DEF SumOf, MapThenSumSet, MapThenFoldSet, Span
  <1>8. SumOf(Shares(now), Process)' = SumOf(after, Process)
    BY DEF SumOf, MapThenSumSet, MapThenFoldSet, Shares
  <1>9. 0 <= SumOf(after, Process)
    <2> HIDE DEF after
    <2> QED
      BY <1>6
  <1> QED
    BY <1>1, <1>4, <1>7, <1>8, <1>9

\* Every action preserves the invariant, one step per action.
LEMMA BurstStep ==
  QuotaTypeOK /\ QuotaTypeOK' /\ NoneAhead /\ BurstInv /\ [QuotaNext]_quotaVars
    => NoneAhead' /\ BurstInv'
  <1> SUFFICES ASSUME QuotaTypeOK, QuotaTypeOK', NoneAhead, BurstInv, [QuotaNext]_quotaVars
               PROVE  NoneAhead' /\ BurstInv'
    OBVIOUS
  <1>0. now \in Nat /\ now' \in Nat /\ now \in 0..MaxNow
    BY QuotaAssumption DEF QuotaTypeOK
  <1>1. ASSUME now' = now, granted' = granted, \A t \in 0..now : ShareKept(t)
        PROVE  NoneAhead' /\ BurstInv'
    <2>1. NoneAhead'
      BY <1>1 DEF NoneAhead
    <2>2. \A t \in 0..now : (SumOf(granted, Span(t)) <= SumOf(Shares(t), Process))'
      BY <1>1, QuietStep DEF BurstInv
    <2> QED
      BY <1>1, <2>1, <2>2 DEF BurstInv
  <1>2. CASE UNCHANGED quotaVars
    <2>1. /\ bucket' = bucket /\ restarts' = restarts /\ now' = now /\ granted' = granted
      BY <1>2 DEF quotaVars
    <2>2. \A t \in 0..now : ShareKept(t)
      BY <1>0, <2>1, ShareUnchanged DEF ShareKept
    <2> QED
      BY <1>1, <2>1, <2>2
  <1>3. CASE Tick
    <2>1. /\ bucket' = bucket /\ restarts' = restarts /\ now' = now + 1 /\ granted' = granted
      BY <1>3 DEF Tick
    <2>2. NoneAhead'
      BY <1>0, <2>1 DEF NoneAhead
    <2>3. ASSUME NEW t \in 0..now
          PROVE  (SumOf(granted, Span(t)) <= SumOf(Shares(t), Process))'
      <3>1. ShareKept(t)
        BY <1>0, <2>1, ShareUnchanged DEF ShareKept
      <3> QED
        BY <2>1, <3>1, QuietStep DEF BurstInv
    <2>4. (SumOf(granted, Span(now)) <= SumOf(Shares(now), Process))'
      BY <1>3, FreshWindow
    <2>5. ASSUME NEW t \in 0..now'
          PROVE  SumOf(granted, Span(t))' <= SumOf(Shares(t), Process)'
      <3>1. CASE t = now'
        BY <2>4, <3>1
      <3>2. CASE t # now'
        BY <1>0, <2>1, <2>3, <3>2
      <3> QED
        BY <3>1, <3>2
    <2> QED
      BY <2>2, <2>5 DEF BurstInv
  <1>4. ASSUME NEW p \in Process, NEW c \in Cost, Allow(p, c)
        PROVE  NoneAhead' /\ BurstInv'
    <2>1. now' = now
      BY <1>4 DEF Allow
    <2>2. NoneAhead'
      BY <1>0, <1>4, <2>1 DEF NoneAhead, Allow, QuotaTypeOK
    <2>3. \A t \in 0..now : (SumOf(granted, Span(t)) <= SumOf(Shares(t), Process))'
      BY <1>4, AllowStep DEF BurstInv
    <2> QED
      BY <2>1, <2>2, <2>3 DEF BurstInv
  <1>5. ASSUME NEW p \in Process, Restart(p) \/ \E c \in Cost : Refuse(p, c)
        PROVE  NoneAhead' /\ BurstInv'
    <2>1. now' = now /\ granted' = granted
      BY <1>5 DEF Restart, Refuse
    <2>2. ASSUME NEW t \in 0..now, NEW x \in Process PROVE Share(x, t) <= Share(x, t)'
      <3>1. CASE x = p
        BY <1>5, <3>1, RestartShare, RefuseShare
      <3>2. CASE x # p
        <4>1. bucket'[x] = bucket[x] /\ restarts'[x] = restarts[x]
          BY <1>5, <3>2 DEF Restart, Refuse, QuotaTypeOK
        <4> QED
          BY <1>0, <2>1, <4>1, ShareUnchanged
      <3> QED
        BY <3>1, <3>2
    <2> QED
      BY <1>1, <2>1, <2>2 DEF ShareKept
  <1> QED
    BY <1>2, <1>3, <1>4, <1>5 DEF QuotaNext, Consume

LEMMA BurstInit == QuotaInit => NoneAhead /\ BurstInv
  <1> SUFFICES ASSUME QuotaInit PROVE NoneAhead /\ BurstInv
    OBVIOUS
  <1>1. NoneAhead /\ now = 0 /\ QuotaTypeOK
    BY QuotaTypeInit DEF QuotaInit, NoneAhead
  <1>2. \A u \in Span(0) : granted[u] = 0
    BY SpanFinite DEF QuotaInit
  <1>3. SumOf(granted, Span(0)) = 0
    BY <1>2, SpanFinite, SumZero
  <1>4. \A p \in Process : Shares(0)[p] \in Nat
    BY <1>1, ShareType DEF Shares
  <1>5. SumOf(Shares(0), Process) \in Nat
    BY <1>4, SumNat, QuotaAssumption
  <1>6. BurstInv
    <2> SUFFICES ASSUME NEW t \in 0..0 PROVE SumOf(granted, Span(t)) <= SumOf(Shares(t), Process)
      BY <1>1 DEF BurstInv
    <2>1. t = 0
      OBVIOUS
    <2> QED
      BY <1>3, <1>5, <2>1
  <1> QED
    BY <1>1, <1>6

\* The shares of all processes: two buckets each and the restarts'.
LEMMA BurstBound ==
  QuotaTypeOK /\ NoneAhead /\ BurstInv =>
    \A t \in 0..MaxNow :
      SumOf(granted, Span(t)) <= maxWrites * (2 * Cardinality(Process) + SumOf(restarts, Process))
  <1> SUFFICES ASSUME QuotaTypeOK, NoneAhead, BurstInv, NEW t \in 0..MaxNow
               PROVE  SumOf(granted, Span(t))
                        <= maxWrites * (2 * Cardinality(Process) + SumOf(restarts, Process))
    OBVIOUS
  <1> DEFINE N == Cardinality(Process)
             R == SumOf(restarts, Process)
  <1>1. /\ t \in Nat /\ IsFiniteSet(Process) /\ maxWrites \in Nat /\ 2 * maxWrites \in Nat
        /\ now \in Nat /\ t <= MaxNow
    BY QuotaAssumption DEF QuotaTypeOK
  <1>2. N \in Nat
    BY <1>1, FS_CardinalityType
  <1>3. \A p \in Process : restarts[p] \in Nat
    BY <1>1 DEF QuotaTypeOK
  <1>4. R \in Nat
    BY <1>1, <1>3, SumNat
  <1>5. \A n, r \in Nat : maxWrites * (2 * n + r) = maxWrites * r + (2 * maxWrites) * n
    BY <1>1, SMT
  <1>6. \A n, r \in Nat : maxWrites * r \in Nat /\ (2 * maxWrites) * n \in Nat
    BY <1>1, SMT
  <1>7. /\ maxWrites * (2 * N + R) = maxWrites * R + (2 * maxWrites) * N
        /\ maxWrites * R + (2 * maxWrites) * N \in Nat
    <2> HIDE DEF N, R
    <2>1. maxWrites * (2 * N + R) = maxWrites * R + (2 * maxWrites) * N
      BY <1>2, <1>4, <1>5
    <2>2. maxWrites * R \in Nat /\ (2 * maxWrites) * N \in Nat
      BY <1>2, <1>4, <1>6
    <2>3. \A x, y \in Nat : x + y \in Nat
      OBVIOUS
    <2> QED
      BY <2>1, <2>2, <2>3
  <1>8. CASE t <= now
    <2>1. \A p \in Process : /\ Shares(t)[p] \in Int /\ restarts[p] \in Int
                             /\ Shares(t)[p] <= maxWrites * restarts[p] + 2 * maxWrites
      BY <1>1, <1>3, ShareType DEF Shares, Share
    <2>2. SumOf(Shares(t), Process) <= maxWrites * R + (2 * maxWrites) * N
      BY <1>1, <2>1, SumAffine
    <2>3. SumOf(Shares(t), Process) \in Int
      BY <1>1, <2>1, SumType
    <2>4. SumOf(granted, Span(t)) <= SumOf(Shares(t), Process)
      BY <1>1, <1>8 DEF BurstInv
    <2>5. SumOf(granted, Span(t)) \in Int
      <3>1. \A u \in Span(t) : granted[u] \in Int
        BY <1>1, SpanFinite DEF QuotaTypeOK
      <3> QED
        BY <1>1, <3>1, SpanFinite, SumType
    <2> QED
      BY <1>7, <2>2, <2>3, <2>4, <2>5
  <1>9. CASE ~(t <= now)
    <2>1. \A u \in Span(t) : granted[u] = 0
      BY <1>1, <1>9, SpanFinite DEF NoneAhead, Span
    <2>2. SumOf(granted, Span(t)) = 0
      BY <1>1, <2>1, SpanFinite, SumZero
    <2> QED
      BY <1>7, <2>2
  <1> QED
    BY <1>8, <1>9

LEMMA BurstBounds == QuotaTypeOK /\ NoneAhead /\ BurstInv => QuotaBurstBounded
  BY BurstBound DEF QuotaBurstBounded, Span, SumOf

LEMMA ClientSteps == [ClientNext]_clientVars => [QuotaNext]_quotaVars
  BY DEF ClientNext, clientVars, quotaVars

\* Within any span shorter than a window all processes together allow a tenant
\* two buckets each and one for each restart (tenant.js 160-185), for every
\* number of processes and every window, limit and cost.
THEOREM QuotaBurst == ClientSpec => []QuotaBurstBounded
  BY QuotaTypeInit, QuotaTypeStep, BurstInit, BurstStep, BurstBounds, ClientSteps, PTL
     DEF ClientSpec, ClientInit

-----------------------------------------------------------------------------
(* The other jobs: what is to be shown of them does not change.             *)
LEMMA JobStays == ClientSpec => [](job \in Jobs)
  <1>1. ClientInit => job \in Jobs
    BY DEF ClientInit
  <1>2. job \in Jobs /\ [ClientNext]_clientVars => (job \in Jobs)'
    BY DEF ClientNext, clientVars
  <1> QED
    BY <1>1, <1>2, PTL DEF ClientSpec

\* In a manifest whose cases are in one group once, a case has the group it is in.
LEMMA GroupIs ==
  ASSUME NEW m, CasesSound(m), NEW g \in m.groups, NEW c \in g.cases
  PROVE  c \in Cases(m) /\ GroupOf(m, c) = g
  <1>1. c \in Cases(m)
    BY DEF Cases
  <1>2. \A h \in m.groups : c \in h.cases => h = g
    BY DEF CasesSound
  <1> QED
    BY <1>1, <1>2 DEF GroupOf

\* No case of a status that none is counted of has it.
LEMMA NoneOfStatus ==
  ASSUME NEW S, IsFiniteSet(S), NEW client, NEW status
  PROVE  /\ Tally(S, client, status) \in Nat
         /\ Tally(S, client, status) = 0 => \A c \in S : Status(c, client) # status
  <1> DEFINE R == {c \in S : Status(c, client) = status}
  <1>1. IsFiniteSet(R)
    BY FS_Subset
  <1>2. Cardinality(R) \in Nat /\ (Cardinality(R) = 0 => R = {})
    BY <1>1, FS_CardinalityType, FS_EmptySet
  <1> QED
    BY <1>2 DEF Tally

\* A case that is neither failed, in error nor unsupported is evidence.
LEMMA StatusEvident ==
  ASSUME NEW c, NEW client, Status(c, client) \notin {"fail", "error", "unsupported"}
  PROVE  Evident(c, client)
  <1>1. CASE ~c.needs \subseteq client.traits
    BY <1>1 DEF Evident
  <1>2. CASE c.needs \subseteq client.traits
    <2>1. Dispatchable(client, c.capability)
      BY <1>2 DEF Status
    <2>2. /\ Classify(client.rejectMap, client.does[c.id]) # Unclassified
          /\ c.expect = {client.does[c.id]}
      BY <1>2, <2>1 DEF Status
    <2>3. client.does[c.id] \notin RejectClass \ {r.class : r \in client.rejectMap}
      BY <2>2 DEF Classify
    <2> QED
      BY <2>1, <2>2, <2>3 DEF Evident
  <1> QED
    BY <1>1, <1>2

LEMMA GreenEvidence ==
  ASSUME NEW m, NEW client, NEW flags, IsFiniteSet(Cases(m)), RunnerExit(m, client, flags) = 0
  PROVE  /\ \A g \in m.groups : g.profile \in m.profiles
         /\ \A g \in m.groups : \A c \in g.cases :
              /\ g.profile \in ProfilesNamed(m, flags)
              /\ flags.cases # {} => c.id \in flags.cases
              /\ flags.groups # {} => g.name \in flags.groups
              => Evident(c, client)
  <1> DEFINE S == Selected(m, flags)
             f == Tally(S, client, "fail")
             e == Tally(S, client, "error")
             u == Tally(S, client, "unsupported")
  <1>1. IsFiniteSet(S)
    BY FS_Subset DEF Selected
  <1>2. Trustworthy(m, client) /\ ~(f + e > 0) /\ ~(u > 0)
    BY DEF RunnerExit
  <1>3. CasesSound(m) /\ ProfilesSound(m)
    BY <1>2 DEF Trustworthy
  <1>4. f \in Nat /\ e \in Nat /\ u \in Nat
    <2> HIDE DEF S
    <2> QED
      BY <1>1, NoneOfStatus
  <1>5. f = 0 /\ e = 0 /\ u = 0
    <2> HIDE DEF f, e, u
    <2> QED
      BY <1>2, <1>4
  <1>6. \A c \in S : Status(c, client) \notin {"fail", "error", "unsupported"}
    <2> HIDE DEF S
    <2> QED
      BY <1>1, <1>5, NoneOfStatus
  <1>7. ASSUME NEW g \in m.groups, NEW c \in g.cases,
               g.profile \in ProfilesNamed(m, flags),
               flags.cases # {} => c.id \in flags.cases,
               flags.groups # {} => g.name \in flags.groups
        PROVE  Evident(c, client)
    <2>1. c \in S
      BY <1>3, <1>7, GroupIs DEF Selected, ProfileOf
    <2> QED
      BY <1>6, <2>1, StatusEvident
  <1>8. \A g \in m.groups : g.profile \in m.profiles
    BY <1>3 DEF ProfilesSound
  <1> QED
    BY <1>7, <1>8

\* A green exit of the runner is evidence for every case that the flags ask for
\* (run.mjs 596-1182), whatever the manifest, the client and the flags.
THEOREM GreenRunEvident == ClientSpec => []GreenRunIsEvidence
  <1>1. job \in Jobs => GreenRunIsEvidence
    <2> SUFFICES ASSUME job \in Jobs, job.part = "runner",
                        RunnerExit(job.manifest, job.client, job.flags) = 0
                 PROVE  GreenRunIsEvidence
      BY DEF GreenRunIsEvidence, Doing
    <2>1. IsFiniteSet(Cases(job.manifest))
      BY JobsAssumption
    <2> QED
      BY <2>1, GreenEvidence DEF GreenRunIsEvidence
  <1> QED
    BY <1>1, JobStays, PTL

-----------------------------------------------------------------------------
(* The client's checks against the ledger's.                                *)
Band == (-MaxInt-1)..MaxInt

LEMMA Int64Is == \A v : ToInt64(v) = IF v \in Band THEN {v} ELSE {}
  BY DEF ToInt64, Band

LEMMA InBandIs == \A v : InBand(v) <=> v \in Band
  BY Int64Is DEF InBand

\* The first spelling with a value gives one value, and no absent one.
LEMMA GetIs ==
  ASSUME NEW policy, NEW f
  PROVE  /\ Absent \notin Get(policy, f)
         /\ \A v, w \in Get(policy, f) : v = w
  <1> DEFINE found == {i \in DOMAIN Spelling : policy[Spelling[i]][f] # Absent}
             first == {j \in found : \A k \in found : j <= k}
  <1>1. DOMAIN Spelling = 1..3
    BY DEF Spelling
  <1>2. \A i, j \in first : i = j
    BY <1>1
  <1>3. Get(policy, f) = {policy[Spelling[i]][f] : i \in first}
    BY DEF Get
  <1> QED
    BY <1>2, <1>3

LEMMA PolicyAgrees ==
  ASSUME NEW policy
  PROVE  /\ PolicyNumbers(policy) # {} <=>
              \A f \in IntFields : \E v \in Get(policy, f) : v # Absent /\ InBand(v)
         /\ \A p \in PolicyNumbers(policy) : ClientValidPolicy(policy) = {ValidPolicy(p)}
  <1> DEFINE value(f) == UNION {ToInt64(v) : v \in Get(policy, f)}
             numbers == [f \in IntFields |-> CHOOSE v \in value(f) : TRUE]
             has == \A f \in IntFields : value(f) # {}
  <1>1. PolicyNumbers(policy) = IF has THEN {numbers} ELSE {}
    BY DEF PolicyNumbers
  <1>2. has <=> \A f \in IntFields : \E v \in Get(policy, f) : v # Absent /\ InBand(v)
    BY GetIs, InBandIs, Int64Is
  <1> HIDE DEF has, numbers
  <1>3. \A p \in PolicyNumbers(policy) : PolicyNumbers(policy) = {p}
    BY <1>1
  <1>4. ASSUME NEW p \in PolicyNumbers(policy)
        PROVE  ClientValidPolicy(policy) = {ValidPolicy(p)}
    <2>1. ClientValidPolicy(policy) = {ValidPolicy(x) : x \in PolicyNumbers(policy)}
      BY Zenon DEF ClientValidPolicy, ValidPolicy
    <2>2. PolicyNumbers(policy) = {p}
      BY <1>3
    <2> QED
      BY <2>1, <2>2, Zenon
  <1> QED
    BY <1>1, <1>2, <1>4

LEMMA SettlementAgrees ==
  ASSUME NEW s,
         \A f \in {"stake", "returned", "forfeited", "payout", "maxPayout"} : s[f] \in Band
  PROVE  OutcomeAccepted("TimeLockedHolding", s.stake, s.maxPayout, s)
           <=> /\ SettlementIsValid(s) /\ s.forfeited = 0
               /\ s.disposition \notin {"Aborted", "ExpiredUnsettled"}
  <1>1. /\ s.stake \in Band /\ s.returned \in Band /\ s.forfeited \in Band
        /\ s.payout \in Band /\ s.maxPayout \in Band
    OBVIOUS
  <1>2. /\ s.stake \in Int /\ s.returned \in Int /\ s.forfeited \in Int
        /\ s.payout \in Int /\ s.maxPayout \in Int
    BY <1>1, MaxIntAssumption DEF Band
  <1>3. \A f \in {"stake", "returned", "forfeited", "payout", "maxPayout"} : ToInt64(s[f]) # {}
    BY Int64Is
  <1>4. Conserved(s.returned, s.forfeited, s.stake) <=> s.returned + s.forfeited = s.stake
    BY <1>1, Int64Is DEF Conserved
  <1> QED
    BY <1>2, <1>3, <1>4 DEF OutcomeAccepted, SettlementIsValid, Disposition

LEMMA TicksInBand == TicksPerSecond \in Band /\ TicksPerSecond \in Nat /\ TicksPerSecond > 0 /\ MaxInt \in Nat
  BY TicksPerSecondAssumption, MaxIntAssumption DEF Band

\* A quotient by the ticks of a second is closer to zero than what is divided.
LEMMA QuotientBounds ==
  ASSUME NEW n \in Nat
  PROVE  EpochSeconds(n) \in Nat /\ EpochSeconds(n) <= n
  <1>1. EpochSeconds(n) \in Nat /\ EpochSeconds(n) * TicksPerSecond <= n
    BY EpochSecondsBounds
  <1>2. \A q, k \in Nat : k > 0 => q <= q * k
    BY SMT
  <1>3. EpochSeconds(n) <= EpochSeconds(n) * TicksPerSecond
    BY <1>1, <1>2, TicksInBand
  <1>4. EpochSeconds(n) * TicksPerSecond \in Int
    BY <1>1, TicksInBand, SMT
  <1> QED
    BY <1>1, <1>3, <1>4

\* The client's seconds since the epoch: truncated toward zero.
Toward(t) == IF t < 0 THEN -EpochSeconds(-t) ELSE EpochSeconds(t)

LEMMA ClientEpochSecondsIs ==
  ASSUME NEW t \in Int
  PROVE  ClientEpochSeconds(t) = IF t \in Band THEN {Toward(t)} ELSE {}
  <1>1. CASE t \notin Band
    BY <1>1, Int64Is DEF ClientEpochSeconds
  <1>2. CASE t \in Band
    <2>1. ToInt64(t) = {t} /\ ToInt64(TicksPerSecond) = {TicksPerSecond} /\ TicksPerSecond # 0
      BY <1>2, Int64Is, TicksInBand
    <2>2. Truncated(t, TicksPerSecond) = Toward(t)
      BY TicksInBand DEF Truncated, Toward, EpochSeconds
    <2>3. Toward(t) \in Band
      <3>1. CASE t < 0
        BY <1>2, <3>1, QuotientBounds, TicksInBand DEF Toward, Band
      <3>2. CASE ~(t < 0)
        BY <1>2, <3>2, QuotientBounds, TicksInBand DEF Toward, Band
      <3> QED
        BY <3>1, <3>2
    <2>4. ToInt64(Toward(t)) = {Toward(t)}
      BY <2>3, Int64Is
    <2>5. IntDivide(t, TicksPerSecond) = {Toward(t)}
      BY <2>1, <2>2, <2>4 DEF IntDivide
    <2> QED
      BY <1>2, <2>1, <2>5 DEF ClientEpochSeconds
  <1> QED
    BY <1>1, <1>2

LEMMA TowardType ==
  ASSUME NEW t \in Int
  PROVE  Toward(t) \in Int /\ Toward(-t) = -Toward(t)
  <1>1. CASE t < 0
    <2>1. -t \in Nat /\ ~(-t < 0) /\ EpochSeconds(-t) \in Nat
      BY <1>1, QuotientBounds
    <2> QED
      BY <1>1, <2>1 DEF Toward
  <1>2. CASE t > 0
    <2>1. -t < 0 /\ t \in Nat /\ -(-t) = t /\ EpochSeconds(t) \in Nat
      BY <1>2, QuotientBounds
    <2> QED
      BY <1>2, <2>1 DEF Toward
  <1>3. CASE t = 0
    <2>1. EpochSeconds(0) = 0
      BY QuotientBounds
    <2> QED
      BY <1>3, <2>1 DEF Toward
  <1> QED
    BY <1>1, <1>2, <1>3

LEMMA BetweenAgrees ==
  ASSUME NEW a \in Nat, NEW b \in Nat, InBand(a), InBand(b)
  PROVE  ClientSecondsBetween(a, b) = {SecondsBetween(a, b)}
  <1>1. a \in Band /\ b \in Band /\ a \in Int /\ b \in Int
    BY InBandIs
  <1>2. ClientEpochSeconds(a) = {EpochSeconds(a)} /\ ClientEpochSeconds(b) = {EpochSeconds(b)}
    BY <1>1, ClientEpochSecondsIs DEF Toward
  <1>3. EpochSeconds(b) - EpochSeconds(a) \in Band
    BY <1>1, QuotientBounds, TicksInBand DEF Band
  <1>4. ToInt64(EpochSeconds(b) - EpochSeconds(a)) = {EpochSeconds(b) - EpochSeconds(a)}
    BY <1>3, Int64Is
  <1> QED
    BY <1>2, <1>4 DEF ClientSecondsBetween, SecondsBetween

\* A shift in the band is one by seconds in the band.
LEMMA ShiftInBand ==
  ASSUME NEW b \in Int, b * TicksPerSecond \in Band
  PROVE  b \in Band
  <1>1. \A n \in Int, k \in Nat :
             k > 0 => (n >= 0 => n <= n * k) /\ (n < 0 => n * k <= n)
    BY SMT
  <1>2. /\ b >= 0 => b <= b * TicksPerSecond
        /\ b < 0 => b * TicksPerSecond <= b
    BY <1>1, TicksInBand
  <1>3. b * TicksPerSecond \in Int
    BY TicksInBand DEF Band
  <1> QED
    BY <1>2, <1>3, TicksInBand DEF Band

LEMMA AddAgrees ==
  ASSUME NEW a \in Int, NEW b \in Int
  PROVE  /\ ClientAddSeconds(a, b) \subseteq {AddSeconds(a, b)}
         /\ ~InBand(a) => ClientAddSeconds(a, b) = {}
         /\ InBand(a) /\ InBand(b * TicksPerSecond) /\ InBand(AddSeconds(a, b)) =>
              ClientAddSeconds(a, b) # {}
  <1>1. \A m \in ToInt64(a), n \in ToInt64(b) : m = a /\ n = b
    BY Int64Is
  <1>2. \A shift \in ToInt64(b * TicksPerSecond) : shift = b * TicksPerSecond
    BY Int64Is
  <1>3. \A r \in ToInt64(a + b * TicksPerSecond) : r = AddSeconds(a, b)
    BY Int64Is DEF AddSeconds
  <1>4. ClientAddSeconds(a, b) \subseteq {AddSeconds(a, b)}
    BY <1>1, <1>2, <1>3 DEF ClientAddSeconds
  <1>5. ~InBand(a) => ClientAddSeconds(a, b) = {}
    BY DEF ClientAddSeconds, InBand
  <1>6. ASSUME InBand(a), InBand(b * TicksPerSecond), InBand(AddSeconds(a, b))
        PROVE  ClientAddSeconds(a, b) # {}
    <2>1. ToInt64(b) = {b} /\ ToInt64(a) = {a}
      BY <1>6, InBandIs, Int64Is, ShiftInBand
    <2>2. /\ ToInt64(b * TicksPerSecond) = {b * TicksPerSecond}
          /\ ToInt64(a + b * TicksPerSecond) = {AddSeconds(a, b)}
      BY <1>6, InBandIs, Int64Is DEF AddSeconds
    <2>3. UNION {ToInt64(a + shift) : shift \in ToInt64(b * TicksPerSecond)} = {AddSeconds(a, b)}
      BY <2>2
    <2>4. ClientAddSeconds(a, b) = UNION {{AddSeconds(a, b)}}
      BY <2>1, <2>3 DEF ClientAddSeconds
    <2> QED
      BY <2>4
  <1> QED
    BY <1>4, <1>5, <1>6

LEMMA ClockAgrees ==
  ASSUME NEW a \in Int, NEW b \in Int
  PROVE  /\ a >= 0 /\ b >= 0 /\ InBand(a) /\ InBand(b) =>
              ClientSecondsBetween(a, b) = {SecondsBetween(a, b)}
         /\ InBand(a) /\ InBand(-a) =>
              ClientEpochSeconds(-a) = {-n : n \in ClientEpochSeconds(a)}
         /\ ~InBand(a) => ClientEpochSeconds(a) = {} /\ ClientAddSeconds(a, b) = {}
         /\ ClientAddSeconds(a, b) \subseteq {AddSeconds(a, b)}
         /\ InBand(a) /\ InBand(b * TicksPerSecond) /\ InBand(AddSeconds(a, b)) =>
              ClientAddSeconds(a, b) # {}
  <1>1. a >= 0 /\ b >= 0 /\ InBand(a) /\ InBand(b) =>
          ClientSecondsBetween(a, b) = {SecondsBetween(a, b)}
    BY BetweenAgrees
  <1>2. ASSUME InBand(a), InBand(-a)
        PROVE  ClientEpochSeconds(-a) = {-n : n \in ClientEpochSeconds(a)}
    <2>1. ClientEpochSeconds(a) = {Toward(a)} /\ ClientEpochSeconds(-a) = {Toward(-a)}
      BY <1>2, InBandIs, ClientEpochSecondsIs
    <2> QED
      BY <2>1, TowardType
  <1>3. ~InBand(a) => ClientEpochSeconds(a) = {}
    BY InBandIs, ClientEpochSecondsIs
  <1> QED
    BY <1>1, <1>2, <1>3, AddAgrees

\* The client's checks of a policy and of a settlement, and its arithmetic of
\* time, are the contracts' (policy.js, settlement.js, ledgerTime.js against
\* Policy.daml, Cycle.daml 466-491, Time.daml), for every band and every number
\* of ticks per second that fits in it.
THEOREM ChecksAgree == ClientSpec => []ChecksAgreeWithLedger
  <1>1. job \in Jobs => ChecksAgreeWithLedger
    <2> SUFFICES ASSUME job \in Jobs PROVE ChecksAgreeWithLedger
      OBVIOUS
    <2>1. job.part = "clock" => job.from \in Int /\ job.to \in Int
      BY JobsAssumption
    <2>2. job.part = "settlement" =>
            \A f \in {"stake", "returned", "forfeited", "payout", "maxPayout"} :
              job.settlement[f] \in Band
      BY JobsAssumption DEF Band
    <2> QED
      BY <2>1, <2>2, PolicyAgrees, SettlementAgrees, ClockAgrees DEF ChecksAgreeWithLedger, Doing
  <1> QED
    BY <1>1, JobStays, PTL

-----------------------------------------------------------------------------
(* What the client builds.                                                  *)

\* One command, or two of which the second reads nothing: authorised by those
\* who act and given its arguments, and what is read is seen by one of them.
Authorised(p, s, command) ==
  Controllers(p, command) \subseteq s.actAs /\ Missing(command) = Omitted(command.choice)
SeesRead(p, s, command) ==
  command.reads # {} => (s.actAs \cup s.readAs) \cap {p.player, p.venue} # {}

Fits(p, s) ==
  /\ \A i \in 1..Len(s.commands) : /\ Controllers(p, s.commands[i]) \subseteq s.actAs
                                    /\ Missing(s.commands[i]) = Omitted(s.commands[i].choice)
  /\ \A i \in 1..Len(s.commands) : s.commands[i].reads # {} =>
       /\ (s.actAs \cup s.readAs) \cap {p.player, p.venue} # {}
       /\ \A j \in 1..(i-1) : s.commands[j].contract \notin s.commands[i].reads

LEMMA ConcatOfOnes ==
  ASSUME NEW c, NEW d
  PROVE  <<c>> \o <<>> = <<c>> /\ <<c>> \o <<d>> = <<c, d>>
  <1> DEFINE S == {c, d}
  <1>1. <<c>> \in Seq(S) /\ <<d>> \in Seq(S) /\ <<c, d>> \in Seq(S)
    OBVIOUS
  <1>2. /\ Len(<<c>>) = 1 /\ Len(<<d>>) = 1 /\ Len(<<c, d>>) = 2
        /\ <<c>>[1] = c /\ <<d>>[1] = d /\ <<c, d>>[1] = c /\ <<c, d>>[2] = d
    OBVIOUS
  <1>3. <<c>> \o <<>> = <<c>>
    BY <1>1, ConcatEmptySeq
  <1> DEFINE both == <<c>> \o <<d>>
  <1>4. /\ both \in Seq(S) /\ Len(both) = Len(<<c>>) + Len(<<d>>)
        /\ \A i \in 1..(Len(<<c>>) + Len(<<d>>)) :
             both[i] = IF i <= Len(<<c>>) THEN <<c>>[i] ELSE <<d>>[i - Len(<<c>>)]
    BY <1>1, ConcatProperties
  <1> HIDE DEF both
  <1>5. Len(both) = 2 /\ both[1] = c /\ both[2] = d
    BY <1>2, <1>4
  <1>6. \A i \in 1..2 : i = 1 \/ i = 2
    OBVIOUS
  <1>7. \A i \in 1..Len(both) : both[i] = <<c, d>>[i]
    BY <1>2, <1>5, <1>6
  <1>8. both = <<c, d>>
    <2> DEFINE two == <<c, d>>
    <2>1. two \in Seq(S) /\ Len(both) = Len(two) /\ \A i \in 1..Len(both) : both[i] = two[i]
      BY <1>1, <1>2, <1>5, <1>7
    <2> HIDE DEF two, S
    <2>2. both = two
      BY <1>4, <2>1, SeqEqual
    <2> QED
      BY <2>2 DEF two
  <1> QED
    BY <1>3, <1>8 DEF both

LEMMA OneCommand ==
  ASSUME NEW p, NEW s, NEW c, s.commands = <<c>>, Authorised(p, s, c), SeesRead(p, s, c)
  PROVE  Fits(p, s) /\ Len(s.commands) = 1
  <1>1. Len(<<c>>) = 1 /\ <<c>>[1] = c
    OBVIOUS
  <1>2. \A i \in 1..1 : i = 1 /\ 1..(i-1) = {}
    OBVIOUS
  <1> QED
    BY <1>1, <1>2 DEF Fits, Authorised, SeesRead

LEMMA TwoCommands ==
  ASSUME NEW p, NEW s, NEW c, NEW d, s.commands = <<c, d>>, d.reads = {},
         Authorised(p, s, c), Authorised(p, s, d), SeesRead(p, s, c)
  PROVE  Fits(p, s)
  <1>1. Len(<<c, d>>) = 2 /\ <<c, d>>[1] = c /\ <<c, d>>[2] = d
    OBVIOUS
  <1>2. \A i \in 1..2 : i = 1 \/ i = 2
    OBVIOUS
  <1>3. \A i \in 1..2 : /\ Controllers(p, s.commands[i]) \subseteq s.actAs
                        /\ Missing(s.commands[i]) = Omitted(s.commands[i].choice)
    BY <1>1, <1>2 DEF Authorised
  <1>4. 1..(1-1) = {}
    OBVIOUS
  <1>5. \A i \in 1..2 : s.commands[i].reads # {} =>
          /\ (s.actAs \cup s.readAs) \cap {p.player, p.venue} # {}
          /\ \A j \in 1..(i-1) : s.commands[j].contract \notin s.commands[i].reads
    BY <1>1, <1>2, <1>4 DEF SeesRead
  <1> QED
    BY <1>1, <1>3, <1>5 DEF Fits

\* The stake's output, and no other, is locked as the terms say.
LEMMA LockedOutput ==
  ASSUME NEW p, NEW o, NEW fee, NEW tag, o.stakeAmount \in Nat, NEW stake,
         stake.terms = StakeTerms(p, o, fee, tag)
  PROVE  Cardinality({x \in Outputs(p, o, tag) : LockProves(p, x, stake)}) = 1
  <1> DEFINE lock == [holders |-> {p.venue}, expiresAt |-> o.lockExpiresAt, context |-> tag]
             kept == [receiver |-> p.player, amount |-> o.stakeAmount, lock |-> {lock}]
  <1>1. \A x \in Outputs(p, o, tag) : x = kept \/ x.lock = {}
    BY DEF Outputs
  <1>2. kept \in Outputs(p, o, tag)
    BY DEF Outputs
  <1>3. LockProves(p, kept, stake)
    <2>1. /\ stake.terms.stakeAmount = o.stakeAmount
          /\ stake.terms.lockExpiresAt = o.lockExpiresAt
          /\ stake.terms.custodyTag = tag
      BY DEF StakeTerms
    <2>2. kept.receiver = p.player /\ kept.amount = o.stakeAmount /\ kept.lock = {lock}
      OBVIOUS
    <2>3. p.venue \in lock.holders /\ lock.expiresAt = o.lockExpiresAt /\ lock.context = tag
      OBVIOUS
    <2>4. o.stakeAmount >= o.stakeAmount
      OBVIOUS
    <2> HIDE DEF kept, lock
    <2> QED
      BY <2>1, <2>2, <2>3, <2>4 DEF LockProves
  <1>4. {x \in Outputs(p, o, tag) : LockProves(p, x, stake)} = {kept}
    <2> HIDE DEF kept
    <2> QED
      BY <1>1, <1>2, <1>3 DEF LockProves
  <1> QED
    BY <1>4, FS_Singleton

\* What a commitment creates is its stake.
LEMMA StakeOf ==
  ASSUME NEW p, NEW o, NEW fee, NEW tag
  PROVE  LET c == CommitOn(p, o, fee, tag) IN
         /\ c.choice = "Entitlement_Commit" /\ c.reads = {}
         /\ c.given = Required("Entitlement_Commit")
         /\ c.creates = {[cycleId |-> o.cycleId, entryDigest |-> o.entryDigest,
                          terms |-> StakeTerms(p, o, fee, tag)]}
  BY DEF CommitOn, Exercise, Required

LEMMA StakeNamed ==
  ASSUME NEW p, NEW o, NEW fee, NEW tag \in CustodyTagFor(o.cycleId, o.entryDigest),
         NEW stake \in CommitOn(p, o, fee, tag).creates
  PROVE  stake.terms = StakeTerms(p, o, fee, tag) /\ TermsNameCycle(p, stake)
  <1>1. /\ stake.terms = StakeTerms(p, o, fee, tag) /\ stake.cycleId = o.cycleId
        /\ stake.entryDigest = o.entryDigest
    BY StakeOf
  <1>2. tag = CUSTODY_TAG_PREFIX \o o.cycleId \o <<":">> \o o.entryDigest
    BY DEF CustodyTagFor
  <1>3. /\ stake.terms.feeReceiver = p.venue /\ stake.terms.lockHolders = {p.venue}
        /\ stake.terms.custodyTag = tag
    BY <1>1 DEF StakeTerms
  <1>4. stake.terms.custodyTag = CUSTODY_TAG_PREFIX \o stake.cycleId \o <<":">> \o stake.entryDigest
    BY <1>1, <1>2, <1>3, Zenon
  <1> QED
    BY <1>1, <1>3, <1>4 DEF TermsNameCycle

CommitSubmission(p, o, fee, tag) ==
  Submission("commit-", o.cycleId, {p.player, p.venue, p.operator}, {p.player, p.venue},
    << Pay(Outputs(p, o, tag)), CommitOn(p, o, fee, tag) >>)

LEMMA CommitBuilt ==
  ASSUME NEW p, NEW o, NEW s \in CommitCommands(p, o)
  PROVE  \E fee \in o.feeAmount, tag \in CustodyTagFor(o.cycleId, o.entryDigest) :
           s = CommitSubmission(p, o, fee, tag)
  <1>1. \E fee \in o.feeAmount, tag \in {t \in CustodyTagFor(o.cycleId, o.entryDigest) : o.inputs # {}} :
          s = CommitSubmission(p, o, fee, tag)
    BY DEF CommitCommands, CommitSubmission
  <1> QED
    BY <1>1

LEMMA CommitFits ==
  ASSUME NEW p, NEW o, o.stakeAmount \in Nat, NEW s \in CommitCommands(p, o)
  PROVE  /\ Fits(p, s) /\ Len(s.commands) = 2
         /\ \A stake \in s.commands[2].creates :
              /\ TermsNameCycle(p, stake)
              /\ Cardinality({x \in s.commands[1].creates : LockProves(p, x, stake)}) = 1
  <1>1. PICK fee \in o.feeAmount, tag \in CustodyTagFor(o.cycleId, o.entryDigest) :
          s = CommitSubmission(p, o, fee, tag)
    BY CommitBuilt
  <1> DEFINE c == Pay(Outputs(p, o, tag))
             d == CommitOn(p, o, fee, tag)
  <1>2. s.commands = <<c, d>> /\ s.actAs = {p.player, p.venue, p.operator}
    BY <1>1 DEF Submission, CommitSubmission
  <1>3. /\ c.choice = "AmuletRules_Transfer" /\ c.reads = {} /\ c.creates = Outputs(p, o, tag)
        /\ Missing(c) = {}
    BY DEF Exercise, Pay, Missing, Required
  <1>4. d.choice = "Entitlement_Commit" /\ d.reads = {} /\ Missing(d) = {}
    BY StakeOf DEF Missing
  <1>5. \A stake \in d.creates : /\ stake.terms = StakeTerms(p, o, fee, tag)
                                /\ TermsNameCycle(p, stake)
    BY StakeNamed
  <1> HIDE DEF c, d
  <1>6. Authorised(p, s, c) /\ Authorised(p, s, d) /\ SeesRead(p, s, c)
    BY <1>2, <1>3, <1>4 DEF Authorised, SeesRead, Controllers, Omitted
  <1>7. Fits(p, s)
    BY <1>2, <1>4, <1>6, TwoCommands
  <1>8. Len(<<c, d>>) = 2 /\ <<c, d>>[1] = c /\ <<c, d>>[2] = d
    OBVIOUS
  <1>9. \A stake \in d.creates :
          Cardinality({x \in c.creates : LockProves(p, x, stake)}) = 1
    BY <1>3, <1>5, LockedOutput
  <1> QED
    BY <1>2, <1>5, <1>7, <1>8, <1>9

LEMMA DryRunFits ==
  ASSUME NEW p, NEW o, NEW s \in DryRunCommitCommands(p, o)
  PROVE  /\ Fits(p, s) /\ Len(s.commands) = 1
         /\ \A stake \in s.commands[1].creates : TermsNameCycle(p, stake)
  <1>1. PICK tag \in CustodyTagFor(o.cycleId, o.entryDigest) :
          s = Submission("dryrun-commit-", o.cycleId, {p.player, p.venue, p.operator},
                {p.player, p.venue}, << CommitOn(p, o, 0, tag) >>)
    BY DEF DryRunCommitCommands
  <1> DEFINE d == CommitOn(p, o, 0, tag)
  <1>2. s.commands = <<d>> /\ s.actAs = {p.player, p.venue, p.operator}
    BY <1>1 DEF Submission
  <1>3. d.choice = "Entitlement_Commit" /\ d.reads = {} /\ Missing(d) = {}
    BY StakeOf DEF Missing
  <1>4. \A stake \in d.creates : TermsNameCycle(p, stake)
    BY StakeNamed
  <1> HIDE DEF d
  <1>5. Authorised(p, s, d) /\ SeesRead(p, s, d)
    BY <1>2, <1>3 DEF Authorised, SeesRead, Controllers, Omitted
  <1>6. <<d>>[1] = d
    OBVIOUS
  <1> QED
    BY <1>2, <1>4, <1>5, <1>6, OneCommand

\* A settlement comes before the unlock, which reads nothing.
LEMMA SettleFits ==
  ASSUME NEW p, NEW o, NEW s \in SettleCommands(p, o)
  PROVE  Fits(p, s)
  <1> DEFINE c == SettleOn(o)
             d == Exercise("LockedAmulet_UnlockV2", OrEmpty(o.lockedAmuletCid), {})
             rest == IF o.lockedAmuletCid = {} THEN <<>> ELSE <<d>>
             who == {p.operator, p.venue, p.player}
  <1>1. s = Submission("settle-", Start(o.stakeCid), who, who, <<c>> \o rest)
    BY DEF SettleCommands
  <1>2. s.commands = <<c>> \o rest /\ s.actAs = who /\ s.readAs = who
    BY <1>1 DEF Submission
  <1>3. /\ c.choice = "GameStake_Settle" /\ d.choice = "LockedAmulet_UnlockV2" /\ d.reads = {}
        /\ Missing(c) = {} /\ Missing(d) = {}
    BY DEF SettleOn, Exercise, Missing, Required
  <1> HIDE DEF c, d
  <1>4. Authorised(p, s, c) /\ Authorised(p, s, d) /\ SeesRead(p, s, c)
    BY <1>2, <1>3 DEF Authorised, SeesRead, Controllers, Omitted
  <1>5. <<c>> \o <<>> = <<c>> /\ <<c>> \o <<d>> = <<c, d>>
    BY ConcatOfOnes
  <1>6. s.commands = <<c>> \/ s.commands = <<c, d>>
    BY <1>2, <1>5
  <1> QED
    BY <1>3, <1>4, <1>6, OneCommand, TwoCommands

LEMMA ExpireFits ==
  ASSUME NEW p, NEW o, NEW s \in ExpireCommands(p, o)
  PROVE  Fits(p, s)
  <1> DEFINE c == Exercise("GameStake_ExpireUnsettled", o.stakeCid, {})
             d == Exercise("LockedAmulet_OwnerExpireLockV2", OrEmpty(o.lockedAmuletCid), {})
             rest == IF o.lockedAmuletCid = {} THEN <<>> ELSE <<d>>
  <1>1. s = Submission("expire-", Start(o.stakeCid), {p.player}, {p.player}, <<c>> \o rest)
    BY DEF ExpireCommands
  <1>2. s.commands = <<c>> \o rest /\ s.actAs = {p.player}
    BY <1>1 DEF Submission
  <1>3. /\ c.choice = "GameStake_ExpireUnsettled" /\ c.reads = {}
        /\ d.choice = "LockedAmulet_OwnerExpireLockV2" /\ d.reads = {}
        /\ Missing(c) = {} /\ Missing(d) = {}
    BY DEF Exercise, Missing, Required
  <1> HIDE DEF c, d
  <1>4. Authorised(p, s, c) /\ Authorised(p, s, d) /\ SeesRead(p, s, c)
    BY <1>2, <1>3 DEF Authorised, SeesRead, Controllers, Omitted
  <1>5. <<c>> \o <<>> = <<c>> /\ <<c>> \o <<d>> = <<c, d>>
    BY ConcatOfOnes
  <1>6. s.commands = <<c>> \/ s.commands = <<c, d>>
    BY <1>2, <1>5
  <1> QED
    BY <1>3, <1>4, <1>6, OneCommand, TwoCommands

LEMMA AbortFits ==
  ASSUME NEW p, NEW o, NEW s \in AbortCommands(p, o)
  PROVE  Fits(p, s)
  <1> DEFINE c == AbortOn(o)
  <1>1. s = Submission("abort-", Start(o.stakeCid), {p.operator, p.player},
                       {p.operator, p.venue, p.player}, <<c>>)
    BY DEF AbortCommands
  <1>2. /\ s.commands = <<c>> /\ s.actAs = {p.operator, p.player}
        /\ s.readAs = {p.operator, p.venue, p.player}
    BY <1>1 DEF Submission
  <1>3. c.choice = "GameStake_Abort" /\ Missing(c) = {}
    BY DEF AbortOn, Exercise, Missing, Required
  <1> HIDE DEF c
  <1>4. Authorised(p, s, c) /\ SeesRead(p, s, c)
    BY <1>2, <1>3 DEF Authorised, SeesRead, Controllers, Omitted
  <1> QED
    BY <1>2, <1>4, OneCommand

LEMMA ProposeFits ==
  ASSUME NEW p, NEW t, NEW s \in TradeProposalCommands(p.venue, t)
  PROVE  Fits(p, s)
  <1> DEFINE c == ProposalOf(t)
  <1>1. s = Submission("trade-propose-", t.tradeId, {t.maker}, {t.maker, p.venue}, <<c>>)
    BY DEF TradeProposalCommands
  <1>2. s.commands = <<c>> /\ s.actAs = {t.maker}
    BY <1>1 DEF Submission
  <1>3. /\ c.choice = "Create TradeProposal" /\ c.contract = t.maker /\ c.reads = {}
        /\ Missing(c) = {}
    BY DEF ProposalOf, Exercise, Missing, Required
  <1> HIDE DEF c
  <1>4. Authorised(p, s, c) /\ SeesRead(p, s, c)
    BY <1>2, <1>3 DEF Authorised, SeesRead, Controllers, Omitted
  <1> QED
    BY <1>2, <1>4, OneCommand

LEMMA TradeFits ==
  ASSUME NEW p, NEW maker, NEW taker, NEW cid, NEW allocations,
         NEW s \in TradeSettleCommands(p.venue, maker, taker, cid, allocations)
                     \cup TradeCancelCommands(p.venue, cid)
  PROVE  Fits(p, s)
  <1> DEFINE c == [Exercise("Trade_Settle", cid, {"allocations"}) EXCEPT !.reads = allocations]
             d == Exercise("Trade_Cancel", cid, {"reason"})
             who == {p.venue, maker} \cup taker
  <1>1. \/ s = Submission("trade-settle-", Start(cid), {p.venue}, who, <<c>>)
        \/ s = Submission("trade-cancel-", Start(cid), {p.venue}, {}, <<d>>)
    BY DEF TradeSettleCommands, TradeCancelCommands
  <1>2. s.actAs = {p.venue} /\ (s.commands = <<c>> \/ s.commands = <<d>>)
    BY <1>1 DEF Submission
  <1>3. /\ c.choice = "Trade_Settle" /\ d.choice = "Trade_Cancel" /\ d.reads = {}
        /\ Missing(c) = {} /\ Missing(d) = {"allocationsToCancel"}
    BY DEF Exercise, Missing, Required
  <1> HIDE DEF c, d
  <1>4. /\ Authorised(p, s, c) /\ SeesRead(p, s, c)
        /\ Authorised(p, s, d) /\ SeesRead(p, s, d)
    BY <1>2, <1>3 DEF Authorised, SeesRead, Controllers, Omitted
  <1> QED
    BY <1>2, <1>4, OneCommand

LEMMA TransferFits ==
  ASSUME NEW p, NEW t, t.sender = p.player, NEW s \in TransferCommands(p.venue, t)
  PROVE  Fits(p, s)
  <1> DEFINE paid == {[receiver |-> t.recipients[i].receiver, amount |-> t.recipients[i].amount,
                       lock |-> {}] : i \in DOMAIN t.recipients}
             c == Pay(paid)
  <1>1. s = Submission("transfer-", t.transferId, {t.sender, p.venue}, {t.sender, p.venue}, <<c>>)
    BY DEF TransferCommands
  <1>2. s.commands = <<c>> /\ s.actAs = {p.player, p.venue}
    BY <1>1 DEF Submission
  <1>3. c.choice = "AmuletRules_Transfer" /\ c.reads = {} /\ Missing(c) = {}
    BY DEF Exercise, Pay, Missing, Required
  <1> HIDE DEF c
  <1>4. Authorised(p, s, c) /\ SeesRead(p, s, c)
    BY <1>2, <1>3 DEF Authorised, SeesRead, Controllers, Omitted
  <1> QED
    BY <1>2, <1>4, OneCommand

\* Whatever the parties, the ids, the digests, the fee and the expiry are, what
\* the client builds has the authority and the arguments its choices ask for, but
\* for the cancellation of a trade, whose builder always omits one; and a stake
\* committed live has exactly one output that will prove its custody (cycle.js
\* 82-457, trade.js 130-221, transfer.js 75-160).
THEOREM SubmissionsFit == ClientSpec => []SubmissionsFitLedger
  <1>1. job \in Jobs => SubmissionsFitLedger
    <2> SUFFICES ASSUME job \in Jobs, job.part = "calls",
                        NEW s \in Built(job.parties, job.call)
                 PROVE  LET p == job.parties  n == Len(s.commands)
                            stakes(c) == {x \in c.creates : "terms" \in DOMAIN x}
                        IN  /\ Fits(p, s)
                            /\ job.call.builder \in {"commit", "dryrun-commit"} =>
                                 \A stake \in stakes(s.commands[n]) :
                                   /\ TermsNameCycle(p, stake)
                                   /\ n = 2 => Cardinality({x \in s.commands[1].creates :
                                                             LockProves(p, x, stake)}) = 1
      BY DEF SubmissionsFitLedger, Doing, Fits
    <2> DEFINE p == job.parties
               call == job.call
    <2>1. CASE call.builder = "commit"
      <3>1. s \in CommitCommands(p, call) /\ call.stakeAmount \in Nat
        BY <2>1, JobsAssumption DEF Built
      <3> QED
        BY <3>1, CommitFits
    <2>2. CASE call.builder = "dryrun-commit"
      <3>1. s \in DryRunCommitCommands(p, call)
        BY <2>2 DEF Built
      <3>2. /\ Fits(p, s) /\ Len(s.commands) = 1
            /\ \A stake \in s.commands[1].creates : TermsNameCycle(p, stake)
        BY <3>1, DryRunFits
      <3> QED
        BY <3>2
    <2>3. CASE call.builder \notin {"commit", "dryrun-commit"}
      <3>1. call.builder \in {"settle", "abort", "expire", "propose", "trade-settle",
                             "trade-cancel", "transfer"}
        BY <2>3, JobsAssumption DEF Builders
      <3>2. Fits(p, s)
        BY <3>1, JobsAssumption, SettleFits, AbortFits, ExpireFits, ProposeFits,
           TradeFits, TransferFits DEF Built
      <3> QED
        BY <2>3, <3>2
    <2> QED
      BY <2>1, <2>2, <2>3
  <1> QED
    BY <1>1, JobStays, PTL

-----------------------------------------------------------------------------
(* The generated suite.  A case of the sources and its entry in the         *)
(* manifest have one id, so what the runner counts of entries it counts of  *)
(* cases.                                                                   *)
Entry(source, client, c) ==
  [ id |-> c.id, capability |-> c.capability, needs |-> c.needs,
    expect |-> Expectation(source, client, c), pinned |-> c.pinned ]
EntryGroup(source, client, g) ==
  [ name |-> g.name, profile |-> g.profile,
    cases |-> {Entry(source, client, c) : c \in g.cases}, stated |-> Cardinality(g.cases) ]

\* A function that takes no value twice has as many values on a set as the set.
LEMMA ImageSize ==
  ASSUME NEW f, NEW S \in SUBSET (DOMAIN f), IsFiniteSet(S),
         \A x, y \in S : f[x] = f[y] => x = y
  PROVE  /\ IsFiniteSet({f[x] : x \in S})
         /\ Cardinality({f[x] : x \in S}) = Cardinality(S)
  <1>1. \A t : t \in {f[x] : x \in S} <=> \E x \in S : t = f[x]
    OBVIOUS
  <1> QED
    BY <1>1, SameSize

\* What an exit of zero says of the sources and of the client.
Good(source, client) ==
  /\ IsFiniteSet(Cases(source))
  /\ \A c \in Cases(source) : c.written # Unclassified
  /\ \A v \in source.vectors : v.literal # Unclassified
  /\ PackageResolves(client) /\ SourcesRead(source) /\ NoProblems(source, client)

LEMMA CaseGroup ==
  ASSUME NEW source, SourcesRead(source), NEW g \in source.groups, NEW c \in g.cases
  PROVE  /\ c \in Cases(source) /\ GroupOf(source, c) = g /\ CaseSound(source, c)
         /\ \A h \in source.groups : \A d \in h.cases : c.id = d.id => c = d /\ h = g
  <1>1. c \in Cases(source)
    BY DEF Cases
  <1>2. CaseSound(source, c)
    BY <1>1 DEF SourcesRead
  <1>3. \A h \in source.groups : \A d \in h.cases : c.id = d.id => c = d /\ h = g
    BY <1>2 DEF CaseSound
  <1>4. \A h \in source.groups : c \in h.cases => h = g
    BY <1>3
  <1> QED
    BY <1>1, <1>2, <1>3, <1>4 DEF GroupOf

LEMMA IdsApart ==
  ASSUME NEW source, SourcesRead(source), NEW c \in Cases(source), NEW d \in Cases(source),
         c.id = d.id
  PROVE  c = d
  BY CaseGroup DEF Cases

LEMMA ManifestGroups ==
  ASSUME NEW source, NEW client, NEW x
  PROVE  x \in Manifest(source, client).groups
           <=> \E g \in source.groups : x = EntryGroup(source, client, g)
  <1>1. Manifest(source, client).groups = {EntryGroup(source, client, g) : g \in source.groups}
    BY DEF Manifest, EntryGroup, Entry
  <1> QED
    BY <1>1

LEMMA ManifestCapabilities ==
  ASSUME NEW source, NEW client, NEW x
  PROVE  x \in Manifest(source, client).capabilities
           <=> \E cap \in source.capabilities :
                 x = [id |-> cap.id, profile |-> cap.profile, implJs |-> cap.implJs]
  BY DEF Manifest

LEMMA ManifestIs ==
  ASSUME NEW source, NEW client
  PROVE  /\ Manifest(source, client).profiles = source.profiles
         /\ DOMAIN Manifest(source, client).byProfile = source.profiles
         /\ \A p \in source.profiles : Manifest(source, client).byProfile[p] = Cardinality(CasesIn(source, p))
         /\ Manifest(source, client).retiredIds = {}
         /\ Manifest(source, client).rejectMap = client.rejectMap
         /\ Manifest(source, client).divergences = Divergences(source, client)
         /\ Manifest(source, client).totalCases = Cardinality(Cases(source))
         /\ Manifest(source, client).divergentCases = Cardinality(Divergences(source, client))
  BY DEF Manifest

LEMMA EntriesAre ==
  ASSUME NEW source, NEW client
  PROVE  Cases(Manifest(source, client)) = {Entry(source, client, c) : c \in Cases(source)}
  <1> DEFINE m == Manifest(source, client)
  <1>1. \A x : x \in m.groups <=> \E g \in source.groups : x = EntryGroup(source, client, g)
    BY ManifestGroups
  <1> HIDE DEF m
  <1>2. \A g : EntryGroup(source, client, g).cases = {Entry(source, client, c) : c \in g.cases}
    BY DEF EntryGroup
  <1>3. \A x : x \in Cases(m) <=> \E g \in source.groups : \E c \in g.cases : x = Entry(source, client, c)
    BY <1>1, <1>2 DEF Cases
  <1>4. \A x : x \in {Entry(source, client, c) : c \in Cases(source)}
               <=> \E g \in source.groups : \E c \in g.cases : x = Entry(source, client, c)
    BY DEF Cases
  <1> QED
    BY <1>3, <1>4 DEF m

LEMMA EntryKeepsId ==
  ASSUME NEW source, NEW client, NEW c
  PROVE  /\ Entry(source, client, c).id = c.id
         /\ Entry(source, client, c).capability = c.capability
         /\ Entry(source, client, c).needs = c.needs
         /\ Entry(source, client, c).pinned = c.pinned
         /\ Entry(source, client, c).expect = Expectation(source, client, c)
  BY DEF Entry

\* Cases counted by their entries.
LEMMA EntriesCounted ==
  ASSUME NEW source, SourcesRead(source), NEW client, NEW S \in SUBSET Cases(source), IsFiniteSet(S)
  PROVE  /\ IsFiniteSet({Entry(source, client, c) : c \in S})
         /\ Cardinality({Entry(source, client, c) : c \in S}) = Cardinality(S)
  <1> DEFINE f == [c \in S |-> Entry(source, client, c)]
  <1>1. \A x, y \in S : f[x] = f[y] => x = y
    BY EntryKeepsId, IdsApart
  <1>2. S \in SUBSET (DOMAIN f) /\ {f[x] : x \in S} = {Entry(source, client, c) : c \in S}
    OBVIOUS
  <1> HIDE DEF f
  <1>3. /\ IsFiniteSet({f[x] : x \in S})
        /\ Cardinality({f[x] : x \in S}) = Cardinality(S)
    BY <1>1, <1>2, ImageSize
  <1> QED
    BY <1>2, <1>3

\* The entries of a case's group, and so of its profile.
LEMMA EntryGroupOf ==
  ASSUME NEW source, SourcesRead(source), NEW client, NEW g \in source.groups, NEW c \in g.cases
  PROVE  GroupOf(Manifest(source, client), Entry(source, client, c)) = EntryGroup(source, client, g)
  <1> DEFINE m == Manifest(source, client)
             e == Entry(source, client, c)
             k == EntryGroup(source, client, g)
  <1>1. \A h : EntryGroup(source, client, h).cases = {Entry(source, client, d) : d \in h.cases}
    BY DEF EntryGroup
  <1>2. k \in m.groups /\ e \in k.cases
    BY <1>1, ManifestGroups
  <1>3. ASSUME NEW x \in m.groups, e \in x.cases
        PROVE  x = k
    <2>1. PICK h \in source.groups : x = EntryGroup(source, client, h)
      BY ManifestGroups
    <2>2. PICK d \in h.cases : e = Entry(source, client, d)
      BY <1>1, <1>3, <2>1
    <2>3. d.id = c.id
      BY <2>2, EntryKeepsId
    <2>4. h = g
      BY <2>3, CaseGroup
    <2> QED
      BY <2>1, <2>4
  <1> HIDE DEF m, e, k
  <1>4. GroupOf(m, e) = k
    BY <1>2, <1>3 DEF GroupOf
  <1> QED
    BY <1>4 DEF m, e, k

LEMMA EntriesIn ==
  ASSUME NEW source, SourcesRead(source), NEW client, NEW p
  PROVE  CasesIn(Manifest(source, client), p) = {Entry(source, client, c) : c \in CasesIn(source, p)}
  <1> DEFINE m == Manifest(source, client)
  <1>1. \A g : EntryGroup(source, client, g).profile = g.profile
    BY DEF EntryGroup
  <1>2. ASSUME NEW c \in Cases(source)
        PROVE  ProfileOf(m, Entry(source, client, c)) = ProfileOf(source, c)
    <2>1. PICK g \in source.groups : c \in g.cases
      BY DEF Cases
    <2> QED
      BY <1>1, <2>1, CaseGroup, EntryGroupOf DEF ProfileOf
  <1>3. Cases(m) = {Entry(source, client, c) : c \in Cases(source)}
    BY EntriesAre
  <1> HIDE DEF m
  <1>4. \A x : x \in CasesIn(m, p) <=> \E c \in CasesIn(source, p) : x = Entry(source, client, c)
    BY <1>2, <1>3 DEF CasesIn
  <1> QED
    BY <1>4 DEF m

\* The literal of a case is one.
LEMMA AnchorIs ==
  ASSUME NEW source, SourcesRead(source), NEW c
  PROVE  /\ Anchor(source, c) = {} \/ \E v \in source.vectors : v.key = c.id /\ Anchor(source, c) = {v.literal}
         /\ Anchor(source, c) # {} => \E v \in source.vectors : v.key = c.id
  <1>1. \A v, w \in source.vectors : v.key = w.key => v = w
    BY DEF SourcesRead
  <1>2. CASE \E v \in source.vectors : v.key = c.id
    <2>1. PICK v \in source.vectors : v.key = c.id
      BY <1>2
    <2>2. {w \in source.vectors : w.key = c.id} = {v}
      BY <1>1, <2>1
    <2>3. Anchor(source, c) = {w.literal : w \in {v}}
      BY <2>2 DEF Anchor
    <2> QED
      BY <2>1, <2>3
  <1>3. CASE ~\E v \in source.vectors : v.key = c.id
    BY <1>3 DEF Anchor
  <1> QED
    BY <1>2, <1>3

LEMMA ExpectationOne ==
  ASSUME NEW source, SourcesRead(source), NEW client, NEW c
  PROVE  \E x : Expectation(source, client, c) = {x}
  BY AnchorIs DEF Expectation

LEMMA CapabilitiesNamed ==
  ASSUME NEW source, NEW client
  PROVE  CapabilityIds(Manifest(source, client)) = CapabilityIds(source)
  <1> DEFINE m == Manifest(source, client)
             short(cap) == [id |-> cap.id, profile |-> cap.profile, implJs |-> cap.implJs]
  <1>1. \A cap : short(cap).id = cap.id
    OBVIOUS
  <1>2. \A x : x \in m.capabilities <=> \E cap \in source.capabilities : x = short(cap)
    BY ManifestCapabilities
  <1> HIDE DEF m, short
  <1>3. CapabilityIds(m) = CapabilityIds(source)
    BY <1>1, <1>2 DEF CapabilityIds
  <1> QED
    BY <1>3 DEF m

\* What an exit of zero vouches for of a case.
LEMMA GoodCase ==
  ASSUME NEW source, NEW client, Good(source, client), NEW c \in Cases(source)
  PROVE  /\ ReferenceHolds(source, client, c) /\ AnchorHolds(source, client, c)
         /\ WrittenHolds(source, client, c) /\ CaseSound(source, c) /\ c.pinned
  BY DEF Good, NoProblems, SourcesRead, AssemblyHolds

LEMMA ManifestCasesSound ==
  ASSUME NEW source, NEW client, Good(source, client)
  PROVE  CasesSound(Manifest(source, client))
  <1> DEFINE m == Manifest(source, client)
  <1>0. SourcesRead(source)
    BY DEF Good
  <1>1. \A x : x \in Cases(m) <=> \E c \in Cases(source) : x = Entry(source, client, c)
    BY EntriesAre
  <1>2. \A g : EntryGroup(source, client, g).cases = {Entry(source, client, c) : c \in g.cases}
    BY DEF EntryGroup
  <1>3. \A x : x \in m.groups <=> \E g \in source.groups : x = EntryGroup(source, client, g)
    BY ManifestGroups
  <1>4. m.retiredIds = {}
    BY ManifestIs
  <1>5. CapabilityIds(m) = CapabilityIds(source)
    BY CapabilitiesNamed
  <1> HIDE DEF m
  <1>6. ASSUME NEW x \in Cases(m), NEW y \in Cases(m), x.id = y.id
        PROVE  x = y
    <2>1. PICK c \in Cases(source), d \in Cases(source) :
             x = Entry(source, client, c) /\ y = Entry(source, client, d)
      BY <1>1
    <2>2. c.id = d.id
      BY <1>6, <2>1, EntryKeepsId
    <2> QED
      BY <1>0, <2>1, <2>2, IdsApart
  <1>7. ASSUME NEW x \in m.groups, NEW y \in m.groups, NEW e \in x.cases, e \in y.cases
        PROVE  x = y
    <2>1. PICK g \in source.groups, h \in source.groups :
             x = EntryGroup(source, client, g) /\ y = EntryGroup(source, client, h)
      BY <1>3
    <2> SUFFICES ASSUME x = EntryGroup(source, client, g), y = EntryGroup(source, client, h)
                 PROVE  x = y
      BY <2>1
    <2>2. e \in {Entry(source, client, c) : c \in g.cases} /\ e \in {Entry(source, client, d) : d \in h.cases}
      BY <1>2, <1>7
    <2>3. PICK c \in g.cases : e = Entry(source, client, c)
      BY <2>2
    <2>4. PICK d \in h.cases : e = Entry(source, client, d)
      BY <2>2
    <2>5. e.id = c.id
      BY <2>3, EntryKeepsId
    <2>6. e.id = d.id
      BY <2>4, EntryKeepsId
    <2>7. c.id = d.id
      BY <2>5, <2>6
    <2>8. g = h
      BY <1>0, <2>7, CaseGroup
    <2> QED
      BY <2>8
  <1>8. ASSUME NEW x \in Cases(m)
        PROVE  /\ x.id \notin m.retiredIds /\ x.capability \in CapabilityIds(m)
               /\ Cardinality(x.expect) = 1 /\ x.pinned
    <2>1. PICK c \in Cases(source) : x = Entry(source, client, c)
      BY <1>1
    <2>2. c.pinned /\ c.capability \in CapabilityIds(source)
      BY GoodCase DEF CaseSound
    <2>3. Cardinality(Expectation(source, client, c)) = 1
      <3>1. PICK v : Expectation(source, client, c) = {v}
        BY <1>0, ExpectationOne
      <3> QED
        BY <3>1, FS_Singleton
    <2> QED
      BY <1>4, <1>5, <2>1, <2>2, <2>3, EntryKeepsId
  <1>9. CasesSound(m)
    BY <1>6, <1>7, <1>8 DEF CasesSound
  <1> QED
    BY <1>9 DEF m

LEMMA ManifestProfilesSound ==
  ASSUME NEW source, NEW client, Good(source, client)
  PROVE  ProfilesSound(Manifest(source, client))
  <1> DEFINE m == Manifest(source, client)
  <1>0. SourcesRead(source) /\ AssemblyHolds(source) /\ IsFiniteSet(Cases(source))
    BY DEF Good, NoProblems
  <1>1. \A g : EntryGroup(source, client, g).profile = g.profile
    BY DEF EntryGroup
  <1>2. \A x : x \in m.groups => \E g \in source.groups : x = EntryGroup(source, client, g)
    BY ManifestGroups
  <1>3. /\ m.profiles = source.profiles /\ DOMAIN m.byProfile = source.profiles
        /\ \A p \in source.profiles : m.byProfile[p] = Cardinality(CasesIn(source, p))
    BY ManifestIs
  <1>4. \A p : CasesIn(m, p) = {Entry(source, client, c) : c \in CasesIn(source, p)}
    BY <1>0, EntriesIn
  <1> HIDE DEF m
  <1>5. \A p : CasesIn(source, p) \in SUBSET Cases(source) /\ IsFiniteSet(CasesIn(source, p))
    <2> TAKE p
    <2>1. CasesIn(source, p) \in SUBSET Cases(source)
      BY DEF CasesIn
    <2> QED
      BY <1>0, <2>1, FS_Subset
  <1>6. \A p : Cardinality(CasesIn(m, p)) = Cardinality(CasesIn(source, p))
    <2> TAKE p
    <2> DEFINE S == CasesIn(source, p)
    <2>1. S \in SUBSET Cases(source) /\ IsFiniteSet(S)
      BY <1>5
    <2>2. CasesIn(m, p) = {Entry(source, client, c) : c \in S}
      BY <1>4
    <2> HIDE DEF S
    <2>3. Cardinality({Entry(source, client, c) : c \in S}) = Cardinality(S)
      BY <1>0, <2>1, EntriesCounted
    <2> QED
      BY <2>2, <2>3 DEF S
  <1>7. \A p \in source.profiles : CasesIn(m, p) # {}
    <2> TAKE p \in source.profiles
    <2>1. CasesIn(source, p) # {}
      BY <1>0 DEF AssemblyHolds
    <2> QED
      BY <1>4, <2>1
  <1>8. {g.profile : g \in m.groups} \subseteq m.profiles
    BY <1>0, <1>1, <1>2, <1>3 DEF AssemblyHolds
  <1>9. ProfilesSound(m)
    BY <1>3, <1>6, <1>7, <1>8 DEF ProfilesSound
  <1> QED
    BY <1>9 DEF m

LEMMA ManifestCountsSound ==
  ASSUME NEW source, NEW client, Good(source, client)
  PROVE  CountsSound(Manifest(source, client))
  <1> DEFINE m == Manifest(source, client)
  <1>0. SourcesRead(source) /\ AssemblyHolds(source) /\ IsFiniteSet(Cases(source))
    BY DEF Good, NoProblems
  <1>1. \A x : x \in Cases(m) <=> \E c \in Cases(source) : x = Entry(source, client, c)
    BY EntriesAre
  <1>2. Cardinality(Cases(m)) = Cardinality(Cases(source))
    <2>1. Cases(m) = {Entry(source, client, c) : c \in Cases(source)}
      BY EntriesAre
    <2>2. Cardinality({Entry(source, client, c) : c \in Cases(source)}) = Cardinality(Cases(source))
      BY <1>0, EntriesCounted
    <2> QED
      BY <2>1, <2>2
  <1>3. \A x : x \in m.groups => \E g \in source.groups : x = EntryGroup(source, client, g)
    BY ManifestGroups
  <1>4. CapabilityIds(m) = CapabilityIds(source)
    BY CapabilitiesNamed
  <1>5. m.totalCases = Cardinality(Cases(source))
    BY ManifestIs
  <1> HIDE DEF m
  <1>6. ASSUME NEW x \in m.groups
        PROVE  x.stated = Cardinality(x.cases)
    <2>1. PICK g \in source.groups : x = EntryGroup(source, client, g)
      BY <1>3
    <2>2. x.cases = {Entry(source, client, c) : c \in g.cases} /\ x.stated = Cardinality(g.cases)
      BY <2>1 DEF EntryGroup
    <2>3. g.cases \in SUBSET Cases(source) /\ IsFiniteSet(g.cases)
      <3>1. g.cases \in SUBSET Cases(source)
        BY DEF Cases
      <3> QED
        BY <1>0, <3>1, FS_Subset
    <2>4. Cardinality({Entry(source, client, c) : c \in g.cases}) = Cardinality(g.cases)
      BY <1>0, <2>3, EntriesCounted
    <2> QED
      BY <2>2, <2>4
  <1>7. \A id \in CapabilityIds(m) : \E x \in Cases(m) : x.capability = id
    <2> TAKE id \in CapabilityIds(m)
    <2>1. PICK c \in Cases(source) : c.capability = id
      BY <1>0, <1>4 DEF AssemblyHolds
    <2> QED
      BY <1>1, <2>1, EntryKeepsId
  <1>8. CountsSound(m)
    BY <1>2, <1>5, <1>6, <1>7 DEF CountsSound
  <1> QED
    BY <1>8 DEF m

\* A runner doubts a written manifest for its own tables only.
LEMMA ManifestTrusted ==
  ASSUME NEW source, NEW made, Good(source, made), NEW client
  PROVE  Trustworthy(Manifest(source, made), client)
           <=> ImplSound(Manifest(source, made), client) /\ made.rejectMap = client.rejectMap
  <1> DEFINE m == Manifest(source, made)
  <1>1. CasesSound(m) /\ ProfilesSound(m) /\ CountsSound(m)
    BY ManifestCasesSound, ManifestProfilesSound, ManifestCountsSound
  <1>2. SourcesRead(source) /\ AssemblyHolds(source) /\ VectorsUsed(source)
    BY DEF Good, NoProblems
  <1>3. PICK c \in Cases(source) : TRUE
    BY <1>2 DEF SourcesRead, VectorsUsed, CaseIds
  <1>4. c.capability \in CapabilityIds(m)
    BY GoodCase, CapabilitiesNamed DEF CaseSound
  <1>5. m.capabilities # {}
    BY <1>4 DEF CapabilityIds
  <1>6. m.profiles # {}
    <2>1. PICK g \in source.groups : c \in g.cases
      BY <1>3 DEF Cases
    <2>2. g.profile \in source.profiles
      BY <1>2 DEF AssemblyHolds
    <2> QED
      BY <2>2, ManifestIs
  <1>7. m.rejectMap = made.rejectMap
    BY ManifestIs
  <1> HIDE DEF m
  <1>8. Trustworthy(m, client) <=> ImplSound(m, client) /\ made.rejectMap = client.rejectMap
    BY <1>1, <1>5, <1>6, <1>7 DEF Trustworthy, RejectMapsAgree
  <1> QED
    BY <1>8 DEF m

\* A case's capability is one of the catalog, with a reference or a call.
LEMMA CapabilityIs ==
  ASSUME NEW source, NEW client, Good(source, client), NEW c \in Cases(source)
  PROVE  LET cap == CapabilityOf(source, c)
         IN  /\ cap \in source.capabilities /\ cap.id = c.capability /\ (cap.implJs <=> cap.run)
             /\ \A k \in source.capabilities : k.id = c.capability => k = cap
  <1>1. CatalogSound(source) /\ c.capability \in CapabilityIds(source)
    BY GoodCase DEF Good, SourcesRead, CaseSound
  <1>2. PICK k \in source.capabilities : k.id = c.capability
    BY <1>1 DEF CapabilityIds
  <1>3. \A a, b \in source.capabilities : a.id = b.id => a = b
    BY <1>1 DEF CatalogSound
  <1>4. CapabilityOf(source, c) = k
    BY <1>2, <1>3 DEF CapabilityOf
  <1>5. k.implJs <=> k.run
    BY <1>1 DEF CatalogSound
  <1> QED
    BY <1>2, <1>3, <1>4, <1>5

LEMMA ImplIs ==
  ASSUME NEW source, NEW made, Good(source, made), NEW client,
         ImplSound(Manifest(source, made), client), NEW c \in Cases(source)
  PROVE  Dispatchable(client, c.capability) <=> CapabilityOf(source, c).run
  <1> DEFINE cap == CapabilityOf(source, c)
             short == [id |-> cap.id, profile |-> cap.profile, implJs |-> cap.implJs]
  <1>1. cap \in source.capabilities /\ cap.id = c.capability /\ (cap.implJs <=> cap.run)
    BY CapabilityIs
  <1>2. short \in Manifest(source, made).capabilities
    BY <1>1, ManifestCapabilities
  <1>3. short.id = cap.id /\ short.implJs = cap.implJs
    OBVIOUS
  <1> HIDE DEF cap, short
  <1>4. short.implJs <=> Dispatchable(client, short.id)
    BY <1>2 DEF ImplSound
  <1> QED
    BY <1>1, <1>3, <1>4 DEF cap

\* Where the client can be called, the generator saw what the client did.
LEMMA DrivenIsObserved ==
  ASSUME NEW source, NEW client, Good(source, client), NEW c \in Cases(source),
         CapabilityOf(source, c).run
  PROVE  Driven(source, client, c) = Observed(source, client, c)
  <1>1. ReferenceHolds(source, client, c)
    BY GoodCase
  <1> QED
    BY <1>1 DEF ReferenceHolds, Observed

Diverging(source, client) ==
  {d \in Cases(source) : /\ Anchor(source, d) = {} /\ d.golden = NoneWritten
                         /\ d.decision # NoneWritten /\ d.written # NoneWritten
                         /\ Observed(source, client, d) # d.written}
Divergence(source, client, c) ==
  [id |-> c.id, decision |-> c.decision, observed |-> Observed(source, client, c)]

\* What was seen of a case is what its entry expects, unless it diverges.
LEMMA ObservedIsExpected ==
  ASSUME NEW source, NEW client, Good(source, client), NEW c \in Cases(source),
         c \notin Diverging(source, client)
  PROVE  /\ Expectation(source, client, c) = {Observed(source, client, c)}
         /\ Observed(source, client, c) # Unclassified
         /\ Anchor(source, c) # {} => Anchor(source, c) = {Observed(source, client, c)}
         /\ c.written # NoneWritten => Observed(source, client, c) = c.written
  <1>1. AnchorHolds(source, client, c) /\ WrittenHolds(source, client, c) /\ CaseSound(source, c)
    BY GoodCase
  <1>2. SourcesRead(source) /\ c.written # Unclassified
    BY DEF Good
  <1>3. CASE Anchor(source, c) # {}
    <2>1. PICK v \in source.vectors : Anchor(source, c) = {v.literal}
      BY <1>2, <1>3, AnchorIs
    <2>2. c.written \in {NoneWritten, v.literal} /\ Observed(source, client, c) = v.literal
      BY <1>1, <2>1 DEF AnchorHolds
    <2>3. v.literal # Unclassified
      BY DEF Good
    <2> QED
      BY <1>3, <2>1, <2>2, <2>3 DEF Expectation
  <1>4. CASE Anchor(source, c) = {} /\ c.written = NoneWritten
    BY <1>1, <1>4 DEF WrittenHolds, Expectation
  <1>5. CASE Anchor(source, c) = {} /\ c.written # NoneWritten
    <2>1. \A v \in source.vectors : v.key # c.id
      BY <1>5 DEF Anchor
    <2>2. c.golden # NoneWritten \/ c.decision # NoneWritten
      BY <1>1, <1>5, <2>1 DEF CaseSound
    <2>3. Observed(source, client, c) = c.written
      BY <1>1, <1>5, <2>2 DEF WrittenHolds, Diverging
    <2> QED
      BY <1>2, <1>5, <2>3 DEF Expectation
  <1> QED
    BY <1>3, <1>4, <1>5

\* The runner, with the client of the manifest, fails no case but a divergence.
LEMMA StatusMade ==
  ASSUME NEW source, NEW made, Good(source, made), ImplSound(Manifest(source, made), made),
         NEW c \in Cases(source)
  PROVE  LET e == Entry(source, made, c)
         IN  /\ Status(e, made) \in {"fail", "error"} => c \in Diverging(source, made)
             /\ Status(e, made) = "unsupported"
                  <=> c.needs \subseteq made.traits /\ ~CapabilityOf(source, c).run
             /\ Status(e, made) = "not-applicable" <=> ~(c.needs \subseteq made.traits)
  <1> DEFINE e == Entry(source, made, c)
  <1>1. /\ e.id = c.id /\ e.capability = c.capability /\ e.needs = c.needs
        /\ e.expect = Expectation(source, made, c)
    BY EntryKeepsId
  <1>2. Dispatchable(made, c.capability) <=> CapabilityOf(source, c).run
    BY ImplIs
  <1>3. source.rules = made.rejectMap
    BY DEF Good, NoProblems, RulesAreTheRunners
  <1> HIDE DEF e
  <1>4. ASSUME Status(e, made) \in {"fail", "error"}, c \notin Diverging(source, made)
        PROVE  FALSE
    <2>1. Dispatchable(made, c.capability)
      BY <1>1, <1>4 DEF Status
    <2>2. Driven(source, made, c) = Observed(source, made, c)
      BY <1>2, <2>1, DrivenIsObserved
    <2>3. e.expect = {Driven(source, made, c)} /\ Driven(source, made, c) # Unclassified
      BY <1>1, <1>4, <2>2, ObservedIsExpected
    <2>4. /\ made.does[c.id] # Unreadable
          /\ Driven(source, made, c) = Classify(made.rejectMap, made.does[c.id])
      BY <1>3, <2>3 DEF Driven
    <2>5. Driven(source, made, c) = made.does[c.id]
      BY <2>3, <2>4 DEF Classify
    <2> QED
      BY <1>1, <1>4, <2>3, <2>4, <2>5 DEF Status
  <1>5. /\ Status(e, made) = "unsupported"
             <=> c.needs \subseteq made.traits /\ ~CapabilityOf(source, c).run
        /\ Status(e, made) = "not-applicable" <=> ~(c.needs \subseteq made.traits)
    BY <1>1, <1>2 DEF Status
  <1> QED
    BY <1>4, <1>5 DEF e

WholeRun == [profiles |-> {}, cases |-> {}, groups |-> {}, quiet |-> FALSE]

LEMMA WholeRunSelects ==
  ASSUME NEW m, CasesSound(m), ProfilesSound(m)
  PROVE  /\ Selected(m, WholeRun) = Cases(m) /\ FlagsAccepted(m, WholeRun)
         /\ ProfilesNamed(m, WholeRun) = m.profiles
  <1>1. /\ WholeRun.profiles = {} /\ WholeRun.cases = {} /\ WholeRun.groups = {}
    BY DEF WholeRun
  <1>2. ProfilesNamed(m, WholeRun) = m.profiles
    BY <1>1 DEF ProfilesNamed
  <1>3. ASSUME NEW c \in Cases(m) PROVE ProfileOf(m, c) \in m.profiles
    <2>1. PICK g \in m.groups : c \in g.cases
      BY DEF Cases
    <2> QED
      BY <2>1, GroupIs DEF ProfileOf, ProfilesSound
  <1>4. Selected(m, WholeRun) = Cases(m)
    BY <1>1, <1>2, <1>3 DEF Selected
  <1> QED
    BY <1>1, <1>2, <1>4 DEF FlagsAccepted

LEMMA TallyIs ==
  ASSUME NEW source, NEW made, Good(source, made), NEW client, NEW status
  PROVE  Tally(Cases(Manifest(source, made)), client, status)
           = Cardinality({c \in Cases(source) : Status(Entry(source, made, c), client) = status})
  <1> DEFINE S == {c \in Cases(source) : Status(Entry(source, made, c), client) = status}
             T == {e \in Cases(Manifest(source, made)) : Status(e, client) = status}
  <1>1. Cases(Manifest(source, made)) = {Entry(source, made, c) : c \in Cases(source)}
    BY EntriesAre
  <1>2. T = {Entry(source, made, c) : c \in S}
    BY <1>1
  <1>3. S \in SUBSET Cases(source) /\ SourcesRead(source) /\ IsFiniteSet(Cases(source))
    BY DEF Good
  <1>4. Tally(Cases(Manifest(source, made)), client, status) = Cardinality(T)
    BY DEF Tally
  <1> HIDE DEF S, T
  <1>5. IsFiniteSet(S)
    BY <1>3, FS_Subset
  <1>6. Cardinality({Entry(source, made, c) : c \in S}) = Cardinality(S)
    BY <1>3, <1>5, EntriesCounted
  <1> QED
    BY <1>2, <1>4, <1>6 DEF S

LEMMA DivergencesCounted ==
  ASSUME NEW source, NEW client, Good(source, client)
  PROVE  /\ Cardinality(Divergences(source, client)) = Cardinality(Diverging(source, client))
         /\ \A x : x \in Divergences(source, client)
                   <=> \E c \in Diverging(source, client) : x = Divergence(source, client, c)
  <1> DEFINE S == Diverging(source, client)
             f == [c \in S |-> Divergence(source, client, c)]
  <1>1. Divergences(source, client) = {Divergence(source, client, c) : c \in S}
    BY DEF Divergences, Diverging, Divergence
  <1>2. S \in SUBSET Cases(source) /\ SourcesRead(source) /\ IsFiniteSet(Cases(source))
    BY DEF Good, Diverging
  <1> HIDE DEF S
  <1>3. IsFiniteSet(S)
    BY <1>2, FS_Subset
  <1>4. \A x, y \in S : f[x] = f[y] => x = y
    <2> TAKE x, y \in S
    <2>1. f[x].id = x.id /\ f[y].id = y.id
      BY DEF Divergence
    <2> QED
      BY <1>2, <2>1, IdsApart
  <1>5. S \in SUBSET (DOMAIN f) /\ {f[c] : c \in S} = {Divergence(source, client, c) : c \in S}
    OBVIOUS
  <1> HIDE DEF f
  <1>6. Cardinality({f[c] : c \in S}) = Cardinality(S)
    BY <1>3, <1>4, <1>5, ImageSize
  <1>7. \A x : x \in Divergences(source, client) <=> \E c \in S : x = Divergence(source, client, c)
    BY <1>1
  <1> QED
    BY <1>1, <1>5, <1>6, <1>7 DEF S

\* Counts of a finite set and of a part of it differ where the part does.
LEMMA PartCounted ==
  ASSUME NEW S, IsFiniteSet(S), NEW T \in SUBSET S
  PROVE  Cardinality(S) # Cardinality(T) <=> \E x \in S : x \notin T
  BY FS_Subset

Unrun(source) == {c \in Cases(source) : ~CapabilityOf(source, c).run}
OfStatus(source, made, client, status) ==
  {c \in Cases(source) : Status(Entry(source, made, c), client) = status}

\* The whole run of the maker is refused for its own table, or where the counts
\* of the manifest are not those of the run.
LEMMA MadeRun ==
  ASSUME NEW source, NEW made, Good(source, made)
  PROVE  /\ RunnerExit(Manifest(source, made), made, WholeRun) = 2
              <=> \/ ~ImplSound(Manifest(source, made), made)
                  \/ \E c \in Diverging(source, made) : Status(Entry(source, made, c), made) # "fail"
                  \/ \E c \in Unrun(source) : Status(Entry(source, made, c), made) = "not-applicable"
         /\ ImplSound(Manifest(source, made), made) =>
              OfStatus(source, made, made, "fail") \subseteq Diverging(source, made)
  <1> DEFINE m == Manifest(source, made)
             D == Diverging(source, made)
             N == Unrun(source)
             F == OfStatus(source, made, made, "fail")
             U == OfStatus(source, made, made, "unsupported")
  <1>1. Trustworthy(m, made) <=> ImplSound(m, made)
    BY ManifestTrusted
  <1>2. /\ Tally(Cases(m), made, "fail") = Cardinality(F)
        /\ Tally(Cases(m), made, "unsupported") = Cardinality(U)
    BY TallyIs DEF OfStatus
  <1>3. m.divergentCases = Cardinality(D)
    BY ManifestIs, DivergencesCounted
  <1>4. m.casesWithNoJavaScriptImpl = Cardinality(N)
    BY DEF Manifest, Unrun
  <1>5. /\ Selected(m, WholeRun) = Cases(m) /\ FlagsAccepted(m, WholeRun)
        /\ ProfilesNamed(m, WholeRun) = m.profiles
    BY ManifestCasesSound, ManifestProfilesSound, WholeRunSelects
  <1>6. PackageResolves(made) /\ IsFiniteSet(Cases(source))
    BY DEF Good
  <1>7. IsFiniteSet(D) /\ IsFiniteSet(N)
    <2>1. D \in SUBSET Cases(source) /\ N \in SUBSET Cases(source)
      BY DEF Diverging, Unrun
    <2> QED
      BY <1>6, <2>1, FS_Subset
  <1>8. ASSUME ImplSound(m, made)
        PROVE  /\ F \in SUBSET D /\ U \in SUBSET N
               /\ \A c \in N : c \notin U <=> Status(Entry(source, made, c), made) = "not-applicable"
               /\ \A c \in D : c \notin F <=> Status(Entry(source, made, c), made) # "fail"
    BY <1>8, StatusMade DEF OfStatus, Unrun, Diverging
  <1>9. WholeRun.cases = {} /\ WholeRun.groups = {} /\ ~WholeRun.quiet
    BY DEF WholeRun
  <1> HIDE DEF m, D, N, F, U
  <1>10. CASE ~ImplSound(m, made)
    <2>1. RunnerExit(m, made, WholeRun) = 2
      BY <1>1, <1>10 DEF RunnerExit
    <2> QED
      BY <1>10, <2>1 DEF m
  <1>11. CASE ImplSound(m, made)
    <2>1. RunnerExit(m, made, WholeRun) = 2 <=> CountsMismatch(m, made, WholeRun)
      BY <1>1, <1>5, <1>6, <1>11 DEF RunnerExit
    <2>2. CountsMismatch(m, made, WholeRun)
            <=> Cardinality(D) # Cardinality(F) \/ Cardinality(N) # Cardinality(U)
      BY <1>2, <1>3, <1>4, <1>5, <1>9 DEF CountsMismatch
    <2>3. /\ Cardinality(D) # Cardinality(F) <=> \E c \in D : c \notin F
          /\ Cardinality(N) # Cardinality(U) <=> \E c \in N : c \notin U
      BY <1>7, <1>8, <1>11, PartCounted
    <2>4. RunnerExit(m, made, WholeRun) = 2
            <=> \/ \E c \in D : Status(Entry(source, made, c), made) # "fail"
                \/ \E c \in N : Status(Entry(source, made, c), made) = "not-applicable"
      BY <1>8, <1>11, <2>1, <2>2, <2>3
    <2> QED
      BY <1>8, <1>11, <2>4 DEF m, D, N, F
  <1> QED
    BY <1>10, <1>11

LEMMA EntryOfId ==
  ASSUME NEW source, SourcesRead(source), NEW client, NEW c \in Cases(source)
  PROVE  (CHOOSE e \in Cases(Manifest(source, client)) : e.id = c.id) = Entry(source, client, c)
  <1> DEFINE M == Cases(Manifest(source, client))
             e == Entry(source, client, c)
  <1>1. M = {Entry(source, client, d) : d \in Cases(source)}
    BY EntriesAre
  <1>2. e \in M /\ e.id = c.id
    BY <1>1, EntryKeepsId
  <1>3. \A x \in M : x.id = c.id => x = e
    BY <1>1, EntryKeepsId, IdsApart
  <1> HIDE DEF M, e
  <1>4. (CHOOSE x \in M : x.id = c.id) = e
    BY <1>2, <1>3
  <1> QED
    BY <1>4 DEF M, e

LEMMA DivergingIds ==
  ASSUME NEW source, NEW client, Good(source, client), NEW x
  PROVE  x \in {d.id : d \in Manifest(source, client).divergences}
           <=> \E c \in Diverging(source, client) : x = c.id
  <1>1. Manifest(source, client).divergences = Divergences(source, client)
    BY ManifestIs
  <1>2. \A c : Divergence(source, client, c).id = c.id
    BY DEF Divergence
  <1> QED
    BY <1>1, <1>2, DivergencesCounted

\* A whole run of any client is green only if every case that applies passes.
LEMMA GreenPasses ==
  ASSUME NEW source, NEW made, Good(source, made), NEW client,
         RunnerExit(Manifest(source, made), client, WholeRun) = 0,
         NEW c \in Cases(source), c.needs \subseteq client.traits
  PROVE  Expectation(source, made, c) = {client.does[c.id]}
  <1> DEFINE m == Manifest(source, made)
             e == Entry(source, made, c)
             tally(status) == Tally(Cases(m), client, status)
  <1>1. /\ e.id = c.id /\ e.needs = c.needs /\ e.expect = Expectation(source, made, c)
    BY EntryKeepsId
  <1>2. Cases(m) = {Entry(source, made, d) : d \in Cases(source)}
    BY EntriesAre
  <1>3. Selected(m, WholeRun) = Cases(m)
    BY ManifestCasesSound, ManifestProfilesSound, WholeRunSelects
  <1>4. IsFiniteSet(Cases(m))
    <2>1. Cases(source) \in SUBSET Cases(source) /\ IsFiniteSet(Cases(source)) /\ SourcesRead(source)
      BY DEF Good
    <2> QED
      BY <1>2, <2>1, EntriesCounted
  <1>5. e \in Cases(m)
    BY <1>2
  <1> HIDE DEF m, e
  <1>6. /\ ~(tally("fail") + tally("error") > 0) /\ ~(tally("unsupported") > 0)
    BY <1>3 DEF RunnerExit, m
  <1>7. /\ tally("fail") \in Nat /\ tally("error") \in Nat /\ tally("unsupported") \in Nat
    BY <1>4, NoneOfStatus
  <1>8. tally("fail") = 0 /\ tally("error") = 0 /\ tally("unsupported") = 0
    <2> HIDE DEF tally
    <2> QED
      BY <1>6, <1>7
  <1>9. Status(e, client) \notin {"fail", "error", "unsupported"}
    BY <1>4, <1>5, <1>8, NoneOfStatus
  <1>10. e.expect = {client.does[c.id]}
    BY <1>1, <1>9 DEF Status
  <1> QED
    BY <1>1, <1>10

\* Two clients that make one manifest do the same in a case that can be run.
LEMMA SameManifest ==
  ASSUME NEW source, NEW one, Good(source, one), NEW other, Good(source, other),
         Manifest(source, one) = Manifest(source, other),
         NEW c \in Cases(source), CapabilityOf(source, c).run
  PROVE  Driven(source, one, c) = Driven(source, other, c)
  <1> DEFINE seen(client) == Observed(source, client, c)
             d(client) == Diverging(source, client)
  <1>0. SourcesRead(source)
    BY DEF Good
  <1>1. Expectation(source, one, c) = Expectation(source, other, c)
    <2> DEFINE found(client) == CHOOSE e \in Cases(Manifest(source, client)) : e.id = c.id
    <2>1. found(one) = found(other)
      OBVIOUS
    <2>2. found(one) = Entry(source, one, c) /\ found(other) = Entry(source, other, c)
      BY <1>0, EntryOfId
    <2> HIDE DEF found
    <2>3. /\ Entry(source, one, c).expect = Expectation(source, one, c)
          /\ Entry(source, other, c).expect = Expectation(source, other, c)
      BY EntryKeepsId
    <2> QED
      BY <2>1, <2>2, <2>3
  <1>2. ASSUME NEW a, NEW b, Good(source, a), Good(source, b),
               Manifest(source, a) = Manifest(source, b), c \in d(a)
        PROVE  c \in d(b) /\ seen(a) = seen(b)
    <2>1. Divergence(source, a, c) \in Divergences(source, a)
      BY <1>2, DivergencesCounted
    <2>2. Divergence(source, a, c) \in Divergences(source, b)
      BY <1>2, <2>1, ManifestIs
    <2>3. PICK x \in d(b) : Divergence(source, a, c) = Divergence(source, b, x)
      BY <1>2, <2>2, DivergencesCounted
    <2>4. c.id = x.id /\ seen(a) = Observed(source, b, x)
      BY <2>3 DEF Divergence
    <2>5. c = x
      BY <1>0, <2>4, IdsApart DEF Diverging
    <2> QED
      BY <2>3, <2>4, <2>5
  <1>3. seen(one) = seen(other)
    <2>1. CASE c \in d(one)
      BY <1>2, <2>1
    <2>2. CASE c \in d(other)
      BY <1>2, <2>2
    <2>3. CASE c \notin d(one) /\ c \notin d(other)
      BY <1>1, <2>3, ObservedIsExpected
    <2> QED
      BY <2>1, <2>2, <2>3
  <1> QED
    BY <1>3, DrivenIsObserved

\* What vouches for a client is never the client itself (generate.mjs 1343-1468
\* and 4718-5395, run.mjs 1014-1182): whatever the sources and whoever the client
\* is, the manifest that is written is one its runner refuses only for the
\* reasons named, a green run of another client has every literal and every value
\* written by hand right, and a clean --check means the same conduct in each case.
THEOREM SuiteVouches == ClientSpec => []SuiteVouchesForClient
  <1>1. job \in Jobs => SuiteVouchesForClient
    <2> DEFINE source == job.source
               made == job.made
               client == job.client
               m == Manifest(source, made)
               status(id) == Status(CHOOSE c \in Cases(m) : c.id = id, made)
               diverging == {d.id : d \in m.divergences}
    <2> SUFFICES ASSUME job \in Jobs, job.part = "suite", GeneratorExit(source, made) = 0
                 PROVE  /\ RunnerExit(m, made, WholeRun) # 2 =>
                             \A c \in Cases(m) : Status(c, made) \in {"fail", "error"} <=> c.id \in diverging
                        /\ RunnerExit(m, made, WholeRun) = 2 <=>
                             \/ ~ImplSound(m, made)
                             \/ \E id \in diverging : status(id) # "fail"
                             \/ \E c \in Cases(source) : /\ ~CapabilityOf(source, c).run
                                                         /\ status(c.id) = "not-applicable"
                        /\ RunnerExit(m, client, WholeRun) = 0 =>
                             \A c \in Cases(source) : c.needs \subseteq client.traits =>
                               /\ Anchor(source, c) # {} => {client.does[c.id]} = Anchor(source, c)
                               /\ c.written # NoneWritten => client.does[c.id] = c.written
                        /\ CheckExit(source, client, m) = 0 =>
                             \A c \in Cases(source) :
                               \/ ~CapabilityOf(source, c).run
                               \/ Driven(source, client, c) = Driven(source, made, c)
      BY DEF SuiteVouchesForClient, Doing, WholeRun
    <2>1. Good(source, made)
      BY JobsAssumption DEF GeneratorExit, Good
    <2>2. SourcesRead(source)
      BY <2>1 DEF Good
    <2>3. /\ Cases(m) = {Entry(source, made, c) : c \in Cases(source)}
          /\ \A c \in Cases(source) : status(c.id) = Status(Entry(source, made, c), made)
      BY <2>2, EntriesAre, EntryOfId
    <2>4. \A x : x \in diverging <=> \E c \in Diverging(source, made) : x = c.id
      BY <2>1, DivergingIds
    <2>5. \A c \in Diverging(source, made) : c \in Cases(source)
      BY DEF Diverging
    <2>6. /\ RunnerExit(m, made, WholeRun) = 2
               <=> \/ ~ImplSound(m, made)
                   \/ \E c \in Diverging(source, made) : Status(Entry(source, made, c), made) # "fail"
                   \/ \E c \in Unrun(source) : Status(Entry(source, made, c), made) = "not-applicable"
          /\ ImplSound(m, made) =>
               OfStatus(source, made, made, "fail") \subseteq Diverging(source, made)
      BY <2>1, MadeRun
    <2>7. ASSUME RunnerExit(m, client, WholeRun) = 0, NEW c \in Cases(source), c.needs \subseteq client.traits
          PROVE  /\ Anchor(source, c) # {} => {client.does[c.id]} = Anchor(source, c)
                 /\ c.written # NoneWritten => client.does[c.id] = c.written
      <3>1. Expectation(source, made, c) = {client.does[c.id]}
        BY <2>1, <2>7, GreenPasses
      <3>2. AnchorHolds(source, made, c)
        BY <2>1, GoodCase
      <3> QED
        BY <3>1, <3>2 DEF Expectation, AnchorHolds
    <2>8. ASSUME CheckExit(source, client, m) = 0, NEW c \in Cases(source), CapabilityOf(source, c).run
          PROVE  Driven(source, client, c) = Driven(source, made, c)
      <3>1. GeneratorExit(source, client) = 0 /\ Manifest(source, client) = m
        BY <2>8 DEF CheckExit
      <3>2. Good(source, client)
        BY <3>1, JobsAssumption DEF GeneratorExit, Good
      <3> QED
        BY <2>1, <2>8, <3>1, <3>2, SameManifest
    <2>9. ASSUME ImplSound(m, made), NEW c \in Cases(source),
                 Status(Entry(source, made, c), made) \in {"fail", "error"}
          PROVE  c \in Diverging(source, made)
      BY <2>1, <2>9, StatusMade
    <2> HIDE DEF source, made, client, m, status, diverging
    <2>10. RunnerExit(m, made, WholeRun) = 2 <=>
             \/ ~ImplSound(m, made)
             \/ \E id \in diverging : status(id) # "fail"
             \/ \E c \in Cases(source) : /\ ~CapabilityOf(source, c).run
                                         /\ status(c.id) = "not-applicable"
      <3>1. (\E id \in diverging : status(id) # "fail")
              <=> \E c \in Diverging(source, made) : Status(Entry(source, made, c), made) # "fail"
        BY <2>3, <2>4, <2>5
      <3>2. (\E c \in Cases(source) : ~CapabilityOf(source, c).run /\ status(c.id) = "not-applicable")
              <=> \E c \in Unrun(source) : Status(Entry(source, made, c), made) = "not-applicable"
        BY <2>3 DEF Unrun
      <3> QED
        BY <2>6, <3>1, <3>2
    <2>11. ASSUME RunnerExit(m, made, WholeRun) # 2, NEW e \in Cases(m)
           PROVE  Status(e, made) \in {"fail", "error"} <=> e.id \in diverging
      <3>1. PICK c \in Cases(source) : e = Entry(source, made, c)
        BY <2>3
      <3>2. e.id = c.id
        BY <3>1, EntryKeepsId
      <3>3. e.id \in diverging <=> c \in Diverging(source, made)
        BY <2>2, <2>4, <2>5, <3>2, IdsApart
      <3>4. c \in Diverging(source, made) => Status(e, made) = "fail"
        BY <2>6, <2>11, <3>1
      <3>5. Status(e, made) \in {"fail", "error"} => c \in Diverging(source, made)
        BY <2>6, <2>9, <2>11, <3>1
      <3> QED
        BY <3>3, <3>4, <3>5
    <2> QED
      BY <2>7, <2>8, <2>10, <2>11
  <1> QED
    BY <1>1, JobStays, PTL

-----------------------------------------------------------------------------
\* The proof of a row under a period's root proves that row and no other, and
\* the root tells the rows, for any rows and any number of them, so also where
\* a level has an odd node (digest.js:222-272, Digest.daml:150-200).
THEOREM ProofsExact == ClientSpec => []PeriodProofsExact
  <1>1. job \in Jobs => PeriodProofsExact
    <2> SUFFICES ASSUME job \in Jobs, job.part = "tree" PROVE PeriodProofsExact
      BY DEF PeriodProofsExact, Doing
    <2>1. IsList(job.rows) /\ \A rows \in job.others : IsList(rows)
      BY JobsAssumption DEF JobsAssumption, IsList
    <2>2. DOMAIN job.rows = 1..Len(job.rows)
      BY <2>1, LeavesAre
    <2>3. \A i \in DOMAIN job.rows : \A row \in job.candidates :
             PeriodRowVerify(row, MerkleProof(i - 1, LeavesOf(job.rows)), MerkleRoot(LeavesOf(job.rows)))
               <=> row = job.rows[i]
      BY <2>1, <2>2, RowProofExact
    <2>4. \A rows \in job.others : MerkleRoot(LeavesOf(rows)) = MerkleRoot(LeavesOf(job.rows)) => rows = job.rows
      BY <2>1, RootTellsRows
    <2> QED
      BY <2>3, <2>4 DEF PeriodProofsExact, LeavesOf
  <1> QED
    BY <1>1, JobStays, PTL

-----------------------------------------------------------------------------
(* The first of a character in a text. *)

LEMMA TextSub ==
  ASSUME NEW a \in Texts, NEW m \in Int, NEW n \in Int, 1 <= m, n <= Len(a)
  PROVE  /\ SubSeq(a, m, n) \in Texts
         /\ Len(SubSeq(a, m, n)) = IF m <= n THEN n - m + 1 ELSE 0
         /\ \A i \in 1..(n - m + 1) : SubSeq(a, m, n)[i] = a[m + i - 1]
  <1>1. \A i \in m..n : a[i] \in STRING
    BY LenProperties, ElementOfSeq DEF Texts
  <1> QED
    BY <1>1, SubSeqProperties DEF Texts

LEMMA FirstIs ==
  ASSUME NEW a \in Texts, NEW r \in Texts, NEW c \in STRING, ~Includes(a, c)
  PROVE  LET text == a \o (<<c>> \o r) IN
         /\ text \in Texts /\ Includes(text, c) /\ Before(text, c) = a /\ After(text, c) = r
  <1> DEFINE m == <<c>> \o r
             text == a \o m
             k == Len(a) + 1
  <1>1. m \in Texts /\ m[1] = c /\ Len(m) = Len(r) + 1
    BY TextOne
  <1>2. /\ text \in Texts /\ Len(text) = Len(a) + Len(r) + 1
        /\ Len(a) \in Nat /\ Len(r) \in Nat
    <2> HIDE DEF m
    <2>1. text \in Texts /\ Len(text) = Len(a) + Len(m) /\ Len(a) \in Nat /\ Len(r) \in Nat
      BY <1>1, TextLen
    <2> QED
      BY <1>1, <2>1
  <1>3. \A i \in 1..Len(a) : text[i] = a[i]
    <2> HIDE DEF m
    <2> QED
      BY <1>1, TextLeft
  <1>4. text[k] = c
    <2> HIDE DEF m
    <2>1. 1 \in 1..Len(m)
      BY <1>1, <1>2
    <2> QED
      BY <1>1, <2>1, TextRight
  <1>5. \A i \in 1..Len(r) : text[k + i] = r[i]
    <2> SUFFICES ASSUME NEW i \in 1..Len(r) PROVE text[k + i] = r[i]
      OBVIOUS
    <2>1. <<c>> \in Texts /\ Len(<<c>>) = 1
      BY CharText
    <2>2. m[1 + i] = r[i]
      <3> DEFINE d == <<c>>
      <3>1. d \in Texts /\ Len(d) = 1
        BY <2>1
      <3> HIDE DEF d
      <3>2. (d \o r)[Len(d) + i] = r[i]
        BY <3>1, TextRight
      <3>3. (d \o r)[1 + i] = r[i]
        BY <3>1, <3>2
      <3> QED
        BY <3>3 DEF d
    <2> HIDE DEF m
    <2>3. 1 + i \in 1..Len(m)
      BY <1>1, <1>2
    <2>4. text[Len(a) + (1 + i)] = m[1 + i]
      BY <2>3, <1>1, TextRight
    <2>5. Len(a) + (1 + i) = k + i
      BY <1>2
    <2> QED
      BY <2>2, <2>4, <2>5
  <1> HIDE DEF text
  <1>6. k \in 1..Len(text)
    BY <1>2
  <1>7. ~Includes(SubSeq(text, 1, k - 1), c)
    <2>1. /\ Len(SubSeq(text, 1, k - 1)) = Len(a)
          /\ \A i \in 1..Len(a) : SubSeq(text, 1, k - 1)[i] = text[i]
      BY <1>2, TextSub
    <2> QED
      BY <2>1, <1>3 DEF Includes
  <1>8. ASSUME NEW i \in 1..Len(text), text[i] = c, ~Includes(SubSeq(text, 1, i - 1), c)
        PROVE  i = k
    <2>1. ASSUME i < k PROVE FALSE
      <3>1. i \in 1..Len(a)
        BY <1>2, <2>1
      <3> QED
        BY <3>1, <1>3, <1>8 DEF Includes
    <2>2. ASSUME k < i PROVE FALSE
      <3>1. /\ Len(SubSeq(text, 1, i - 1)) = i - 1
            /\ \A j \in 1..(i - 1) : SubSeq(text, 1, i - 1)[j] = text[j]
        BY <1>2, <2>2, TextSub
      <3>2. k \in 1..(i - 1)
        BY <1>2, <2>2
      <3> QED
        BY <3>1, <3>2, <1>4, <1>8 DEF Includes
    <2> QED
      BY <2>1, <2>2, <1>2
  <1>9. First(text, c) = k
    BY <1>4, <1>6, <1>7, <1>8 DEF First
  <1>10. Before(text, c) = a
    <2>1. /\ SubSeq(text, 1, k - 1) \in Texts /\ Len(SubSeq(text, 1, k - 1)) = Len(a)
          /\ \A i \in 1..Len(a) : SubSeq(text, 1, k - 1)[i] = text[i]
      BY <1>2, TextSub
    <2> QED
      BY <2>1, <1>3, <1>9, TextEqual DEF Before
  <1>11. After(text, c) = r
    <2> DEFINE q == SubSeq(text, k + 1, Len(text))
    <2>1. /\ q \in Texts /\ Len(q) = Len(r)
          /\ \A i \in 1..Len(r) : q[i] = text[k + i]
      BY <1>2, TextSub
    <2> HIDE DEF q
    <2>2. q = r
      BY <2>1, <1>5, TextEqual
    <2> QED
      BY <2>2, <1>9 DEF After, q
  <1> QED
    BY <1>2, <1>4, <1>6, <1>10, <1>11 DEF Includes, text

LEMMA OverText ==
  ASSUME NEW a \in Texts, NEW alphabet, Over(a, alphabet), NEW c, c \notin alphabet
  PROVE  ~Includes(a, c)
  BY DEF Over, Includes

LEMMA TenantText ==
  ASSUME NEW t \in Texts, ValidTenantId(t)
  PROVE  ~Includes(t, "/") /\ ~Includes(t, "_")
  <1>1. "/" \notin Lower \cup {"-"} /\ "_" \notin Lower \cup {"-"}
    BY DEF Lower
  <1> QED
    BY <1>1, OverText DEF ValidTenantId

LEMMA LocalText ==
  ASSUME NEW l \in Texts, ValidLocalId(l)
  PROVE  /\ ~Includes(l, "/") /\ ~Includes(l, "#") /\ ~Includes(l, ":") /\ ~Includes(l, "|")
         /\ Len(l) \in 1..96
  <1>1. \A c \in {"/", "#", ":", "|"} : c \notin Lower \cup {".", "_", "-"}
    BY DEF Lower
  <1>2. Len(l) \in 2..96 /\ Over(l, Lower \cup {".", "_", "-"})
    BY DEF ValidLocalId
  <1>3. \A c \in {"/", "#", ":", "|"} : ~Includes(l, c)
    BY <1>1, <1>2, OverText
  <1>4. Len(l) \in 1..96
    <2>1. 2..96 \subseteq 1..96
      OBVIOUS
    <2> QED
      BY <1>2, <2>1
  <1> QED
    BY <1>3, <1>4

\* A tenant's text and what follows it.
LEMMA IdParsed ==
  ASSUME NEW t \in Texts, ValidTenantId(t), NEW l \in Texts
  PROVE  LET id == t \o <<"/">> \o l IN
         /\ id \in Texts /\ Includes(id, "/")
         /\ ParseInstrumentId(id) = [tenantId |-> {t}, localId |-> l]
  <1>1. "/" \in STRING
    BY MarkIs DEF Marks
  <1>2. <<"/">> \in Texts
    BY <1>1, CharText
  <1>3. t \o <<"/">> \o l = t \o (<<"/">> \o l)
    BY <1>2, TextAssoc
  <1> DEFINE id == t \o (<<"/">> \o l)
  <1>4. id \in Texts /\ Includes(id, "/") /\ Before(id, "/") = t /\ After(id, "/") = l
    BY <1>1, FirstIs, TenantText
  <1> HIDE DEF id
  <1>5. ParseInstrumentId(id) = [tenantId |-> {t}, localId |-> l]
    BY <1>4 DEF ParseInstrumentId
  <1> QED
    BY <1>3, <1>4, <1>5 DEF id

LEMMA OwnedBy ==
  ASSUME NEW t \in Texts, ValidTenantId(t), NEW id, NEW l,
         ParseInstrumentId(id) = [tenantId |-> {t}, localId |-> l], NEW other
  PROVE  TenantLegs(other, {id, Coin}) <=> other = t
  <1>1. ParseInstrumentId(id).tenantId = {t}
    OBVIOUS
  <1>2. ParseInstrumentId(Coin).tenantId = {}
    BY PrefixesAssumption DEF ParseInstrumentId, Coin
  <1>3. TenantOwnsInstrument(other, id) <=> ValidTenantId(other) /\ other = t
    BY <1>1 DEF TenantOwnsInstrument
  <1>4. TenantOwnsInstrument(other, Coin) <=> ValidTenantId(other)
    BY <1>2 DEF TenantOwnsInstrument
  <1> QED
    BY <1>3, <1>4 DEF TenantLegs

LEMMA KeyParsed ==
  ASSUME NEW t \in Texts, ValidTenantId(t), NEW random \in Texts
  PROVE  TenantIdFromKey(KEY_PREFIX \o t \o <<"_">> \o random) = {t}
  <1> DEFINE rest == t \o (<<"_">> \o random)
             key == KEY_PREFIX \o t \o <<"_">> \o random
  <1>1. "_" \in STRING
    BY MarkIs DEF Marks
  <1>2. <<"_">> \in Texts
    BY <1>1, CharText
  <1>3. KEY_PREFIX \in Texts /\ Len(KEY_PREFIX) = 4
    <2> DEFINE S == STRING
    <2>1. "a" \in S /\ "g" \in S /\ "s" \in S /\ "_" \in S
      BY MarkIs DEF Marks
    <2> HIDE DEF S
    <2>2. <<"a", "g", "s", "_">> \in Seq(S) /\ Len(<<"a", "g", "s", "_">>) = 4
      BY <2>1, FourOf
    <2> QED
      BY <2>2 DEF KEY_PREFIX, Texts, S
  <1>4. rest \in Texts /\ Includes(rest, "_") /\ Before(rest, "_") = t
    BY <1>1, FirstIs, TenantText
  <1>5. key = KEY_PREFIX \o rest
    <2>1. KEY_PREFIX \o t \in Texts /\ <<"_">> \o random \in Texts
      BY <1>2, <1>3, TextLen
    <2>2. key = (KEY_PREFIX \o t) \o (<<"_">> \o random)
      BY <2>1, <1>2, TextAssoc
    <2>3. (KEY_PREFIX \o t) \o (<<"_">> \o random) = KEY_PREFIX \o rest
      BY <2>1, <1>3, TextAssoc
    <2> QED
      BY <2>2, <2>3
  <1> HIDE DEF rest, key
  <1>6. /\ key \in Texts /\ Len(key) = 4 + Len(rest) /\ Len(rest) \in Nat
        /\ \A i \in 1..4 : key[i] = KEY_PREFIX[i]
        /\ \A i \in 1..Len(rest) : key[4 + i] = rest[i]
    <2>1. key \in Texts /\ Len(key) = 4 + Len(rest) /\ Len(rest) \in Nat
      BY <1>3, <1>4, <1>5, TextLen
    <2>2. \A i \in 1..4 : key[i] = KEY_PREFIX[i]
      BY <1>3, <1>4, <1>5, TextLeft
    <2>3. \A i \in 1..Len(rest) : key[4 + i] = rest[i]
      <3>1. \A i \in 1..Len(rest) : (KEY_PREFIX \o rest)[Len(KEY_PREFIX) + i] = rest[i]
        BY <1>3, <1>4, TextRight
      <3> QED
        BY <3>1, <1>3, <1>5
    <2> QED
      BY <2>1, <2>2, <2>3
  <1>7. SubSeq(key, 1, 4) = KEY_PREFIX
    <2>1. /\ SubSeq(key, 1, 4) \in Texts /\ Len(SubSeq(key, 1, 4)) = 4
          /\ \A i \in 1..4 : SubSeq(key, 1, 4)[i] = key[i]
      BY <1>6, TextSub
    <2> DEFINE q == SubSeq(key, 1, 4)
    <2>2. q \in Texts /\ Len(q) = Len(KEY_PREFIX) /\ \A i \in 1..Len(q) : q[i] = KEY_PREFIX[i]
      BY <2>1, <1>3, <1>6
    <2> HIDE DEF q
    <2>3. q = KEY_PREFIX
      BY <2>2, <1>3, TextEqual
    <2> QED
      BY <2>3 DEF q
  <1>8. SubSeq(key, 5, Len(key)) = rest
    <2> DEFINE q == SubSeq(key, 5, Len(key))
    <2>1. /\ q \in Texts /\ Len(q) = Len(rest)
          /\ \A i \in 1..Len(rest) : q[i] = key[4 + i]
      BY <1>6, TextSub
    <2> HIDE DEF q
    <2>2. q = rest
      BY <2>1, <1>4, <1>6, TextEqual
    <2> QED
      BY <2>2 DEF q
  <1>9. ~(Len(key) < 4)
    BY <1>6
  <1>10. TenantIdFromKey(key) = {t}
    BY <1>4, <1>7, <1>8, <1>9 DEF TenantIdFromKey
  <1> QED
    BY <1>10 DEF key

-----------------------------------------------------------------------------
(* Ids. *)

LEMMA AssetsParsed ==
  ASSUME NEW t \in Texts, NEW l \in Texts, NEW i \in Texts
  PROVE  /\ \A id \in FungibleId(t, l) :
              /\ ParseAsset(id) = [tenantId |-> {t}, localId |-> l, instanceId |-> {}]
              /\ NamespacedId(t, l) = {id} /\ AmountValidForAsset(id, 2)
         /\ \A id \in UniqueId(t, l, i) :
              /\ ParseAsset(id) = [tenantId |-> {t}, localId |-> l, instanceId |-> {i}]
              /\ ~AmountValidForAsset(id, 2) /\ AmountValidForAsset(id, 1)
  <1>1. ASSUME NEW id \in FungibleId(t, l)
        PROVE  /\ ParseAsset(id) = [tenantId |-> {t}, localId |-> l, instanceId |-> {}]
               /\ NamespacedId(t, l) = {id} /\ AmountValidForAsset(id, 2)
    <2>1. ValidTenantId(t) /\ ValidLocalId(l) /\ id = t \o <<"/">> \o l
      BY DEF FungibleId
    <2>2. ParseInstrumentId(id) = [tenantId |-> {t}, localId |-> l]
      BY <2>1, IdParsed
    <2>3. ParseAsset(id) = [tenantId |-> {t}, localId |-> l, instanceId |-> {}]
      <3> DEFINE q == ParseInstrumentId(id)
      <3>1. q.tenantId = {t} /\ q.localId = l
        BY <2>2
      <3>2. ~Includes(l, "#")
        BY <2>1, LocalText
      <3> QED
        BY <3>1, <3>2 DEF ParseAsset
    <2>4. NamespacedId(t, l) = {id}
      BY <2>1, LocalText DEF NamespacedId
    <2>5. ~IsUnique(id)
      BY <2>3 DEF IsUnique
    <2> QED
      BY <2>3, <2>4, <2>5 DEF AmountValidForAsset
  <1>2. ASSUME NEW id \in UniqueId(t, l, i)
        PROVE  /\ ParseAsset(id) = [tenantId |-> {t}, localId |-> l, instanceId |-> {i}]
               /\ ~AmountValidForAsset(id, 2) /\ AmountValidForAsset(id, 1)
    <2>1. ValidTenantId(t) /\ ValidLocalId(l) /\ id = t \o <<"/">> \o l \o <<"#">> \o i
      BY DEF UniqueId
    <2> DEFINE rest == l \o (<<"#">> \o i)
    <2>2. "#" \in STRING /\ "/" \in STRING
      BY MarkIs DEF Marks
    <2>3. rest \in Texts /\ Includes(rest, "#") /\ Before(rest, "#") = l /\ After(rest, "#") = i
      BY <2>1, <2>2, FirstIs, LocalText
    <2>4. id = t \o <<"/">> \o rest
      <3>1. <<"/">> \in Texts /\ <<"#">> \in Texts
        BY <2>2, CharText
      <3> DEFINE u == <<"/">>
                 v == <<"#">>
      <3>2. u \in Texts /\ v \in Texts /\ id = Cat(Cat(Cat(Cat(t, u), l), v), i)
        BY <2>1, <3>1 DEF Cat
      <3> HIDE DEF u, v
      <3>3. Cat(t, u) \in Texts
        BY <3>2, CatType
      <3>4. id = Cat(Cat(t, u), Cat(l, Cat(v, i)))
        BY <3>2, <3>3, CatFour
      <3> QED
        BY <3>4 DEF Cat, u, v
    <2> HIDE DEF rest
    <2>5. ParseInstrumentId(id) = [tenantId |-> {t}, localId |-> rest]
      BY <2>1, <2>3, <2>4, IdParsed
    <2>6. ParseAsset(id) = [tenantId |-> {t}, localId |-> l, instanceId |-> {i}]
      BY <2>3, <2>5 DEF ParseAsset
    <2>7. IsUnique(id)
      BY <2>6 DEF IsUnique
    <2> QED
      BY <2>6, <2>7 DEF AmountValidForAsset
  <1> QED
    BY <1>1, <1>2

LEMMA IdOwned ==
  ASSUME NEW t \in Texts, NEW l \in Texts, NEW i \in Texts,
         NEW id \in FungibleId(t, l) \cup UniqueId(t, l, i) \cup NamespacedId(t, l), NEW other
  PROVE  TenantLegs(other, {id, Coin}) <=> other = t
  <1>1. ValidTenantId(t) /\ \E rest : ParseInstrumentId(id) = [tenantId |-> {t}, localId |-> rest]
    <2>1. CASE id \in FungibleId(t, l) \cup NamespacedId(t, l)
      <3>1. ValidTenantId(t) /\ id = t \o <<"/">> \o l
        BY <2>1 DEF FungibleId, NamespacedId
      <3> QED
        BY <3>1, IdParsed
    <2>2. CASE id \in UniqueId(t, l, i)
      <3>1. ValidTenantId(t)
        BY <2>2 DEF UniqueId
      <3>2. ParseAsset(id).tenantId = {t}
        BY <2>2, AssetsParsed
      <3>3. ParseInstrumentId(id).tenantId = {t}
        BY <3>2 DEF ParseAsset
      <3>4. \E rest : ParseInstrumentId(id) = [tenantId |-> {t}, localId |-> rest]
        BY <3>3 DEF ParseInstrumentId
      <3> QED
        BY <3>1, <3>4
    <2> QED
      BY <2>1, <2>2
  <1> QED
    BY <1>1, OwnedBy

\* An id tells its tenant and a key the tenant it was made for, whatever texts the
\* tenants, the ids and the keys are made of (assets.js:47-126, tenant.js:32-145).
THEOREM TenantsApart == ClientSpec => []TenantsSeparated
  <1>1. ASSUME job \in Jobs PROVE TenantsSeparated
    <2> SUFFICES ASSUME Doing("asset") PROVE TenantsSeparated
      BY DEF TenantsSeparated
    <2> DEFINE t == job.tenant
               l == job.local
               i == job.instance
    <2>1. /\ t \in Texts /\ l \in Texts /\ i \in Texts /\ job.random \in Texts
          /\ job.tenants \subseteq Texts /\ job.randoms \subseteq Texts
      BY <1>1, JobsAssumption DEF Doing
    <2>2. ASSUME NEW key \in TenantKey(t, job.random)
          PROVE  /\ TenantIdFromKey(key) = {t}
                 /\ \A other \in job.tenants \ {t} : \A random \in job.randoms :
                      \A k \in TenantKey(other, random) : ~VerifyTenantKey(k, key)
      <3>1. TenantIdFromKey(key) = {t}
        BY <2>1, KeyParsed DEF TenantKey
      <3>2. ASSUME NEW other \in job.tenants \ {t}, NEW random \in job.randoms,
                   NEW k \in TenantKey(other, random)
            PROVE  ~VerifyTenantKey(k, key)
        <4>1. TenantIdFromKey(k) = {other}
          BY <2>1, KeyParsed DEF TenantKey
        <4> QED
          BY <3>1, <4>1 DEF VerifyTenantKey
      <3> QED
        BY <3>1, <3>2
    <2>3. \A id \in FungibleId(t, l) \cup UniqueId(t, l, i) \cup NamespacedId(t, l) :
            \A other \in job.tenants : TenantLegs(other, {id, Coin}) <=> other = t
      BY <2>1, IdOwned
    <2> QED
      BY <2>1, <2>2, <2>3, AssetsParsed DEF TenantsSeparated
  <1>2. ClientInit => job \in Jobs
    BY DEF ClientInit
  <1>3. job \in Jobs /\ [ClientNext]_clientVars => (job \in Jobs)'
    BY DEF ClientNext, clientVars
  <1> QED
    BY <1>1, <1>2, <1>3, PTL DEF ClientSpec

-----------------------------------------------------------------------------
(* Command ids. *)

\* What a builder's command id starts with.
CommandPrefix(builder) ==
  CASE builder = "propose"  -> "trade-propose-"
    [] builder = "commit" -> "commit-"
    [] builder = "dryrun-commit" -> "dryrun-commit-"
    [] builder = "settle" -> "settle-"
    [] builder = "abort" -> "abort-"
    [] builder = "expire" -> "expire-"
    [] builder = "trade-settle" -> "trade-settle-"
    [] builder = "trade-cancel" -> "trade-cancel-"
    [] builder = "transfer" -> "transfer-"

CommandId(builder, text) == Spell(CommandPrefix(builder)) \o text

NamedBy(call) == IF call.builder \in OnContract THEN Start(Subject(call)) ELSE Subject(call)

LEMMA IdOfBuilt ==
  ASSUME NEW p, NEW call, call.builder \in Builders, NEW s \in Built(p, call)
  PROVE  s.commandId = CommandId(call.builder, NamedBy(call))
  <1> DEFINE Made(prefix, subject) ==
               \E actAs, readAs, commands : s = Submission(prefix, subject, actAs, readAs, commands)
  <1>1. ASSUME NEW prefix, NEW subject, Made(prefix, subject)
        PROVE  s.commandId = Spell(prefix) \o subject
    BY <1>1 DEF Submission
  <1>2. Made(CommandPrefix(call.builder), NamedBy(call))
    <2>1. CASE call.builder = "commit"
      <3>1. s \in CommitCommands(p, call)
        BY <2>1 DEF Built
      <3>2. PICK fee \in call.feeAmount, tag \in {t \in CustodyTagFor(call.cycleId, call.entryDigest) : call.inputs # {}} :
              s = Submission("commit-", call.cycleId, {p.player, p.venue, p.operator}, {p.player, p.venue},
                    << Pay(Outputs(p, call, tag)), CommitOn(p, call, fee, tag) >>)
        BY <3>1 DEF CommitCommands
      <3>3. NamedBy(call) = call.cycleId /\ CommandPrefix(call.builder) = "commit-"
        BY <2>1 DEF CommandPrefix, NamedBy, OnContract, Subject
      <3> QED
        BY <3>2, <3>3
    <2>2. CASE call.builder = "dryrun-commit"
      BY <2>2 DEF Built, DryRunCommitCommands, CommandPrefix, NamedBy, OnContract, Subject
    <2>3. CASE call.builder = "settle"
      BY <2>3 DEF Built, SettleCommands, CommandPrefix, NamedBy, OnContract, Subject
    <2>4. CASE call.builder = "abort"
      BY <2>4 DEF Built, AbortCommands, CommandPrefix, NamedBy, OnContract, Subject
    <2>5. CASE call.builder = "expire"
      BY <2>5 DEF Built, ExpireCommands, CommandPrefix, NamedBy, OnContract, Subject
    <2>6. CASE call.builder = "propose"
      BY <2>6 DEF Built, TradeProposalCommands, CommandPrefix, NamedBy, OnContract, Subject
    <2>7. CASE call.builder = "trade-settle"
      BY <2>7 DEF Built, TradeSettleCommands, CommandPrefix, NamedBy, OnContract, Subject
    <2>8. CASE call.builder = "trade-cancel"
      BY <2>8 DEF Built, TradeCancelCommands, CommandPrefix, NamedBy, OnContract, Subject
    <2>9. CASE call.builder = "transfer"
      BY <2>9 DEF Built, TransferCommands, CommandPrefix, NamedBy, OnContract, Subject
    <2> QED
      BY <2>1, <2>2, <2>3, <2>4, <2>5, <2>6, <2>7, <2>8, <2>9 DEF Builders
  <1> QED
    BY <1>1, <1>2 DEF CommandId

LEMMA StartText ==
  ASSUME NEW cid \in Texts
  PROVE  Start(cid) \in Texts
  <1>1. Len(cid) \in Nat
    BY TextLen
  <1> DEFINE n == IF Len(cid) < 16 THEN Len(cid) ELSE 16
  <1>2. n \in Int /\ n <= Len(cid)
    BY <1>1
  <1> HIDE DEF n
  <1>3. SubSeq(cid, 1, n) \in Texts
    BY <1>2, TextSub
  <1> QED
    BY <1>3 DEF Start, n

LEMMA PrefixesTell ==
  ASSUME NEW b \in Builders, NEW e \in Builders, NEW m \in Texts, NEW n \in Texts,
         CommandId(b, m) = CommandId(e, n)
  PROVE  b = e /\ m = n
  <1>1. CommandPrefix(b) \in CommandPrefixes /\ CommandPrefix(e) \in CommandPrefixes
    BY DEF Builders, CommandPrefix, CommandPrefixes
  <1>2. CommandPrefix(b) = CommandPrefix(e) => b = e
    BY DEF Builders, CommandPrefix
  <1> DEFINE v == CommandPrefix(b)
             w == CommandPrefix(e)
  <1>3. v \in CommandPrefixes /\ w \in CommandPrefixes
    BY <1>1
  <1>4. Spell(v) \o m = Spell(w) \o n
    BY DEF CommandId
  <1> HIDE DEF v, w
  <1>5. Spell(v) \in Texts /\ Spell(w) \in Texts
    BY <1>3, PrefixesAssumption
  <1>6. Apart(CommandPrefixes)
    BY PrefixesAssumption
  <1>7. v = w
    BY <1>3, <1>4, <1>5, <1>6, TextStart, Zenon
  <1>8. m = n
    BY <1>4, <1>5, <1>7, TextCancel
  <1> QED
    BY <1>2, <1>7, <1>8 DEF v, w

LEMMA CommandIdsTell ==
  ASSUME NEW c, NEW d, c.builder \in Builders, d.builder \in Builders,
         Subject(c) \in Texts, Subject(d) \in Texts,
         CommandId(c.builder, NamedBy(c)) = CommandId(d.builder, NamedBy(d))
  PROVE  c.builder = d.builder /\ NamedBy(c) = NamedBy(d)
  <1> DEFINE b == c.builder
             e == d.builder
             m == NamedBy(c)
             n == NamedBy(d)
  <1>1. m \in Texts /\ n \in Texts
    BY StartText DEF NamedBy
  <1>2. b \in Builders /\ e \in Builders /\ CommandId(b, m) = CommandId(e, n)
    OBVIOUS
  <1> HIDE DEF b, e, m, n
  <1>3. b = e
    BY <1>1, <1>2, PrefixesTell
  <1>4. m = n
    BY <1>1, <1>2, PrefixesTell
  <1> QED
    BY <1>3, <1>4 DEF b, e, m, n

\* Two submissions have one command id exactly when they are of one operation,
\* whatever the calls, given that contract ids tell contracts in the part that the
\* command ids take of them (cycle.js:202-451, trade.js:161-218).
THEOREM RetriesKeepId == ClientSpec => []RetriesKeepTheirId
  <1>1. ASSUME job \in Jobs PROVE RetriesKeepTheirId
    <2> DEFINE c == job.call
               d == job.again
    <2> SUFFICES ASSUME Doing("calls"), NEW s \in Built(job.parties, c), NEW r \in Built(job.parties, d)
                 PROVE  s.commandId = r.commandId <=> Operation(c) = Operation(d)
      BY DEF RetriesKeepTheirId
    <2>1. /\ c.builder \in Builders /\ Subject(c) \in Texts
          /\ d.builder \in Builders /\ Subject(d) \in Texts
      BY <1>1, JobsAssumption DEF Doing
    <2>2. /\ s.commandId = CommandId(c.builder, NamedBy(c))
          /\ r.commandId = CommandId(d.builder, NamedBy(d))
      BY <2>1, IdOfBuilt
    <2>3. Operation(c) = Operation(d) <=> c.builder = d.builder /\ Subject(c) = Subject(d)
      BY DEF Operation
    <2>4. ASSUME c.builder = d.builder, Subject(c) = Subject(d) PROVE s.commandId = r.commandId
      BY <2>2, <2>4 DEF NamedBy
    <2>5. ASSUME s.commandId = r.commandId PROVE c.builder = d.builder /\ Subject(c) = Subject(d)
      <3>5. c.builder = d.builder /\ NamedBy(c) = NamedBy(d)
        BY <2>1, <2>2, <2>5, CommandIdsTell
      <3> QED
        BY <1>1, <3>5, JobsAssumption DEF NamedBy, Doing
    <2> QED
      BY <2>3, <2>4, <2>5
  <1>2. ClientInit => job \in Jobs
    BY DEF ClientInit
  <1>3. job \in Jobs /\ [ClientNext]_clientVars => (job \in Jobs)'
    BY DEF ClientNext, clientVars
  <1> QED
    BY <1>1, <1>2, <1>3, PTL DEF ClientSpec
-----------------------------------------------------------------------------
(* The fields of each kind of value: well formed, and told by their text. *)

AllocationFields(v) ==
  << Decimal("allocation-percent", v.allocationPercent), Text("symbol", v.symbol) >>

LEMMA AllocationFieldsType ==
  ASSUME NEW v, v \in Allocations
  PROVE  AllocationFields(v) \in Seq(FieldPairs) /\ Len(AllocationFields(v)) = 2
  <1>1. { "allocation-percent", "symbol" } \subseteq FieldNames
    BY DEF FieldNames
  <1>2. /\ Decimal("allocation-percent", v.allocationPercent) \in FieldPairs
        /\ Text("symbol", v.symbol) \in FieldPairs
    BY <1>1, FieldTyped DEF Allocations
  <1> QED
    BY <1>2 DEF AllocationFields

LEMMA AllocationFieldsTell ==
  ASSUME NEW v, NEW w, v \in Allocations, w \in Allocations,
         CanonFields(AllocationFields(v)) = CanonFields(AllocationFields(w))
  PROVE  v = w
  <1> DEFINE a == AllocationFields(v)
             b == AllocationFields(w)
  <1>1. a \in Seq(FieldPairs) /\ b \in Seq(FieldPairs) /\ Len(a) = 2 /\ Len(b) = 2
    BY AllocationFieldsType
  <1>2. \A i \in 1..2 : a[i][1] = b[i][1]
    BY DEF AllocationFields, Text, Whole, Decimal, Named
  <1>3. a = b
    <2> HIDE DEF a, b
    <2>1. CanonFields(a) = CanonFields(b)
      BY DEF a, b
    <2> QED
      BY <1>1, <1>2, <2>1, FieldsTell
  <1>4. /\ CanonDecimal(v.allocationPercent) = CanonDecimal(w.allocationPercent)
        /\ CanonText(v.symbol) = CanonText(w.symbol)
    BY <1>3 DEF AllocationFields, Text, Whole, Decimal, Named
  <1>5. v.symbol = w.symbol
    BY <1>4, CanonTextTells DEF Allocations
  <1>6. v.allocationPercent = w.allocationPercent
    BY <1>4, CanonNumbersTell DEF Allocations
  <1> QED
    BY <1>5, <1>6 DEF Allocations

PricePointFields(v) ==
  << Named("as-of", CanonTimeMicros(v.asOf)), Decimal("price", v.price), Text("source", v.source),
     Text("symbol", v.symbol) >>

LEMMA PricePointFieldsType ==
  ASSUME NEW v, v \in PricePoints
  PROVE  PricePointFields(v) \in Seq(FieldPairs) /\ Len(PricePointFields(v)) = 4
  <1>1. { "as-of", "price", "source", "symbol" } \subseteq FieldNames
    BY DEF FieldNames
  <1>2. CanonTimeMicros(v.asOf) \in CanonTexts
    BY CanonNumbersTell DEF PricePoints
  <1>3. /\ Named("as-of", CanonTimeMicros(v.asOf)) \in FieldPairs
        /\ Decimal("price", v.price) \in FieldPairs /\ Text("source", v.source) \in FieldPairs
        /\ Text("symbol", v.symbol) \in FieldPairs
    BY <1>1, <1>2, FieldTyped, FieldNamed DEF PricePoints
  <1> QED
    BY <1>3 DEF PricePointFields

LEMMA PricePointFieldsTell ==
  ASSUME NEW v, NEW w, v \in PricePoints, w \in PricePoints,
         CanonFields(PricePointFields(v)) = CanonFields(PricePointFields(w))
  PROVE  v = w
  <1> DEFINE a == PricePointFields(v)
             b == PricePointFields(w)
  <1>1. a \in Seq(FieldPairs) /\ b \in Seq(FieldPairs) /\ Len(a) = 4 /\ Len(b) = 4
    BY PricePointFieldsType
  <1>2. \A i \in 1..4 : a[i][1] = b[i][1]
    BY DEF PricePointFields, Text, Whole, Decimal, Named
  <1>3. a = b
    <2> HIDE DEF a, b
    <2>1. CanonFields(a) = CanonFields(b)
      BY DEF a, b
    <2> QED
      BY <1>1, <1>2, <2>1, FieldsTell
  <1>4. /\ CanonTimeMicros(v.asOf) = CanonTimeMicros(w.asOf)
        /\ CanonDecimal(v.price) = CanonDecimal(w.price)
        /\ CanonText(v.source) = CanonText(w.source) /\ CanonText(v.symbol) = CanonText(w.symbol)
    BY <1>3 DEF PricePointFields, Text, Whole, Decimal, Named
  <1>5. /\ v.source = w.source /\ v.symbol = w.symbol
    BY <1>4, CanonTextTells DEF PricePoints
  <1>6. /\ v.asOf = w.asOf /\ v.price = w.price
    BY <1>4, CanonNumbersTell DEF PricePoints
  <1> QED
    BY <1>5, <1>6 DEF PricePoints

GamePlayFields(v) ==
  << Whole("coins-collected", v.coinsCollected), Whole("game-number", v.gameNumber),
     Whole("max-level", v.maxLevel), Whole("score", v.score),
     Whole("survival-seconds", v.survivalSeconds) >>

LEMMA GamePlayFieldsType ==
  ASSUME NEW v, v \in GamePlays
  PROVE  GamePlayFields(v) \in Seq(FieldPairs) /\ Len(GamePlayFields(v)) = 5
  <1>1. { "coins-collected", "game-number", "max-level", "score", "survival-seconds" } \subseteq FieldNames
    BY DEF FieldNames
  <1>2. /\ Whole("coins-collected", v.coinsCollected) \in FieldPairs
        /\ Whole("game-number", v.gameNumber) \in FieldPairs
        /\ Whole("max-level", v.maxLevel) \in FieldPairs /\ Whole("score", v.score) \in FieldPairs
        /\ Whole("survival-seconds", v.survivalSeconds) \in FieldPairs
    BY <1>1, FieldTyped DEF GamePlays
  <1> QED
    BY <1>2 DEF GamePlayFields

LEMMA GamePlayFieldsTell ==
  ASSUME NEW v, NEW w, v \in GamePlays, w \in GamePlays,
         CanonFields(GamePlayFields(v)) = CanonFields(GamePlayFields(w))
  PROVE  v = w
  <1> DEFINE a == GamePlayFields(v)
             b == GamePlayFields(w)
  <1>1. a \in Seq(FieldPairs) /\ b \in Seq(FieldPairs) /\ Len(a) = 5 /\ Len(b) = 5
    BY GamePlayFieldsType
  <1>2. \A i \in 1..5 : a[i][1] = b[i][1]
    BY DEF GamePlayFields, Text, Whole, Decimal, Named
  <1>3. a = b
    <2> HIDE DEF a, b
    <2>1. CanonFields(a) = CanonFields(b)
      BY DEF a, b
    <2> QED
      BY <1>1, <1>2, <2>1, FieldsTell
  <1>4. /\ CanonInt(v.coinsCollected) = CanonInt(w.coinsCollected)
        /\ CanonInt(v.gameNumber) = CanonInt(w.gameNumber)
        /\ CanonInt(v.maxLevel) = CanonInt(w.maxLevel) /\ CanonInt(v.score) = CanonInt(w.score)
        /\ CanonInt(v.survivalSeconds) = CanonInt(w.survivalSeconds)
    BY <1>3 DEF GamePlayFields, Text, Whole, Decimal, Named
  <1>5. /\ v.coinsCollected = w.coinsCollected /\ v.gameNumber = w.gameNumber
        /\ v.maxLevel = w.maxLevel /\ v.score = w.score /\ v.survivalSeconds = w.survivalSeconds
    BY <1>4, CanonNumbersTell DEF GamePlays
  <1> QED
    BY <1>5 DEF GamePlays

AllocationList(xs) == CanonList(Each(TwAllocation, xs))

LEMMA AllocationListTells ==
  /\ \A xs \in Seq(Allocations) : AllocationList(xs) \in CanonTexts
  /\ \A xs, ys \in Seq(Allocations) : AllocationList(xs) = AllocationList(ys) => xs = ys
  <1> DEFINE g(xs) == [i \in DOMAIN xs |-> TwAllocation(xs[i])]
  <1>1. ASSUME NEW x \in Allocations
        PROVE  TwAllocation(x) = CanonFields(AllocationFields(x)) /\ TwAllocation(x) \in CanonTexts
    <2>1. TwAllocation(x) = CanonFields(AllocationFields(x))
      BY DEF TwAllocation, AllocationFields
    <2> DEFINE kvs == AllocationFields(x)
    <2>2. kvs \in Seq(FieldPairs) /\ TwAllocation(x) = CanonFields(kvs)
      BY <2>1, AllocationFieldsType
    <2> HIDE DEF kvs
    <2>3. CanonFields(kvs) \in CanonTexts
      BY <2>2, FieldsType
    <2> QED
      BY <2>1, <2>2, <2>3
  <1>2. ASSUME NEW xs \in Seq(Allocations)
        PROVE  /\ AllocationList(xs) = CanonList(g(xs)) /\ g(xs) \in Seq(CanonTexts) /\ Len(g(xs)) = Len(xs)
               /\ \A i \in 1..Len(xs) : xs[i] \in Allocations /\ g(xs)[i] = TwAllocation(xs[i])
    <2>1. Len(xs) \in Nat /\ DOMAIN xs = 1..Len(xs) /\ \A i \in 1..Len(xs) : xs[i] \in Allocations
      BY LenProperties, ElementOfSeq
    <2> DEFINE h == g(xs)
    <2>2. h = [i \in 1..Len(xs) |-> h[i]] /\ \A i \in 1..Len(xs) : h[i] \in CanonTexts /\ h[i] = TwAllocation(xs[i])
      BY <1>1, <2>1
    <2>3. AllocationList(xs) = CanonList(h)
      BY DEF AllocationList, Each
    <2> HIDE DEF h
    <2>4. h \in Seq(CanonTexts) /\ Len(h) = Len(xs)
      BY <2>1, <2>2, SequenceIs
    <2> QED
      BY <2>1, <2>2, <2>3, <2>4 DEF h
  <1> HIDE DEF g
  <1>3. ASSUME NEW xs \in Seq(Allocations) PROVE AllocationList(xs) \in CanonTexts
    BY <1>2, ListType
  <1>4. ASSUME NEW xs \in Seq(Allocations), NEW ys \in Seq(Allocations), AllocationList(xs) = AllocationList(ys)
        PROVE  xs = ys
    <2> DEFINE h == g(xs)
               k == g(ys)
    <2>1. CanonList(h) = CanonList(k) /\ h \in Seq(CanonTexts) /\ k \in Seq(CanonTexts)
      BY <1>2, <1>4
    <2> HIDE DEF h, k
    <2>2. h = k
      BY <2>1, ListsTell
    <2>3. Len(xs) = Len(ys)
      BY <1>2, <2>2 DEF h, k
    <2>4. ASSUME NEW i \in 1..Len(xs) PROVE xs[i] = ys[i]
      <3> DEFINE x == xs[i]
                 y == ys[i]
      <3>1. x \in Allocations /\ y \in Allocations /\ TwAllocation(x) = TwAllocation(y)
        BY <1>2, <2>2, <2>3 DEF h, k
      <3> HIDE DEF x, y
      <3>2. CanonFields(AllocationFields(x)) = CanonFields(AllocationFields(y))
        BY <1>1, <3>1
      <3>3. x = y
        BY <3>1, <3>2, AllocationFieldsTell
      <3> QED
        BY <3>3 DEF x, y
    <2> QED
      BY <2>3, <2>4, SeqEqual
  <1> QED
    BY <1>3, <1>4

PriceList(xs) == CanonList(Each(TwPricePoint, xs))

LEMMA PriceListTells ==
  /\ \A xs \in Seq(PricePoints) : PriceList(xs) \in CanonTexts
  /\ \A xs, ys \in Seq(PricePoints) : PriceList(xs) = PriceList(ys) => xs = ys
  <1> DEFINE g(xs) == [i \in DOMAIN xs |-> TwPricePoint(xs[i])]
  <1>1. ASSUME NEW x \in PricePoints
        PROVE  TwPricePoint(x) = CanonFields(PricePointFields(x)) /\ TwPricePoint(x) \in CanonTexts
    <2>1. TwPricePoint(x) = CanonFields(PricePointFields(x))
      BY DEF TwPricePoint, PricePointFields
    <2> DEFINE kvs == PricePointFields(x)
    <2>2. kvs \in Seq(FieldPairs) /\ TwPricePoint(x) = CanonFields(kvs)
      BY <2>1, PricePointFieldsType
    <2> HIDE DEF kvs
    <2>3. CanonFields(kvs) \in CanonTexts
      BY <2>2, FieldsType
    <2> QED
      BY <2>1, <2>2, <2>3
  <1>2. ASSUME NEW xs \in Seq(PricePoints)
        PROVE  /\ PriceList(xs) = CanonList(g(xs)) /\ g(xs) \in Seq(CanonTexts) /\ Len(g(xs)) = Len(xs)
               /\ \A i \in 1..Len(xs) : xs[i] \in PricePoints /\ g(xs)[i] = TwPricePoint(xs[i])
    <2>1. Len(xs) \in Nat /\ DOMAIN xs = 1..Len(xs) /\ \A i \in 1..Len(xs) : xs[i] \in PricePoints
      BY LenProperties, ElementOfSeq
    <2> DEFINE h == g(xs)
    <2>2. h = [i \in 1..Len(xs) |-> h[i]] /\ \A i \in 1..Len(xs) : h[i] \in CanonTexts /\ h[i] = TwPricePoint(xs[i])
      BY <1>1, <2>1
    <2>3. PriceList(xs) = CanonList(h)
      BY DEF PriceList, Each
    <2> HIDE DEF h
    <2>4. h \in Seq(CanonTexts) /\ Len(h) = Len(xs)
      BY <2>1, <2>2, SequenceIs
    <2> QED
      BY <2>1, <2>2, <2>3, <2>4 DEF h
  <1> HIDE DEF g
  <1>3. ASSUME NEW xs \in Seq(PricePoints) PROVE PriceList(xs) \in CanonTexts
    BY <1>2, ListType
  <1>4. ASSUME NEW xs \in Seq(PricePoints), NEW ys \in Seq(PricePoints), PriceList(xs) = PriceList(ys)
        PROVE  xs = ys
    <2> DEFINE h == g(xs)
               k == g(ys)
    <2>1. CanonList(h) = CanonList(k) /\ h \in Seq(CanonTexts) /\ k \in Seq(CanonTexts)
      BY <1>2, <1>4
    <2> HIDE DEF h, k
    <2>2. h = k
      BY <2>1, ListsTell
    <2>3. Len(xs) = Len(ys)
      BY <1>2, <2>2 DEF h, k
    <2>4. ASSUME NEW i \in 1..Len(xs) PROVE xs[i] = ys[i]
      <3> DEFINE x == xs[i]
                 y == ys[i]
      <3>1. x \in PricePoints /\ y \in PricePoints /\ TwPricePoint(x) = TwPricePoint(y)
        BY <1>2, <2>2, <2>3 DEF h, k
      <3> HIDE DEF x, y
      <3>2. CanonFields(PricePointFields(x)) = CanonFields(PricePointFields(y))
        BY <1>1, <3>1
      <3>3. x = y
        BY <3>1, <3>2, PricePointFieldsTell
      <3> QED
        BY <3>3 DEF x, y
    <2> QED
      BY <2>3, <2>4, SeqEqual
  <1> QED
    BY <1>3, <1>4

PlayList(xs) == CanonList(Each(PrGamePlay, xs))

LEMMA PlayListTells ==
  /\ \A xs \in Seq(GamePlays) : PlayList(xs) \in CanonTexts
  /\ \A xs, ys \in Seq(GamePlays) : PlayList(xs) = PlayList(ys) => xs = ys
  <1> DEFINE g(xs) == [i \in DOMAIN xs |-> PrGamePlay(xs[i])]
  <1>1. ASSUME NEW x \in GamePlays
        PROVE  PrGamePlay(x) = CanonFields(GamePlayFields(x)) /\ PrGamePlay(x) \in CanonTexts
    <2>1. PrGamePlay(x) = CanonFields(GamePlayFields(x))
      BY DEF PrGamePlay, GamePlayFields
    <2> DEFINE kvs == GamePlayFields(x)
    <2>2. kvs \in Seq(FieldPairs) /\ PrGamePlay(x) = CanonFields(kvs)
      BY <2>1, GamePlayFieldsType
    <2> HIDE DEF kvs
    <2>3. CanonFields(kvs) \in CanonTexts
      BY <2>2, FieldsType
    <2> QED
      BY <2>1, <2>2, <2>3
  <1>2. ASSUME NEW xs \in Seq(GamePlays)
        PROVE  /\ PlayList(xs) = CanonList(g(xs)) /\ g(xs) \in Seq(CanonTexts) /\ Len(g(xs)) = Len(xs)
               /\ \A i \in 1..Len(xs) : xs[i] \in GamePlays /\ g(xs)[i] = PrGamePlay(xs[i])
    <2>1. Len(xs) \in Nat /\ DOMAIN xs = 1..Len(xs) /\ \A i \in 1..Len(xs) : xs[i] \in GamePlays
      BY LenProperties, ElementOfSeq
    <2> DEFINE h == g(xs)
    <2>2. h = [i \in 1..Len(xs) |-> h[i]] /\ \A i \in 1..Len(xs) : h[i] \in CanonTexts /\ h[i] = PrGamePlay(xs[i])
      BY <1>1, <2>1
    <2>3. PlayList(xs) = CanonList(h)
      BY DEF PlayList, Each
    <2> HIDE DEF h
    <2>4. h \in Seq(CanonTexts) /\ Len(h) = Len(xs)
      BY <2>1, <2>2, SequenceIs
    <2> QED
      BY <2>1, <2>2, <2>3, <2>4 DEF h
  <1> HIDE DEF g
  <1>3. ASSUME NEW xs \in Seq(GamePlays) PROVE PlayList(xs) \in CanonTexts
    BY <1>2, ListType
  <1>4. ASSUME NEW xs \in Seq(GamePlays), NEW ys \in Seq(GamePlays), PlayList(xs) = PlayList(ys)
        PROVE  xs = ys
    <2> DEFINE h == g(xs)
               k == g(ys)
    <2>1. CanonList(h) = CanonList(k) /\ h \in Seq(CanonTexts) /\ k \in Seq(CanonTexts)
      BY <1>2, <1>4
    <2> HIDE DEF h, k
    <2>2. h = k
      BY <2>1, ListsTell
    <2>3. Len(xs) = Len(ys)
      BY <1>2, <2>2 DEF h, k
    <2>4. ASSUME NEW i \in 1..Len(xs) PROVE xs[i] = ys[i]
      <3> DEFINE x == xs[i]
                 y == ys[i]
      <3>1. x \in GamePlays /\ y \in GamePlays /\ PrGamePlay(x) = PrGamePlay(y)
        BY <1>2, <2>2, <2>3 DEF h, k
      <3> HIDE DEF x, y
      <3>2. CanonFields(GamePlayFields(x)) = CanonFields(GamePlayFields(y))
        BY <1>1, <3>1
      <3>3. x = y
        BY <3>1, <3>2, GamePlayFieldsTell
      <3> QED
        BY <3>3 DEF x, y
    <2> QED
      BY <2>3, <2>4, SeqEqual
  <1> QED
    BY <1>3, <1>4

TradeWarsEntryFields(v) ==
  << Named("allocations", AllocationList(v.allocations)), Text("cycle-id", v.cycleId),
     Named("entry-prices", PriceList(v.entryPrices)), Text("game-code", Spell("trade-wars-v4")),
     Text("tier", v.tier), Decimal("virtual-balance", v.virtualBalance) >>

LEMMA TradeWarsEntryFieldsType ==
  ASSUME NEW v, v \in TradeWarsEntries
  PROVE  TradeWarsEntryFields(v) \in Seq(FieldPairs) /\ Len(TradeWarsEntryFields(v)) = 6
  <1>1. { "allocations", "cycle-id", "entry-prices", "game-code", "tier", "virtual-balance" } \subseteq FieldNames
    BY DEF FieldNames
  <1>2. /\ AllocationList(v.allocations) \in CanonTexts /\ PriceList(v.entryPrices) \in CanonTexts
    BY AllocationListTells, PriceListTells DEF TradeWarsEntries
  <1>3. Spell("trade-wars-v4") \in Texts
    BY WordsAssumption DEF Labels
  <1>4. /\ Named("allocations", AllocationList(v.allocations)) \in FieldPairs
        /\ Text("cycle-id", v.cycleId) \in FieldPairs
        /\ Named("entry-prices", PriceList(v.entryPrices)) \in FieldPairs
        /\ Text("game-code", Spell("trade-wars-v4")) \in FieldPairs
        /\ Text("tier", v.tier) \in FieldPairs
        /\ Decimal("virtual-balance", v.virtualBalance) \in FieldPairs
    BY <1>1, <1>2, <1>3, FieldTyped, FieldNamed DEF TradeWarsEntries
  <1> QED
    BY <1>4 DEF TradeWarsEntryFields

LEMMA TradeWarsEntryFieldsTell ==
  ASSUME NEW v, NEW w, v \in TradeWarsEntries, w \in TradeWarsEntries,
         CanonFields(TradeWarsEntryFields(v)) = CanonFields(TradeWarsEntryFields(w))
  PROVE  v = w
  <1> DEFINE a == TradeWarsEntryFields(v)
             b == TradeWarsEntryFields(w)
  <1>1. a \in Seq(FieldPairs) /\ b \in Seq(FieldPairs) /\ Len(a) = 6 /\ Len(b) = 6
    BY TradeWarsEntryFieldsType
  <1>2. \A i \in 1..6 : a[i][1] = b[i][1]
    BY DEF TradeWarsEntryFields, Text, Whole, Decimal, Named
  <1>3. a = b
    <2> HIDE DEF a, b
    <2>1. CanonFields(a) = CanonFields(b)
      BY DEF a, b
    <2> QED
      BY <1>1, <1>2, <2>1, FieldsTell
  <1>4. /\ AllocationList(v.allocations) = AllocationList(w.allocations)
        /\ CanonText(v.cycleId) = CanonText(w.cycleId)
        /\ PriceList(v.entryPrices) = PriceList(w.entryPrices)
        /\ CanonText(v.tier) = CanonText(w.tier)
        /\ CanonDecimal(v.virtualBalance) = CanonDecimal(w.virtualBalance)
    BY <1>3 DEF TradeWarsEntryFields, Text, Whole, Decimal, Named
  <1>5. /\ v.allocations = w.allocations /\ v.cycleId = w.cycleId /\ v.entryPrices = w.entryPrices
        /\ v.tier = w.tier
    BY <1>4, AllocationListTells, CanonTextTells, PriceListTells DEF TradeWarsEntries
  <1>6. v.virtualBalance = w.virtualBalance
    BY <1>4, CanonNumbersTell DEF TradeWarsEntries
  <1> QED
    BY <1>5, <1>6 DEF TradeWarsEntries

TradeWarsOutcomeFields(v) ==
  << Text("cycle-id", v.cycleId), Named("exit-prices", PriceList(v.exitPrices)),
     Decimal("forfeited-amount", v.forfeitedAmount), Text("game-code", Spell("trade-wars-v4")),
     Decimal("returned-amount", v.returnedAmount), Decimal("virtual-pnl", v.virtualPnl),
     Decimal("virtual-pnl-percent", v.virtualPnlPercent), Decimal("xp-awarded", v.xpAwarded) >>

LEMMA TradeWarsOutcomeFieldsType ==
  ASSUME NEW v, v \in TradeWarsOutcomes
  PROVE  TradeWarsOutcomeFields(v) \in Seq(FieldPairs) /\ Len(TradeWarsOutcomeFields(v)) = 8
  <1>1. { "cycle-id", "exit-prices", "forfeited-amount", "game-code", "returned-amount", "virtual-pnl",
          "virtual-pnl-percent", "xp-awarded" } \subseteq FieldNames
    BY DEF FieldNames
  <1>2. PriceList(v.exitPrices) \in CanonTexts
    BY PriceListTells DEF TradeWarsOutcomes
  <1>3. Spell("trade-wars-v4") \in Texts
    BY WordsAssumption DEF Labels
  <1>4. /\ Text("cycle-id", v.cycleId) \in FieldPairs
        /\ Named("exit-prices", PriceList(v.exitPrices)) \in FieldPairs
        /\ Decimal("forfeited-amount", v.forfeitedAmount) \in FieldPairs
        /\ Text("game-code", Spell("trade-wars-v4")) \in FieldPairs
        /\ Decimal("returned-amount", v.returnedAmount) \in FieldPairs
        /\ Decimal("virtual-pnl", v.virtualPnl) \in FieldPairs
        /\ Decimal("virtual-pnl-percent", v.virtualPnlPercent) \in FieldPairs
        /\ Decimal("xp-awarded", v.xpAwarded) \in FieldPairs
    BY <1>1, <1>2, <1>3, FieldTyped, FieldNamed DEF TradeWarsOutcomes
  <1> QED
    BY <1>4 DEF TradeWarsOutcomeFields

LEMMA TradeWarsOutcomeFieldsTell ==
  ASSUME NEW v, NEW w, v \in TradeWarsOutcomes, w \in TradeWarsOutcomes,
         CanonFields(TradeWarsOutcomeFields(v)) = CanonFields(TradeWarsOutcomeFields(w))
  PROVE  v = w
  <1> DEFINE a == TradeWarsOutcomeFields(v)
             b == TradeWarsOutcomeFields(w)
  <1>1. a \in Seq(FieldPairs) /\ b \in Seq(FieldPairs) /\ Len(a) = 8 /\ Len(b) = 8
    BY TradeWarsOutcomeFieldsType
  <1>2. \A i \in 1..8 : a[i][1] = b[i][1]
    BY DEF TradeWarsOutcomeFields, Text, Whole, Decimal, Named
  <1>3. a = b
    <2> HIDE DEF a, b
    <2>1. CanonFields(a) = CanonFields(b)
      BY DEF a, b
    <2> QED
      BY <1>1, <1>2, <2>1, FieldsTell
  <1>4. /\ CanonText(v.cycleId) = CanonText(w.cycleId)
        /\ PriceList(v.exitPrices) = PriceList(w.exitPrices)
        /\ CanonDecimal(v.forfeitedAmount) = CanonDecimal(w.forfeitedAmount)
        /\ CanonDecimal(v.returnedAmount) = CanonDecimal(w.returnedAmount)
        /\ CanonDecimal(v.virtualPnl) = CanonDecimal(w.virtualPnl)
        /\ CanonDecimal(v.virtualPnlPercent) = CanonDecimal(w.virtualPnlPercent)
        /\ CanonDecimal(v.xpAwarded) = CanonDecimal(w.xpAwarded)
    BY <1>3 DEF TradeWarsOutcomeFields, Text, Whole, Decimal, Named
  <1>5. /\ v.cycleId = w.cycleId /\ v.exitPrices = w.exitPrices
    BY <1>4, CanonTextTells, PriceListTells DEF TradeWarsOutcomes
  <1>6. /\ v.forfeitedAmount = w.forfeitedAmount /\ v.returnedAmount = w.returnedAmount
        /\ v.virtualPnl = w.virtualPnl /\ v.virtualPnlPercent = w.virtualPnlPercent
        /\ v.xpAwarded = w.xpAwarded
    BY <1>4, CanonNumbersTell DEF TradeWarsOutcomes
  <1> QED
    BY <1>5, <1>6 DEF TradeWarsOutcomes

PixelRaceEntryFields(v) ==
  << Text("cycle-id", v.cycleId), Text("game-code", Spell("pixel-race-v1")),
     Whole("max-games-per-session", v.maxGamesPerSession),
     Text("rng-seed-commit", v.rngSeedCommit), Text("tier", v.tier) >>

LEMMA PixelRaceEntryFieldsType ==
  ASSUME NEW v, v \in PixelRaceEntries
  PROVE  PixelRaceEntryFields(v) \in Seq(FieldPairs) /\ Len(PixelRaceEntryFields(v)) = 5
  <1>1. { "cycle-id", "game-code", "max-games-per-session", "rng-seed-commit", "tier" } \subseteq FieldNames
    BY DEF FieldNames
  <1>2. Spell("pixel-race-v1") \in Texts
    BY WordsAssumption DEF Labels
  <1>3. /\ Text("cycle-id", v.cycleId) \in FieldPairs
        /\ Text("game-code", Spell("pixel-race-v1")) \in FieldPairs
        /\ Whole("max-games-per-session", v.maxGamesPerSession) \in FieldPairs
        /\ Text("rng-seed-commit", v.rngSeedCommit) \in FieldPairs
        /\ Text("tier", v.tier) \in FieldPairs
    BY <1>1, <1>2, FieldTyped DEF PixelRaceEntries
  <1> QED
    BY <1>3 DEF PixelRaceEntryFields

LEMMA PixelRaceEntryFieldsTell ==
  ASSUME NEW v, NEW w, v \in PixelRaceEntries, w \in PixelRaceEntries,
         CanonFields(PixelRaceEntryFields(v)) = CanonFields(PixelRaceEntryFields(w))
  PROVE  v = w
  <1> DEFINE a == PixelRaceEntryFields(v)
             b == PixelRaceEntryFields(w)
  <1>1. a \in Seq(FieldPairs) /\ b \in Seq(FieldPairs) /\ Len(a) = 5 /\ Len(b) = 5
    BY PixelRaceEntryFieldsType
  <1>2. \A i \in 1..5 : a[i][1] = b[i][1]
    BY DEF PixelRaceEntryFields, Text, Whole, Decimal, Named
  <1>3. a = b
    <2> HIDE DEF a, b
    <2>1. CanonFields(a) = CanonFields(b)
      BY DEF a, b
    <2> QED
      BY <1>1, <1>2, <2>1, FieldsTell
  <1>4. /\ CanonText(v.cycleId) = CanonText(w.cycleId)
        /\ CanonInt(v.maxGamesPerSession) = CanonInt(w.maxGamesPerSession)
        /\ CanonText(v.rngSeedCommit) = CanonText(w.rngSeedCommit)
        /\ CanonText(v.tier) = CanonText(w.tier)
    BY <1>3 DEF PixelRaceEntryFields, Text, Whole, Decimal, Named
  <1>5. /\ v.cycleId = w.cycleId /\ v.rngSeedCommit = w.rngSeedCommit /\ v.tier = w.tier
    BY <1>4, CanonTextTells DEF PixelRaceEntries
  <1>6. v.maxGamesPerSession = w.maxGamesPerSession
    BY <1>4, CanonNumbersTell DEF PixelRaceEntries
  <1> QED
    BY <1>5, <1>6 DEF PixelRaceEntries

PixelRaceOutcomeFields(v) ==
  << Text("cycle-id", v.cycleId), Decimal("forfeited-amount", v.forfeitedAmount),
     Text("game-code", Spell("pixel-race-v1")), Named("plays", PlayList(v.plays)),
     Decimal("returned-amount", v.returnedAmount), Text("rng-seed", v.rngSeed),
     Whole("total-score", v.totalScore), Decimal("xp-awarded", v.xpAwarded) >>

LEMMA PixelRaceOutcomeFieldsType ==
  ASSUME NEW v, v \in PixelRaceOutcomes
  PROVE  PixelRaceOutcomeFields(v) \in Seq(FieldPairs) /\ Len(PixelRaceOutcomeFields(v)) = 8
  <1>1. { "cycle-id", "forfeited-amount", "game-code", "plays", "returned-amount", "rng-seed",
          "total-score", "xp-awarded" } \subseteq FieldNames
    BY DEF FieldNames
  <1>2. PlayList(v.plays) \in CanonTexts
    BY PlayListTells DEF PixelRaceOutcomes
  <1>3. Spell("pixel-race-v1") \in Texts
    BY WordsAssumption DEF Labels
  <1>4. /\ Text("cycle-id", v.cycleId) \in FieldPairs
        /\ Decimal("forfeited-amount", v.forfeitedAmount) \in FieldPairs
        /\ Text("game-code", Spell("pixel-race-v1")) \in FieldPairs
        /\ Named("plays", PlayList(v.plays)) \in FieldPairs
        /\ Decimal("returned-amount", v.returnedAmount) \in FieldPairs
        /\ Text("rng-seed", v.rngSeed) \in FieldPairs
        /\ Whole("total-score", v.totalScore) \in FieldPairs
        /\ Decimal("xp-awarded", v.xpAwarded) \in FieldPairs
    BY <1>1, <1>2, <1>3, FieldTyped, FieldNamed DEF PixelRaceOutcomes
  <1> QED
    BY <1>4 DEF PixelRaceOutcomeFields

LEMMA PixelRaceOutcomeFieldsTell ==
  ASSUME NEW v, NEW w, v \in PixelRaceOutcomes, w \in PixelRaceOutcomes,
         CanonFields(PixelRaceOutcomeFields(v)) = CanonFields(PixelRaceOutcomeFields(w))
  PROVE  v = w
  <1> DEFINE a == PixelRaceOutcomeFields(v)
             b == PixelRaceOutcomeFields(w)
  <1>1. a \in Seq(FieldPairs) /\ b \in Seq(FieldPairs) /\ Len(a) = 8 /\ Len(b) = 8
    BY PixelRaceOutcomeFieldsType
  <1>2. \A i \in 1..8 : a[i][1] = b[i][1]
    BY DEF PixelRaceOutcomeFields, Text, Whole, Decimal, Named
  <1>3. a = b
    <2> HIDE DEF a, b
    <2>1. CanonFields(a) = CanonFields(b)
      BY DEF a, b
    <2> QED
      BY <1>1, <1>2, <2>1, FieldsTell
  <1>4. /\ CanonText(v.cycleId) = CanonText(w.cycleId)
        /\ CanonDecimal(v.forfeitedAmount) = CanonDecimal(w.forfeitedAmount)
        /\ PlayList(v.plays) = PlayList(w.plays)
        /\ CanonDecimal(v.returnedAmount) = CanonDecimal(w.returnedAmount)
        /\ CanonText(v.rngSeed) = CanonText(w.rngSeed)
        /\ CanonInt(v.totalScore) = CanonInt(w.totalScore)
        /\ CanonDecimal(v.xpAwarded) = CanonDecimal(w.xpAwarded)
    BY <1>3 DEF PixelRaceOutcomeFields, Text, Whole, Decimal, Named
  <1>5. /\ v.cycleId = w.cycleId /\ v.plays = w.plays /\ v.rngSeed = w.rngSeed
    BY <1>4, CanonTextTells, PlayListTells DEF PixelRaceOutcomes
  <1>6. /\ v.forfeitedAmount = w.forfeitedAmount /\ v.returnedAmount = w.returnedAmount
        /\ v.totalScore = w.totalScore /\ v.xpAwarded = w.xpAwarded
    BY <1>4, CanonNumbersTell DEF PixelRaceOutcomes
  <1> QED
    BY <1>5, <1>6 DEF PixelRaceOutcomes

PolicyFields(v) ==
  << Decimal("min-stake-amount", v.minStakeAmount), Decimal("max-stake-amount", v.maxStakeAmount),
     Decimal("min-platform-fee", v.minPlatformFee),
     Decimal("max-payout-amount", v.maxPayoutAmount), Whole("min-lock-seconds", v.minLockSeconds),
     Whole("max-lock-seconds", v.maxLockSeconds), Whole("min-cycle-seconds", v.minCycleSeconds),
     Whole("max-cycle-seconds", v.maxCycleSeconds), Whole("cooldown-seconds", v.cooldownSeconds),
     Whole("abort-cooldown-seconds", v.abortCooldownSeconds),
     Whole("concurrency-limit", v.concurrencyLimit),
     Named("require-custody-proof", CanonBool(v.requireCustodyProof)) >>

LEMMA PolicyFieldsType ==
  ASSUME NEW v, v \in Policies
  PROVE  PolicyFields(v) \in Seq(FieldPairs) /\ Len(PolicyFields(v)) = 12
  <1>1. { "min-stake-amount", "max-stake-amount", "min-platform-fee", "max-payout-amount",
          "min-lock-seconds", "max-lock-seconds", "min-cycle-seconds", "max-cycle-seconds",
          "cooldown-seconds", "abort-cooldown-seconds", "concurrency-limit",
          "require-custody-proof" } \subseteq FieldNames
    BY DEF FieldNames
  <1>2. CanonBool(v.requireCustodyProof) \in CanonTexts
    BY CanonBoolTells DEF Policies
  <1>3. /\ Decimal("min-stake-amount", v.minStakeAmount) \in FieldPairs
        /\ Decimal("max-stake-amount", v.maxStakeAmount) \in FieldPairs
        /\ Decimal("min-platform-fee", v.minPlatformFee) \in FieldPairs
        /\ Decimal("max-payout-amount", v.maxPayoutAmount) \in FieldPairs
        /\ Whole("min-lock-seconds", v.minLockSeconds) \in FieldPairs
        /\ Whole("max-lock-seconds", v.maxLockSeconds) \in FieldPairs
        /\ Whole("min-cycle-seconds", v.minCycleSeconds) \in FieldPairs
        /\ Whole("max-cycle-seconds", v.maxCycleSeconds) \in FieldPairs
        /\ Whole("cooldown-seconds", v.cooldownSeconds) \in FieldPairs
        /\ Whole("abort-cooldown-seconds", v.abortCooldownSeconds) \in FieldPairs
        /\ Whole("concurrency-limit", v.concurrencyLimit) \in FieldPairs
        /\ Named("require-custody-proof", CanonBool(v.requireCustodyProof)) \in FieldPairs
    BY <1>1, <1>2, FieldTyped, FieldNamed DEF Policies
  <1> QED
    BY <1>3 DEF PolicyFields

LEMMA PolicyFieldsTell ==
  ASSUME NEW v, NEW w, v \in Policies, w \in Policies,
         CanonFields(PolicyFields(v)) = CanonFields(PolicyFields(w))
  PROVE  v = w
  <1> DEFINE a == PolicyFields(v)
             b == PolicyFields(w)
  <1>1. a \in Seq(FieldPairs) /\ b \in Seq(FieldPairs) /\ Len(a) = 12 /\ Len(b) = 12
    BY PolicyFieldsType
  <1>2. \A i \in 1..12 : a[i][1] = b[i][1]
    BY DEF PolicyFields, Text, Whole, Decimal, Named
  <1>3. a = b
    <2> HIDE DEF a, b
    <2>1. CanonFields(a) = CanonFields(b)
      BY DEF a, b
    <2> QED
      BY <1>1, <1>2, <2>1, FieldsTell
  <1>4. /\ CanonDecimal(v.minStakeAmount) = CanonDecimal(w.minStakeAmount)
        /\ CanonDecimal(v.maxStakeAmount) = CanonDecimal(w.maxStakeAmount)
        /\ CanonDecimal(v.minPlatformFee) = CanonDecimal(w.minPlatformFee)
        /\ CanonDecimal(v.maxPayoutAmount) = CanonDecimal(w.maxPayoutAmount)
        /\ CanonInt(v.minLockSeconds) = CanonInt(w.minLockSeconds)
        /\ CanonInt(v.maxLockSeconds) = CanonInt(w.maxLockSeconds)
        /\ CanonInt(v.minCycleSeconds) = CanonInt(w.minCycleSeconds)
        /\ CanonInt(v.maxCycleSeconds) = CanonInt(w.maxCycleSeconds)
        /\ CanonInt(v.cooldownSeconds) = CanonInt(w.cooldownSeconds)
        /\ CanonInt(v.abortCooldownSeconds) = CanonInt(w.abortCooldownSeconds)
        /\ CanonInt(v.concurrencyLimit) = CanonInt(w.concurrencyLimit)
        /\ CanonBool(v.requireCustodyProof) = CanonBool(w.requireCustodyProof)
    BY <1>3 DEF PolicyFields, Text, Whole, Decimal, Named
  <1>5. v.requireCustodyProof = w.requireCustodyProof
    BY <1>4, CanonBoolTells DEF Policies
  <1>6. /\ v.minStakeAmount = w.minStakeAmount /\ v.maxStakeAmount = w.maxStakeAmount
        /\ v.minPlatformFee = w.minPlatformFee /\ v.maxPayoutAmount = w.maxPayoutAmount
        /\ v.minLockSeconds = w.minLockSeconds /\ v.maxLockSeconds = w.maxLockSeconds
        /\ v.minCycleSeconds = w.minCycleSeconds /\ v.maxCycleSeconds = w.maxCycleSeconds
        /\ v.cooldownSeconds = w.cooldownSeconds /\ v.abortCooldownSeconds = w.abortCooldownSeconds
        /\ v.concurrencyLimit = w.concurrencyLimit
    BY <1>4, CanonNumbersTell DEF Policies
  <1> QED
    BY <1>5, <1>6 DEF Policies

RowFields(v) ==
  << Text("cycleId", v.cycleId), Named("player", CanonParty(v.player)),
     Text("gameCode", v.gameCode), Whole("concurrencyIndex", v.concurrencyIndex),
     Text("entryDigest", v.entryDigest), Text("outcomeDigest", v.outcomeDigest),
     Whole("committedUnits", v.committedUnits), Whole("feeUnits", v.feeUnits),
     Whole("returnedUnits", v.returnedUnits), Whole("forfeitedUnits", v.forfeitedUnits),
     Whole("payoutUnits", v.payoutUnits), Text("disposition", v.disposition),
     Whole("committedAtMicros", v.committedAtMicros), Whole("settledAtMicros", v.settledAtMicros),
     Text("custodyTag", v.custodyTag) >>

LEMMA RowFieldsType ==
  ASSUME NEW v, v \in AuditRows
  PROVE  RowFields(v) \in Seq(FieldPairs) /\ Len(RowFields(v)) = 15
  <1>1. { "cycleId", "player", "gameCode", "concurrencyIndex", "entryDigest", "outcomeDigest",
          "committedUnits", "feeUnits", "returnedUnits", "forfeitedUnits", "payoutUnits",
          "disposition", "committedAtMicros", "settledAtMicros", "custodyTag" } \subseteq FieldNames
    BY DEF FieldNames
  <1>2. CanonParty(v.player) \in CanonTexts
    BY CanonPartyTells DEF AuditRows
  <1>3. /\ Text("cycleId", v.cycleId) \in FieldPairs
        /\ Named("player", CanonParty(v.player)) \in FieldPairs
        /\ Text("gameCode", v.gameCode) \in FieldPairs
        /\ Whole("concurrencyIndex", v.concurrencyIndex) \in FieldPairs
        /\ Text("entryDigest", v.entryDigest) \in FieldPairs
        /\ Text("outcomeDigest", v.outcomeDigest) \in FieldPairs
        /\ Whole("committedUnits", v.committedUnits) \in FieldPairs
        /\ Whole("feeUnits", v.feeUnits) \in FieldPairs
        /\ Whole("returnedUnits", v.returnedUnits) \in FieldPairs
        /\ Whole("forfeitedUnits", v.forfeitedUnits) \in FieldPairs
        /\ Whole("payoutUnits", v.payoutUnits) \in FieldPairs
        /\ Text("disposition", v.disposition) \in FieldPairs
        /\ Whole("committedAtMicros", v.committedAtMicros) \in FieldPairs
        /\ Whole("settledAtMicros", v.settledAtMicros) \in FieldPairs
        /\ Text("custodyTag", v.custodyTag) \in FieldPairs
    BY <1>1, <1>2, FieldTyped, FieldNamed DEF AuditRows
  <1> QED
    BY <1>3 DEF RowFields

LEMMA RowFieldsTell ==
  ASSUME NEW v, NEW w, v \in AuditRows, w \in AuditRows,
         CanonFields(RowFields(v)) = CanonFields(RowFields(w))
  PROVE  v = w
  <1> DEFINE a == RowFields(v)
             b == RowFields(w)
  <1>1. a \in Seq(FieldPairs) /\ b \in Seq(FieldPairs) /\ Len(a) = 15 /\ Len(b) = 15
    BY RowFieldsType
  <1>2. \A i \in 1..15 : a[i][1] = b[i][1]
    BY DEF RowFields, Text, Whole, Decimal, Named
  <1>3. a = b
    <2> HIDE DEF a, b
    <2>1. CanonFields(a) = CanonFields(b)
      BY DEF a, b
    <2> QED
      BY <1>1, <1>2, <2>1, FieldsTell
  <1>4. /\ CanonText(v.cycleId) = CanonText(w.cycleId)
        /\ CanonParty(v.player) = CanonParty(w.player)
        /\ CanonText(v.gameCode) = CanonText(w.gameCode)
        /\ CanonInt(v.concurrencyIndex) = CanonInt(w.concurrencyIndex)
        /\ CanonText(v.entryDigest) = CanonText(w.entryDigest)
        /\ CanonText(v.outcomeDigest) = CanonText(w.outcomeDigest)
        /\ CanonInt(v.committedUnits) = CanonInt(w.committedUnits)
        /\ CanonInt(v.feeUnits) = CanonInt(w.feeUnits)
        /\ CanonInt(v.returnedUnits) = CanonInt(w.returnedUnits)
        /\ CanonInt(v.forfeitedUnits) = CanonInt(w.forfeitedUnits)
        /\ CanonInt(v.payoutUnits) = CanonInt(w.payoutUnits)
        /\ CanonText(v.disposition) = CanonText(w.disposition)
        /\ CanonInt(v.committedAtMicros) = CanonInt(w.committedAtMicros)
        /\ CanonInt(v.settledAtMicros) = CanonInt(w.settledAtMicros)
        /\ CanonText(v.custodyTag) = CanonText(w.custodyTag)
    BY <1>3 DEF RowFields, Text, Whole, Decimal, Named
  <1>5. /\ v.cycleId = w.cycleId /\ v.player = w.player /\ v.gameCode = w.gameCode
        /\ v.entryDigest = w.entryDigest /\ v.outcomeDigest = w.outcomeDigest
        /\ v.disposition = w.disposition /\ v.custodyTag = w.custodyTag
    BY <1>4, CanonTextTells, CanonPartyTells DEF AuditRows
  <1>6. /\ v.concurrencyIndex = w.concurrencyIndex /\ v.committedUnits = w.committedUnits
        /\ v.feeUnits = w.feeUnits /\ v.returnedUnits = w.returnedUnits
        /\ v.forfeitedUnits = w.forfeitedUnits /\ v.payoutUnits = w.payoutUnits
        /\ v.committedAtMicros = w.committedAtMicros /\ v.settledAtMicros = w.settledAtMicros
    BY <1>4, CanonNumbersTell DEF AuditRows
  <1> QED
    BY <1>5, <1>6 DEF AuditRows

AnchorFields(v) ==
  << Text("venueId", v.venueId), Text("periodId", v.periodId),
     Whole("periodStartMicros", v.periodStartMicros), Whole("periodEndMicros", v.periodEndMicros),
     Whole("cycleCount", v.cycleCount), Whole("committedUnits", v.committedUnits),
     Whole("feeUnits", v.feeUnits), Whole("returnedUnits", v.returnedUnits),
     Whole("forfeitedUnits", v.forfeitedUnits), Whole("payoutUnits", v.payoutUnits),
     Whole("qualifyingTxCount", v.qualifyingTxCount),
     Whole("nonQualifyingTxCount", v.nonQualifyingTxCount), Text("merkleRootHex", v.merkleRootHex),
     Text("reportDigest", v.reportDigest), Text("prevAnchorDigest", v.prevAnchorDigest) >>

LEMMA AnchorFieldsType ==
  ASSUME NEW v, v \in PeriodAnchors
  PROVE  AnchorFields(v) \in Seq(FieldPairs) /\ Len(AnchorFields(v)) = 15
  <1>1. { "venueId", "periodId", "periodStartMicros", "periodEndMicros", "cycleCount",
          "committedUnits", "feeUnits", "returnedUnits", "forfeitedUnits", "payoutUnits",
          "qualifyingTxCount", "nonQualifyingTxCount", "merkleRootHex", "reportDigest",
          "prevAnchorDigest" } \subseteq FieldNames
    BY DEF FieldNames
  <1>2. /\ Text("venueId", v.venueId) \in FieldPairs /\ Text("periodId", v.periodId) \in FieldPairs
        /\ Whole("periodStartMicros", v.periodStartMicros) \in FieldPairs
        /\ Whole("periodEndMicros", v.periodEndMicros) \in FieldPairs
        /\ Whole("cycleCount", v.cycleCount) \in FieldPairs
        /\ Whole("committedUnits", v.committedUnits) \in FieldPairs
        /\ Whole("feeUnits", v.feeUnits) \in FieldPairs
        /\ Whole("returnedUnits", v.returnedUnits) \in FieldPairs
        /\ Whole("forfeitedUnits", v.forfeitedUnits) \in FieldPairs
        /\ Whole("payoutUnits", v.payoutUnits) \in FieldPairs
        /\ Whole("qualifyingTxCount", v.qualifyingTxCount) \in FieldPairs
        /\ Whole("nonQualifyingTxCount", v.nonQualifyingTxCount) \in FieldPairs
        /\ Text("merkleRootHex", v.merkleRootHex) \in FieldPairs
        /\ Text("reportDigest", v.reportDigest) \in FieldPairs
        /\ Text("prevAnchorDigest", v.prevAnchorDigest) \in FieldPairs
    BY <1>1, FieldTyped DEF PeriodAnchors
  <1> QED
    BY <1>2 DEF AnchorFields

LEMMA AnchorFieldsTell ==
  ASSUME NEW v, NEW w, v \in PeriodAnchors, w \in PeriodAnchors,
         CanonFields(AnchorFields(v)) = CanonFields(AnchorFields(w))
  PROVE  v = w
  <1> DEFINE a == AnchorFields(v)
             b == AnchorFields(w)
  <1>1. a \in Seq(FieldPairs) /\ b \in Seq(FieldPairs) /\ Len(a) = 15 /\ Len(b) = 15
    BY AnchorFieldsType
  <1>2. \A i \in 1..15 : a[i][1] = b[i][1]
    BY DEF AnchorFields, Text, Whole, Decimal, Named
  <1>3. a = b
    <2> HIDE DEF a, b
    <2>1. CanonFields(a) = CanonFields(b)
      BY DEF a, b
    <2> QED
      BY <1>1, <1>2, <2>1, FieldsTell
  <1>4. /\ CanonText(v.venueId) = CanonText(w.venueId)
        /\ CanonText(v.periodId) = CanonText(w.periodId)
        /\ CanonInt(v.periodStartMicros) = CanonInt(w.periodStartMicros)
        /\ CanonInt(v.periodEndMicros) = CanonInt(w.periodEndMicros)
        /\ CanonInt(v.cycleCount) = CanonInt(w.cycleCount)
        /\ CanonInt(v.committedUnits) = CanonInt(w.committedUnits)
        /\ CanonInt(v.feeUnits) = CanonInt(w.feeUnits)
        /\ CanonInt(v.returnedUnits) = CanonInt(w.returnedUnits)
        /\ CanonInt(v.forfeitedUnits) = CanonInt(w.forfeitedUnits)
        /\ CanonInt(v.payoutUnits) = CanonInt(w.payoutUnits)
        /\ CanonInt(v.qualifyingTxCount) = CanonInt(w.qualifyingTxCount)
        /\ CanonInt(v.nonQualifyingTxCount) = CanonInt(w.nonQualifyingTxCount)
        /\ CanonText(v.merkleRootHex) = CanonText(w.merkleRootHex)
        /\ CanonText(v.reportDigest) = CanonText(w.reportDigest)
        /\ CanonText(v.prevAnchorDigest) = CanonText(w.prevAnchorDigest)
    BY <1>3 DEF AnchorFields, Text, Whole, Decimal, Named
  <1>5. /\ v.venueId = w.venueId /\ v.periodId = w.periodId /\ v.merkleRootHex = w.merkleRootHex
        /\ v.reportDigest = w.reportDigest /\ v.prevAnchorDigest = w.prevAnchorDigest
    BY <1>4, CanonTextTells DEF PeriodAnchors
  <1>6. /\ v.periodStartMicros = w.periodStartMicros /\ v.periodEndMicros = w.periodEndMicros
        /\ v.cycleCount = w.cycleCount /\ v.committedUnits = w.committedUnits
        /\ v.feeUnits = w.feeUnits /\ v.returnedUnits = w.returnedUnits
        /\ v.forfeitedUnits = w.forfeitedUnits /\ v.payoutUnits = w.payoutUnits
        /\ v.qualifyingTxCount = w.qualifyingTxCount
        /\ v.nonQualifyingTxCount = w.nonQualifyingTxCount
    BY <1>4, CanonNumbersTell DEF PeriodAnchors
  <1> QED
    BY <1>5, <1>6 DEF PeriodAnchors

-----------------------------------------------------------------------------
(* The attributes of an asset: the id comes first, whatever the attributes are named. *)

LEMMA ConsIs ==
  ASSUME NEW S, NEW x \in S, NEW t \in Seq(S)
  PROVE  /\ <<x>> \o t \in Seq(S) /\ Len(<<x>> \o t) = Len(t) + 1 /\ Len(t) \in Nat
         /\ (<<x>> \o t)[1] = x /\ \A i \in 1..Len(t) : (<<x>> \o t)[i + 1] = t[i]
  <1> DEFINE e == <<x>>
             u == e \o t
  <1>1. e \in Seq(S) /\ Len(e) = 1 /\ e[1] = x
    OBVIOUS
  <1>2. Len(t) \in Nat
    BY LenProperties
  <1> HIDE DEF e
  <1>3. /\ u \in Seq(S) /\ Len(u) = Len(e) + Len(t)
        /\ \A i \in 1..(Len(e) + Len(t)) : u[i] = IF i <= Len(e) THEN e[i] ELSE t[i - Len(e)]
    BY <1>1, ConcatProperties, Zenon
  <1> HIDE DEF u
  <1>4. Len(u) = Len(t) + 1
    BY <1>1, <1>2, <1>3
  <1>5. u[1] = x
    <2>1. 1 \in 1..(Len(e) + Len(t)) /\ 1 <= Len(e)
      BY <1>1, <1>2
    <2> QED
      BY <1>1, <1>3, <2>1
  <1>6. ASSUME NEW i \in 1..Len(t) PROVE u[i + 1] = t[i]
    <2>1. i + 1 \in 1..(Len(e) + Len(t)) /\ ~(i + 1 <= Len(e)) /\ (i + 1) - Len(e) = i
      BY <1>1, <1>2
    <2> QED
      BY <1>3, <2>1
  <1> QED
    BY <1>2, <1>3, <1>4, <1>5, <1>6 DEF u, e

LEMMA SetToSeqIs ==
  ASSUME NEW S, IsFiniteSet(S)
  PROVE  /\ SetToSeq(S) \in Seq(S) /\ Len(SetToSeq(S)) = Cardinality(S) /\ Cardinality(S) \in Nat
         /\ \A x \in S : \E i \in 1..Cardinality(S) : SetToSeq(S)[i] = x
  <1> DEFINE n == Cardinality(S)
             s == SetToSeq(S)
  <1>1. n \in Nat
    BY FS_CardinalityType
  <1>2. \E f \in [1..n -> S] : IsInjective(f)
    <2>1. PICK m \in Nat : ExistsBijection(1..m, S)
      BY FS_NatBijection
    <2>2. n = m
      BY <2>1, FS_CountingElements
    <2>3. PICK f : f \in Bijection(1..m, S)
      BY <2>1 DEF ExistsBijection
    <2> QED
      BY <2>2, <2>3 DEF Bijection, Injection
  <1>3. s \in [1..n -> S] /\ IsInjective(s)
    BY <1>2 DEF SetToSeq
  <1> HIDE DEF s
  <1>4. \A i, j \in 1..n : i # j => s[i] # s[j]
    BY <1>3 DEF IsInjective
  <1>5. \A x \in S : \E i \in 1..n : s[i] = x
    BY <1>3, <1>4, AllListed
  <1>6. s \in Seq(S) /\ Len(s) = n
    BY <1>1, <1>3
  <1> QED
    BY <1>1, <1>5, <1>6 DEF s

AttributeValues == [whole : Int] \cup [text : Texts]

LEMMA AttributeValueTells ==
  /\ \A v \in AttributeValues : AttributeValue(v) \in CanonTexts
  /\ \A v, w \in AttributeValues : AttributeValue(v) = AttributeValue(w) => v = w
  <1>1. ASSUME NEW v \in [whole : Int]
        PROVE  /\ AttributeValue(v) = Canon("i", Numeral(v.whole)) /\ v.whole \in Int
               /\ v = [whole |-> v.whole] /\ Numeral(v.whole) \in Texts
    <2>1. DOMAIN v = {"whole"} /\ v.whole \in Int /\ v = [whole |-> v.whole]
      OBVIOUS
    <2>2. AttributeValue(v) = CanonInt(v.whole)
      BY <2>1 DEF AttributeValue
    <2> QED
      BY <2>1, <2>2, NumeralType DEF CanonInt
  <1>2. ASSUME NEW v \in [text : Texts]
        PROVE  /\ AttributeValue(v) = Canon("t", v.text) /\ v.text \in Texts /\ v = [text |-> v.text]
    <2>1. DOMAIN v = {"text"} /\ v.text \in Texts /\ v = [text |-> v.text]
      OBVIOUS
    <2>2. AttributeValue(v) = CanonText(v.text)
      BY <2>1 DEF AttributeValue
    <2> QED
      BY <2>1, <2>2 DEF CanonText
  <1>3. "i" \in Tags /\ "t" \in Tags /\ "i" \in Characters /\ "t" \in Characters /\ "i" # "t"
    BY TagsAre DEF Tags
  <1>4. ASSUME NEW v \in AttributeValues PROVE AttributeValue(v) \in CanonTexts
    <2>1. CASE v \in [whole : Int]
      BY <1>1, <1>3, <2>1, EncodedIs
    <2>2. CASE v \in [text : Texts]
      BY <1>2, <1>3, <2>2, EncodedIs
    <2> QED
      BY <2>1, <2>2 DEF AttributeValues
  <1>5. ASSUME NEW v \in AttributeValues, NEW w \in AttributeValues, AttributeValue(v) = AttributeValue(w)
        PROVE  v = w
    <2>1. CASE v \in [whole : Int] /\ w \in [whole : Int]
      <3>1. CanonInt(v.whole) = CanonInt(w.whole)
        BY <1>1, <1>5, <2>1 DEF CanonInt
      <3>2. v.whole = w.whole
        BY <1>1, <2>1, <3>1, CanonNumbersTell
      <3> QED
        BY <1>1, <2>1, <3>2
    <2>2. CASE v \in [text : Texts] /\ w \in [text : Texts]
      <3>1. CanonText(v.text) = CanonText(w.text)
        BY <1>2, <1>5, <2>2 DEF CanonText
      <3>2. v.text = w.text
        BY <1>2, <2>2, <3>1, CanonTextTells
      <3> QED
        BY <1>2, <2>2, <3>2
    <2>3. ASSUME NEW x \in [whole : Int], NEW y \in [text : Texts], AttributeValue(x) = AttributeValue(y)
          PROVE  FALSE
      <3> DEFINE n == Numeral(x.whole)
                 t == y.text
      <3>1. Canon("i", n) = Canon("t", t) /\ n \in Texts /\ t \in Texts
        BY <1>1, <1>2, <2>3
      <3> HIDE DEF n, t
      <3>2. "i" = "t"
        BY <1>3, <3>1, CanonSame
      <3> QED
        BY <1>3, <3>2
    <2>4. /\ ~(v \in [whole : Int] /\ w \in [text : Texts])
          /\ ~(w \in [whole : Int] /\ v \in [text : Texts])
      BY <1>5, <2>3
    <2> QED
      BY <2>1, <2>2, <2>4 DEF AttributeValues
  <1> QED
    BY <1>4, <1>5

IsAccepted(attributes) == IsAttributes(attributes) /\ \A name \in DOMAIN attributes : ValidFieldName(name)

LEMMA AttributesAre ==
  ASSUME NEW a, IsAccepted(a)
  PROVE  /\ AttributeFields(a) \subseteq FieldPairs /\ IsFiniteSet(AttributeFields(a))
         /\ \A n \in DOMAIN a : a[n] \in AttributeValues
  <1> DEFINE f == [n \in DOMAIN a |-> <<n, AttributeValue(a[n])>>]
  <1>1. \A n \in DOMAIN a : a[n] \in AttributeValues /\ n \in Names
    BY DEF IsAccepted, IsAttributes, AttributeValues, Names
  <1>2. \A n \in DOMAIN a : f[n] \in FieldPairs /\ f[n][1] = n
    BY <1>1, AttributeValueTells DEF FieldPairs
  <1>3. \A t : t \in AttributeFields(a) <=> \E n \in DOMAIN a : t = f[n]
    BY DEF AttributeFields
  <1>4. IsFiniteSet(DOMAIN a)
    BY DEF IsAccepted, IsAttributes
  <1> HIDE DEF f
  <1>5. \A m, n \in DOMAIN a : f[m] = f[n] => m = n
    BY <1>2
  <1>6. IsFiniteSet(AttributeFields(a))
    BY <1>3, <1>4, <1>5, SameSize
  <1>7. AttributeFields(a) \subseteq FieldPairs
    BY <1>2, <1>3
  <1> QED
    BY <1>1, <1>6, <1>7

LEMMA AttributesTell ==
  ASSUME NEW a, NEW b, IsAccepted(a), IsAccepted(b), AttributeFields(a) = AttributeFields(b)
  PROVE  a = b
  <1>1. ASSUME NEW x, NEW y, IsAccepted(x), IsAccepted(y), AttributeFields(x) = AttributeFields(y)
        PROVE  \A n \in DOMAIN x : n \in DOMAIN y /\ x[n] = y[n]
    <2> SUFFICES ASSUME NEW n \in DOMAIN x PROVE n \in DOMAIN y /\ x[n] = y[n]
      OBVIOUS
    <2>1. <<n, AttributeValue(x[n])>> \in AttributeFields(x)
      BY DEF AttributeFields
    <2>2. PICK m \in DOMAIN y : <<n, AttributeValue(x[n])>> = <<m, AttributeValue(y[m])>>
      BY <1>1, <2>1 DEF AttributeFields
    <2>3. n = m /\ AttributeValue(x[n]) = AttributeValue(y[m])
      BY <2>2
    <2>4. x[n] \in AttributeValues /\ y[m] \in AttributeValues
      BY <1>1, AttributesAre
    <2> QED
      BY <2>3, <2>4, AttributeValueTells
  <1>2. DOMAIN a = DOMAIN b /\ \A n \in DOMAIN a : a[n] = b[n]
    BY <1>1
  <1>3. a = [n \in DOMAIN a |-> a[n]] /\ b = [n \in DOMAIN b |-> b[n]]
    BY DEF IsAccepted, IsAttributes
  <1> QED
    BY <1>2, <1>3

AssetFields(id, attributes) == <<Text("instrument", id)>> \o SetToSeq(AttributeFields(attributes))

LEMMA AssetFieldsAre ==
  ASSUME NEW id, NEW a, id \in Texts, IsAccepted(a)
  PROVE  LET kvs == AssetFields(id, a)
         IN  /\ kvs \in Seq(FieldPairs) /\ Len(kvs) >= 1
             /\ kvs[1] = Text("instrument", id)
             /\ AttributeFields(a) = {kvs[i] : i \in 2..Len(kvs)}
  <1> DEFINE S == AttributeFields(a)
             t == SetToSeq(S)
             x == Text("instrument", id)
             kvs == AssetFields(id, a)
  <1>1. S \subseteq FieldPairs /\ IsFiniteSet(S)
    BY AttributesAre
  <1>2. x \in FieldPairs
    <2>1. "instrument" \in FieldNames
      BY DEF FieldNames
    <2> QED
      BY <2>1, FieldTyped
  <1> HIDE DEF S
  <1>3. t \in Seq(S) /\ Len(t) \in Nat /\ \A y \in S : \E i \in 1..Len(t) : t[i] = y
    BY <1>1, SetToSeqIs
  <1>4. kvs = <<x>> \o t
    BY DEF AssetFields, S
  <1> HIDE DEF t, x, kvs
  <1>5. \A i \in 1..Len(t) : t[i] \in S
    BY <1>3, ElementOfSeq
  <1>6. t \in Seq(FieldPairs)
    BY <1>1, <1>3
  <1>7. /\ kvs \in Seq(FieldPairs) /\ Len(kvs) = Len(t) + 1 /\ kvs[1] = x
        /\ \A i \in 1..Len(t) : kvs[i + 1] = t[i]
    BY <1>2, <1>4, <1>6, ConsIs
  <1>8. S = {kvs[i] : i \in 2..Len(kvs)}
    <2>1. ASSUME NEW y \in S PROVE \E i \in 2..Len(kvs) : kvs[i] = y
      <3>1. PICK i \in 1..Len(t) : t[i] = y
        BY <1>3
      <3>2. i + 1 \in 2..Len(kvs) /\ kvs[i + 1] = y
        <4>1. Len(kvs) = Len(t) + 1 /\ kvs[i + 1] = t[i]
          BY <1>7
        <4>2. Len(t) \in Nat
          BY <1>3
        <4>3. i + 1 \in 2..Len(kvs)
          BY <4>1, <4>2
        <4> QED
          BY <3>1, <4>1, <4>3
      <3> QED
        BY <3>2
    <2>2. ASSUME NEW i \in 2..Len(kvs) PROVE kvs[i] \in S
      <3>1. i - 1 \in 1..Len(t) /\ (i - 1) + 1 = i
        BY <1>3, <1>7
      <3>2. kvs[(i - 1) + 1] = t[i - 1]
        BY <1>7, <3>1
      <3> QED
        BY <1>5, <3>1, <3>2
    <2> QED
      BY <2>1, <2>2
  <1>9. Len(kvs) >= 1
    BY <1>3, <1>7
  <1> QED
    BY <1>7, <1>8, <1>9 DEF S, x, kvs

\* The first field of a name is the first of that name in the order, and the
\* others are what is left.
LEMMA FirstOfName ==
  ASSUME NEW kvs, kvs \in Seq(FieldPairs), Len(kvs) >= 1
  PROVE  \E p \in 1..Len(kvs) :
           /\ SortedFields(kvs)[p] = kvs[1]
           /\ \A r \in 1..Len(kvs) : SortedFields(kvs)[r][1] = kvs[1][1] => p <= r
           /\ {kvs[i] : i \in 2..Len(kvs)} = {SortedFields(kvs)[r] : r \in 1..Len(kvs) \ {p}}
  <1> DEFINE n == Len(kvs)
             s == SortedFields(kvs)
             p == FieldRank(kvs, 1)
  <1>1. n \in Nat /\ AreNamed(kvs) /\ 1 \in 1..n
    BY PairsNamed
  <1>2. /\ \A i \in 1..n : FieldRank(kvs, i) \in 1..n
        /\ \A i, j \in 1..n : FieldBefore(kvs, i, j) => FieldRank(kvs, i) <= FieldRank(kvs, j)
        /\ \A i, j \in 1..n : FieldRank(kvs, i) = FieldRank(kvs, j) => i = j
    BY <1>1, FieldRankIs
  <1>3. /\ \A i \in 1..n : s[FieldRank(kvs, i)] = kvs[i]
        /\ \A r \in 1..n : \E i \in 1..n : FieldRank(kvs, i) = r /\ s[r] = kvs[i]
    BY <1>1, SortedIs
  <1>4. p \in 1..n /\ s[p] = kvs[1]
    BY <1>1, <1>2, <1>3
  <1> HIDE DEF s
  <1>5. ASSUME NEW r \in 1..n, s[r][1] = kvs[1][1] PROVE p <= r
    <2>1. PICK i \in 1..n : FieldRank(kvs, i) = r /\ s[r] = kvs[i]
      BY <1>3
    <2>2. FieldBefore(kvs, 1, i)
      BY <1>1, <1>5, <2>1 DEF FieldBefore
    <2> QED
      BY <1>1, <1>2, <2>1, <2>2
  <1>6. \A i \in 2..n : i \in 1..n /\ i # 1
    BY <1>1
  <1>7. ASSUME NEW i \in 2..n PROVE \E r \in 1..n \ {p} : s[r] = kvs[i]
    <2>1. FieldRank(kvs, i) \in 1..n /\ FieldRank(kvs, i) # p /\ s[FieldRank(kvs, i)] = kvs[i]
      BY <1>1, <1>2, <1>3, <1>6
    <2> HIDE DEF p
    <2> QED
      BY <2>1
  <1>8. ASSUME NEW r \in 1..n \ {p} PROVE \E i \in 2..n : s[r] = kvs[i]
    <2>1. PICK i \in 1..n : FieldRank(kvs, i) = r /\ s[r] = kvs[i]
      BY <1>3
    <2>2. i # 1
      BY <2>1
    <2>3. i \in 2..n
      BY <1>1, <2>2
    <2> QED
      BY <2>1, <2>3
  <1> HIDE DEF p, n
  <1>9. {kvs[i] : i \in 2..n} = {s[r] : r \in 1..n \ {p}}
    <2>1. ASSUME NEW x \in {kvs[i] : i \in 2..n} PROVE x \in {s[r] : r \in 1..n \ {p}}
      <3>1. PICK i \in 2..n : x = kvs[i]
        BY <2>1
      <3>2. PICK r \in 1..n \ {p} : s[r] = kvs[i]
        BY <1>7
      <3> QED
        BY <3>1, <3>2
    <2>2. ASSUME NEW x \in {s[r] : r \in 1..n \ {p}} PROVE x \in {kvs[i] : i \in 2..n}
      <3>1. PICK r \in 1..n \ {p} : x = s[r]
        BY <2>2
      <3>2. PICK i \in 2..n : s[r] = kvs[i]
        BY <1>8
      <3> QED
        BY <3>1, <3>2
    <2> QED
      BY <2>1, <2>2
  <1> QED
    BY <1>4, <1>5, <1>9 DEF s, n

LEMMA AssetFieldsTell ==
  ASSUME NEW v, NEW w, NEW a, NEW b, v \in Texts, w \in Texts, IsAccepted(a), IsAccepted(b),
         CanonFields(AssetFields(v, a)) = CanonFields(AssetFields(w, b))
  PROVE  v = w /\ a = b
  <1> DEFINE x == AssetFields(v, a)
             y == AssetFields(w, b)
             S == SortedFields(x)
             T == SortedFields(y)
  <1>1. /\ x \in Seq(FieldPairs) /\ Len(x) >= 1 /\ x[1] = Text("instrument", v)
        /\ AttributeFields(a) = {x[i] : i \in 2..Len(x)}
    BY AssetFieldsAre
  <1>2. /\ y \in Seq(FieldPairs) /\ Len(y) >= 1 /\ y[1] = Text("instrument", w)
        /\ AttributeFields(b) = {y[i] : i \in 2..Len(y)}
    BY AssetFieldsAre
  <1>3. CanonFields(x) = CanonFields(y)
    OBVIOUS
  <1>4. x[1][1] = y[1][1]
    <2> HIDE DEF x, y
    <2> QED
      BY <1>1, <1>2 DEF Text, Named
  <1> HIDE DEF x, y
  <1>5. Len(x) = Len(y) /\ \A r \in 1..Len(x) : S[r] = T[r]
    BY <1>1, <1>2, <1>3, FieldsSorted
  <1>6. PICK p \in 1..Len(x) :
          /\ S[p] = x[1]
          /\ \A r \in 1..Len(x) : S[r][1] = x[1][1] => p <= r
          /\ {x[i] : i \in 2..Len(x)} = {S[r] : r \in 1..Len(x) \ {p}}
    BY <1>1, FirstOfName
  <1>7. PICK q \in 1..Len(y) :
          /\ T[q] = y[1]
          /\ \A r \in 1..Len(y) : T[r][1] = y[1][1] => q <= r
          /\ {y[i] : i \in 2..Len(y)} = {T[r] : r \in 1..Len(y) \ {q}}
    BY <1>2, FirstOfName
  <1> HIDE DEF S, T
  <1>8. p = q
    <2>1. q <= p
      <3>1. p \in 1..Len(y) /\ T[p][1] = y[1][1]
        BY <1>4, <1>5, <1>6
      <3> QED
        BY <1>7, <3>1
    <2>2. p <= q
      <3>1. q \in 1..Len(x) /\ S[q][1] = x[1][1]
        BY <1>4, <1>5, <1>7
      <3> QED
        BY <1>6, <3>1
    <2> QED
      BY <2>1, <2>2
  <1>9. x[1] = y[1]
    BY <1>5, <1>6, <1>7, <1>8
  <1>10. v = w
    <2>1. CanonText(v) = CanonText(w)
      BY <1>1, <1>2, <1>9 DEF Text, Named
    <2> QED
      BY <2>1, CanonTextTells
  <1>11. {S[r] : r \in 1..Len(x) \ {p}} = {T[r] : r \in 1..Len(y) \ {q}}
    BY <1>5, <1>8
  <1>12. AttributeFields(a) = AttributeFields(b)
    BY <1>1, <1>2, <1>6, <1>7, <1>11
  <1> QED
    BY <1>10, <1>12, AttributesTell

-----------------------------------------------------------------------------
(* Documents with a schema, and the values they are of. *)

\* A text that is a document of a schema and then the rest.
Headed(text, schema, kvs, rest) ==
  /\ schema \in Schemas /\ kvs \in Seq(FieldPairs) /\ rest \in Texts
  /\ text = Cat(CanonDocument(Spell(schema), 1, kvs), rest)

LEMMA HeadedTells ==
  ASSUME NEW d, NEW s, NEW t, NEW a, NEW b, NEW r, NEW q, Headed(d, s, a, r), Headed(d, t, b, q)
  PROVE  s = t /\ CanonFields(a) = CanonFields(b) /\ r = q
  <1>1. Spell(s) \in Texts /\ Spell(t) \in Texts /\ Apart(Schemas) /\ s \in Schemas /\ t \in Schemas
    BY WordsAssumption DEF Headed
  <1>2. /\ a \in Seq(FieldPairs) /\ b \in Seq(FieldPairs) /\ r \in Texts /\ q \in Texts
        /\ Cat(CanonDocument(Spell(s), 1, a), r) = Cat(CanonDocument(Spell(t), 1, b), q)
    BY DEF Headed
  <1>3. Spell(s) = Spell(t)
    BY <1>1, <1>2, DocumentTells
  <1>4. CanonFields(a) = CanonFields(b)
    BY <1>1, <1>2, DocumentTells
  <1>5. r = q
    BY <1>1, <1>2, DocumentTells
  <1>6. s = t
    BY <1>1, <1>3, WordsDiffer
  <1> QED
    BY <1>4, <1>5, <1>6

LEMMA HeadedStarts ==
  ASSUME NEW d, NEW s, NEW a, NEW r, Headed(d, s, a, r)
  PROVE  \E rest \in Texts : d = Cat(Spell("arccade-sdk-digest-v1"), rest)
  <1> DEFINE x == Spell(s)
             p == SCHEME_PREFIX
             k == DocumentRest(x, a)
  <1>1. x \in Texts /\ a \in Seq(FieldPairs) /\ r \in Texts
    BY WordsAssumption DEF Headed
  <1>2. CanonDocument(x, 1, a) = Cat(p, k) /\ p \in Texts /\ k \in Texts
    BY <1>1, DocumentIs
  <1>3. d = Cat(CanonDocument(x, 1, a), r)
    BY DEF Headed
  <1> HIDE DEF x, p, k
  <1>4. d = Cat(p, Cat(k, r)) /\ Cat(k, r) \in Texts
    <2>1. Cat(Cat(p, k), r) = Cat(p, Cat(k, r))
      BY <1>1, <1>2, CatAssoc
    <2>2. Cat(k, r) \in Texts
      BY <1>1, <1>2, CatType
    <2> QED
      BY <1>2, <1>3, <2>1, <2>2
  <1> QED
    BY <1>4 DEF p, SCHEME_PREFIX

\* A document of a schema with nothing after it.
LEMMA HeadedIs ==
  ASSUME NEW schema \in Schemas, NEW kvs, kvs \in Seq(FieldPairs)
  PROVE  Headed(CanonDocument(Spell(schema), 1, kvs), schema, kvs, <<>>)
  <1> DEFINE d == CanonDocument(Spell(schema), 1, kvs)
  <1>1. d \in Texts
    BY WordsAssumption, DocumentIs
  <1> HIDE DEF d
  <1>2. Cat(d, <<>>) = d /\ <<>> \in Texts
    BY <1>1, CatEmpty
  <1> QED
    BY <1>2 DEF Headed, d

LEMMA KindsHeaded ==
  /\ \A v \in TradeWarsEntries :
       Headed(TradeWarsEntryDocument(v), "arccade-trade-wars-entry", TradeWarsEntryFields(v), <<>>)
  /\ \A v \in TradeWarsOutcomes :
       Headed(TradeWarsOutcomeDocument(v), "arccade-trade-wars-outcome", TradeWarsOutcomeFields(v), <<>>)
  /\ \A v \in PixelRaceEntries :
       Headed(PixelRaceEntryDocument(v), "arccade-pixel-race-entry", PixelRaceEntryFields(v), <<>>)
  /\ \A v \in PixelRaceOutcomes :
       Headed(PixelRaceOutcomeDocument(v), "arccade-pixel-race-outcome", PixelRaceOutcomeFields(v), <<>>)
  /\ \A v \in Policies : Headed(PolicyDocument(v), "arccade-venue-policy", PolicyFields(v), <<>>)
  /\ \A v \in AuditRows : Headed(PeriodLeafDocument(v), "arccade.cycle-audit-row", RowFields(v), <<>>)
  /\ \A v \in PeriodAnchors : Headed(AnchorDocument(v), "arccade.period-anchor", AnchorFields(v), <<>>)
  <1>1. { "arccade-trade-wars-entry", "arccade-trade-wars-outcome", "arccade-pixel-race-entry",
          "arccade-pixel-race-outcome", "arccade-venue-policy", "arccade.cycle-audit-row",
          "arccade.period-anchor" } \subseteq Schemas
    BY DEF Schemas
  <1>2. ASSUME NEW v \in TradeWarsEntries
        PROVE  Headed(TradeWarsEntryDocument(v), "arccade-trade-wars-entry", TradeWarsEntryFields(v), <<>>)
    <2>1. TradeWarsEntryDocument(v) = CanonDocument(Spell("arccade-trade-wars-entry"), 1, TradeWarsEntryFields(v))
      BY DEF TradeWarsEntryDocument, TradeWarsEntryFields, AllocationList, PriceList
    <2> QED
      BY <1>1, <2>1, TradeWarsEntryFieldsType, HeadedIs
  <1>3. ASSUME NEW v \in TradeWarsOutcomes
        PROVE  Headed(TradeWarsOutcomeDocument(v), "arccade-trade-wars-outcome", TradeWarsOutcomeFields(v), <<>>)
    <2>1. TradeWarsOutcomeDocument(v) = CanonDocument(Spell("arccade-trade-wars-outcome"), 1, TradeWarsOutcomeFields(v))
      BY DEF TradeWarsOutcomeDocument, TradeWarsOutcomeFields, PriceList
    <2> QED
      BY <1>1, <2>1, TradeWarsOutcomeFieldsType, HeadedIs
  <1>4. ASSUME NEW v \in PixelRaceEntries
        PROVE  Headed(PixelRaceEntryDocument(v), "arccade-pixel-race-entry", PixelRaceEntryFields(v), <<>>)
    <2>1. PixelRaceEntryDocument(v) = CanonDocument(Spell("arccade-pixel-race-entry"), 1, PixelRaceEntryFields(v))
      BY DEF PixelRaceEntryDocument, PixelRaceEntryFields
    <2> QED
      BY <1>1, <2>1, PixelRaceEntryFieldsType, HeadedIs
  <1>5. ASSUME NEW v \in PixelRaceOutcomes
        PROVE  Headed(PixelRaceOutcomeDocument(v), "arccade-pixel-race-outcome", PixelRaceOutcomeFields(v), <<>>)
    <2>1. PixelRaceOutcomeDocument(v) = CanonDocument(Spell("arccade-pixel-race-outcome"), 1, PixelRaceOutcomeFields(v))
      BY DEF PixelRaceOutcomeDocument, PixelRaceOutcomeFields, PlayList
    <2> QED
      BY <1>1, <2>1, PixelRaceOutcomeFieldsType, HeadedIs
  <1>6. ASSUME NEW v \in Policies
        PROVE  Headed(PolicyDocument(v), "arccade-venue-policy", PolicyFields(v), <<>>)
    <2>1. PolicyDocument(v) = CanonDocument(Spell("arccade-venue-policy"), 1, PolicyFields(v))
      BY DEF PolicyDocument, PolicyFields
    <2> QED
      BY <1>1, <2>1, PolicyFieldsType, HeadedIs
  <1>7. ASSUME NEW v \in AuditRows
        PROVE  Headed(PeriodLeafDocument(v), "arccade.cycle-audit-row", RowFields(v), <<>>)
    <2>1. PeriodLeafDocument(v) = CanonDocument(Spell("arccade.cycle-audit-row"), 1, RowFields(v))
      BY DEF PeriodLeafDocument, RowFields
    <2> QED
      BY <1>1, <2>1, RowFieldsType, HeadedIs
  <1>8. ASSUME NEW v \in PeriodAnchors
        PROVE  Headed(AnchorDocument(v), "arccade.period-anchor", AnchorFields(v), <<>>)
    <2>1. AnchorDocument(v) = CanonDocument(Spell("arccade.period-anchor"), 1, AnchorFields(v))
      BY DEF AnchorDocument, AnchorFields
    <2> QED
      BY <1>1, <2>1, AnchorFieldsType, HeadedIs
  <1> QED
    BY <1>2, <1>3, <1>4, <1>5, <1>6, <1>7, <1>8

AssetDocument(id, a) == CanonDocument(Spell("arccade-asset-attributes"), 1, AssetFields(id, a))

LEMMA AssetIs ==
  ASSUME NEW id, NEW a, id \in Texts, IsAccepted(a)
  PROVE  /\ AssetAttributeDocument(id, a) = AssetDocument(id, a)
         /\ Headed(AssetAttributeDocument(id, a), "arccade-asset-attributes", AssetFields(id, a), <<>>)
         /\ AssetFields(id, a) \in Seq(FieldPairs) /\ AssetDocument(id, a) \in Texts
  <1>1. AssetAttributeDocument(id, a) = AssetDocument(id, a)
    BY DEF AssetAttributeDocument, AssetDocument, AssetFields
  <1>2. "arccade-asset-attributes" \in Schemas
    BY DEF Schemas
  <1>3. AssetFields(id, a) \in Seq(FieldPairs)
    BY AssetFieldsAre
  <1>4. Headed(AssetDocument(id, a), "arccade-asset-attributes", AssetFields(id, a), <<>>)
    BY <1>2, <1>3, HeadedIs DEF AssetDocument
  <1>5. Spell("arccade-asset-attributes") \in Texts
    BY <1>2, WordsAssumption
  <1> QED
    BY <1>1, <1>3, <1>4, <1>5, DocumentIs DEF AssetDocument

LEMMA InstanceIs ==
  ASSUME NEW t, NEW l, NEW a, NEW salt, t \in Texts, l \in Texts, salt \in Texts, IsAccepted(a)
  PROVE  LET id == Cat(t, Cat(One("/"), l))
         IN  /\ Headed(DeriveInstanceId(t, l, a, salt), "arccade-asset-attributes", AssetFields(id, a),
                       Cat(One("|"), salt))
             /\ id \in Texts
  <1> DEFINE o == One("/")
             p == One("|")
             id == Cat(t, Cat(o, l))
  <1>1. o \in Texts /\ p \in Texts
    BY SeparatorTexts
  <1>2. DeriveInstanceId(t, l, a, salt) = Cat(Cat(AssetAttributeDocument(Cat(Cat(t, o), l), a), p), salt)
    BY DEF DeriveInstanceId, Cat, One
  <1> HIDE DEF o, p
  <1>3. Cat(o, l) \in Texts
    BY <1>1, CatType
  <1>4. id \in Texts
    BY <1>3, CatType
  <1>5. Cat(Cat(t, o), l) = id
    BY <1>1, CatAssoc
  <1> HIDE DEF id
  <1>6. AssetAttributeDocument(id, a) = AssetDocument(id, a) /\ AssetFields(id, a) \in Seq(FieldPairs)
        /\ AssetDocument(id, a) \in Texts
    BY <1>4, AssetIs
  <1> DEFINE d == AssetDocument(id, a)
  <1>7. DeriveInstanceId(t, l, a, salt) = Cat(Cat(d, p), salt) /\ d \in Texts
    BY <1>2, <1>5, <1>6
  <1> HIDE DEF d
  <1>8. Cat(Cat(d, p), salt) = Cat(d, Cat(p, salt)) /\ Cat(p, salt) \in Texts
    BY <1>1, <1>7, CatAssoc, CatType
  <1>9. DeriveInstanceId(t, l, a, salt) = Cat(d, Cat(p, salt))
    BY <1>7, <1>8
  <1>10. "arccade-asset-attributes" \in Schemas
    BY DEF Schemas
  <1>11. d = CanonDocument(Spell("arccade-asset-attributes"), 1, AssetFields(id, a))
    BY DEF d, AssetDocument
  <1>12. Headed(DeriveInstanceId(t, l, a, salt), "arccade-asset-attributes", AssetFields(id, a), Cat(p, salt))
    BY <1>6, <1>8, <1>9, <1>10, <1>11 DEF Headed
  <1> QED
    BY <1>4, <1>12 DEF id, o, p

-----------------------------------------------------------------------------
(* Documents of parts with a separator between them. *)

LEMMA SeparatorsAre ==
  /\ ":" \in Characters /\ "|" \in Characters /\ "=" \in Characters /\ "/" \in Characters /\ ">" \in Characters
  /\ One(":") \in Texts /\ One("|") \in Texts /\ One("=") \in Texts /\ One("/") \in Texts /\ One(">") \in Texts
  BY SeparatorTexts

AmountText(n, admin, id) == Cat(One(":"), Cat(Numeral(n), Cat(One(":"), Cat(admin, Cat(One("/"), id)))))

LEMMA AmountIs ==
  ASSUME NEW n, NEW admin, NEW id, n \in Int, admin \in Texts, id \in Texts
  PROVE  /\ Amount(n, admin, id) = AmountText(n, admin, id) /\ AmountText(n, admin, id) \in Texts
         /\ Numeral(n) \in Texts /\ Cat(One("/"), id) \in Texts /\ Cat(admin, Cat(One("/"), id)) \in Texts
         /\ Cat(One(":"), Cat(admin, Cat(One("/"), id))) \in Texts
         /\ Cat(Numeral(n), Cat(One(":"), Cat(admin, Cat(One("/"), id)))) \in Texts
  <1> DEFINE c == One(":")
             o == One("/")
             m == Numeral(n)
             x == Cat(admin, Cat(o, id))
  <1>1. c \in Texts /\ o \in Texts /\ m \in Texts
    BY SeparatorsAre, NumeralType
  <1>2. Amount(n, admin, id) = Cat(Cat(Cat(Cat(Cat(c, m), c), admin), o), id)
    BY DEF Amount, Cat, One
  <1>3. AmountText(n, admin, id) = Cat(c, Cat(m, Cat(c, x)))
    BY DEF AmountText
  <1> HIDE DEF c, o, m
  <1>4. Cat(c, m) \in Texts
    BY <1>1, CatType
  <1>5. Cat(Cat(c, m), c) \in Texts /\ Cat(o, id) \in Texts
    BY <1>1, <1>4, CatType
  <1>6. Cat(Cat(Cat(Cat(c, m), c), admin), o) \in Texts /\ x \in Texts
    <2>1. Cat(Cat(Cat(c, m), c), admin) \in Texts /\ x \in Texts
      BY <1>5, CatType
    <2> QED
      BY <1>1, <2>1, CatType
  <1>7. Cat(Cat(Cat(Cat(Cat(c, m), c), admin), o), id) = Cat(Cat(Cat(c, m), c), x)
    BY <1>1, <1>5, CatFour
  <1> HIDE DEF x
  <1>8. /\ Cat(Cat(Cat(c, m), c), x) = Cat(c, Cat(m, Cat(c, x))) /\ Cat(c, x) \in Texts
        /\ Cat(m, Cat(c, x)) \in Texts
        /\ Cat(c, Cat(m, Cat(c, x))) \in Texts
    BY <1>1, <1>6, CatFour
  <1>9. Amount(n, admin, id) = Cat(c, Cat(m, Cat(c, x)))
    BY <1>2, <1>7, <1>8
  <1> QED
    BY <1>1, <1>3, <1>5, <1>6, <1>8, <1>9 DEF c, o, m, x

\* A party ends before the third colon.
LEMMA PartyNotLonger ==
  ASSUME NEW p, NEW q, NEW r, NEW s, IsParty(p), IsParty(q), r \in Texts, s \in Texts,
         Cat(p, Cat(One(":"), r)) = Cat(q, s)
  PROVE  Len(q) <= Len(p)
  <1>1. p \in Texts /\ q \in Texts
    BY DEF IsParty
  <1>2. Len(p) \in Nat /\ Len(q) \in Nat
    BY <1>1, CatType
  <1>3. PICK i \in 1..(Len(p) - 1) : \A k \in 1..Len(p) : p[k] = ":" <=> k \in {i, i + 1}
    BY DEF IsParty
  <1>4. PICK j \in 1..(Len(q) - 1) : \A k \in 1..Len(q) : q[k] = ":" <=> k \in {j, j + 1}
    BY DEF IsParty
  <1>5. SUFFICES ASSUME Len(p) < Len(q) PROVE FALSE
    BY <1>2
  <1> DEFINE t == Cat(p, Cat(One(":"), r))
  <1>6. t[Len(p) + 1] = ":"
    BY <1>1, SeparatorsAre, CatAt
  <1>7. Cat(One(":"), r) \in Texts
    BY SeparatorsAre, CatType
  <1>8. \A k \in 1..Len(p) : t[k] = p[k]
    BY <1>1, <1>7, CatLeft
  <1>9. \A k \in 1..Len(q) : t[k] = q[k]
    BY <1>1, CatLeft
  <1> HIDE DEF t
  <1>10. /\ i \in 1..Len(p) /\ i + 1 \in 1..Len(p) /\ i \in 1..Len(q)
         /\ i + 1 \in 1..Len(q) /\ Len(p) + 1 \in 1..Len(q)
         /\ i + 1 <= Len(p)
    BY <1>2, <1>5
  <1>11. q[i] = ":" /\ q[i + 1] = ":" /\ q[Len(p) + 1] = ":"
    BY <1>3, <1>6, <1>8, <1>9, <1>10
  <1>12. i \in {j, j + 1} /\ i + 1 \in {j, j + 1} /\ Len(p) + 1 \in {j, j + 1}
    BY <1>4, <1>10, <1>11
  <1> QED
    BY <1>2, <1>10, <1>12

LEMMA PartyTells ==
  ASSUME NEW p, NEW q, NEW r, NEW s, IsParty(p), IsParty(q), r \in Texts, s \in Texts,
         Cat(p, Cat(One(":"), r)) = Cat(q, Cat(One(":"), s))
  PROVE  p = q /\ r = s
  <1> DEFINE c == One(":")
             x == Cat(c, r)
             y == Cat(c, s)
  <1>1. p \in Texts /\ q \in Texts
    BY DEF IsParty
  <1>2. c \in Texts
    BY SeparatorsAre
  <1>3. x \in Texts /\ y \in Texts
    <2> HIDE DEF c
    <2> QED
      BY <1>2, CatType
  <1>4. Len(q) <= Len(p)
    BY <1>3, PartyNotLonger
  <1>5. Len(p) <= Len(q)
    BY <1>3, PartyNotLonger
  <1>6. Len(p) = Len(q)
    BY <1>1, <1>4, <1>5, CatType
  <1>7. Cat(p, x) = Cat(q, y)
    OBVIOUS
  <1> HIDE DEF x, y
  <1>8. p = q /\ x = y
    BY <1>1, <1>3, <1>6, <1>7, CatParts
  <1>9. r = s
    <2> HIDE DEF c
    <2>1. Cat(c, r) = Cat(c, s)
      BY <1>8 DEF x, y
    <2> QED
      BY <1>2, <2>1, CatCancel
  <1> QED
    BY <1>8, <1>9

\* Who receives how much of what.
LEMMA ReceiptTells ==
  ASSUME NEW p, NEW q, IsParty(p), IsParty(q), NEW m, NEW n, m \in Int, n \in Int,
         NEW a, NEW b, IsParty(a), IsParty(b), NEW v, NEW w, v \in Texts, w \in Texts,
         Cat(p, Amount(m, a, v)) = Cat(q, Amount(n, b, w))
  PROVE  p = q /\ m = n /\ a = b /\ v = w
  <1> DEFINE c == One(":")
             o == One("/")
             x == Cat(a, Cat(o, v))
             y == Cat(b, Cat(o, w))
             f == Cat(Numeral(m), Cat(c, x))
             g == Cat(Numeral(n), Cat(c, y))
  <1>1. a \in Texts /\ ~Includes(a, "/") /\ b \in Texts /\ ~Includes(b, "/")
    BY DEF IsParty
  <1>2. /\ x \in Texts /\ f \in Texts /\ Amount(m, a, v) = Cat(c, f)
        /\ y \in Texts /\ g \in Texts /\ Amount(n, b, w) = Cat(c, g)
    BY <1>1, AmountIs DEF AmountText
  <1>3. Cat(p, Cat(c, f)) = Cat(q, Cat(c, g))
    BY <1>2
  <1>4. /\ Numeral(m) \in Texts /\ ~Includes(Numeral(m), ":")
        /\ Numeral(n) \in Texts /\ ~Includes(Numeral(n), ":")
    BY NumeralType
  <1>5. f = Cat(Numeral(m), Cat(One(":"), x)) /\ g = Cat(Numeral(n), Cat(One(":"), y))
    OBVIOUS
  <1>6. x = Cat(a, Cat(One("/"), v)) /\ y = Cat(b, Cat(One("/"), w))
    OBVIOUS
  <1> HIDE DEF f, g, x, y
  <1>7. p = q /\ f = g
    BY <1>2, <1>3, PartyTells
  <1>8. Numeral(m) = Numeral(n) /\ x = y
    <2> DEFINE i == Numeral(m)
               j == Numeral(n)
    <2>1. /\ i \in Texts /\ ~Includes(i, ":") /\ j \in Texts /\ ~Includes(j, ":") /\ ":" \in Characters
          /\ Cat(i, Cat(One(":"), x)) = Cat(j, Cat(One(":"), y)) /\ x \in Texts /\ y \in Texts
      BY <1>2, <1>4, <1>5, <1>7, SeparatorsAre
    <2> HIDE DEF i, j
    <2>2. i = j /\ x = y
      BY <2>1, CatCut
    <2> QED
      BY <2>2 DEF i, j
  <1>9. m = n
    BY <1>8, NumeralsTell
  <1>10. a = b /\ v = w
    <2>1. "/" \in Characters /\ Cat(a, Cat(One("/"), v)) = Cat(b, Cat(One("/"), w))
      BY <1>6, <1>8, SeparatorsAre
    <2> QED
      BY <1>1, <2>1, CatCut
  <1> QED
    BY <1>7, <1>9, <1>10

LEMMA ReceiptType ==
  ASSUME NEW p, NEW m, NEW a, NEW v, p \in Texts, m \in Int, a \in Texts, v \in Texts
  PROVE  Amount(m, a, v) \in Texts /\ Cat(p, Amount(m, a, v)) \in Texts
  <1> DEFINE z == Amount(m, a, v)
  <1>1. z \in Texts
    BY AmountIs
  <1> HIDE DEF z
  <1>2. Cat(p, z) \in Texts
    BY <1>1, CatType
  <1> QED
    BY <1>1, <1>2 DEF z

LEMMA LegIs ==
  ASSUME NEW l, IsLeg(l)
  PROVE  /\ LegText(l) = Cat(l.sender, Cat(One(">"), Cat(l.receiver, Amount(l.amount, l.admin, l.id))))
         /\ LegText(l) \in Texts
  <1> DEFINE s == l.sender
             r == l.receiver
             g == One(">")
             z == Amount(l.amount, l.admin, l.id)
  <1>1. s \in Texts /\ r \in Texts /\ l.amount \in Int /\ l.admin \in Texts /\ l.id \in Texts
    BY DEF IsLeg
  <1>2. z \in Texts
    BY <1>1, ReceiptType
  <1>3. g \in Texts
    BY SeparatorsAre
  <1>4. LegText(l) = Cat(Cat(Cat(s, g), r), z)
    BY DEF LegText, Cat, One
  <1> HIDE DEF s, r, g, z
  <1>5. Cat(Cat(Cat(s, g), r), z) = Cat(s, Cat(g, Cat(r, z))) /\ Cat(s, Cat(g, Cat(r, z))) \in Texts
    BY <1>1, <1>2, <1>3, CatFour
  <1> QED
    BY <1>4, <1>5 DEF s, r, g, z

LEMMA LegTells ==
  ASSUME NEW l, NEW k, IsLeg(l), IsLeg(k), LegText(l) = LegText(k)
  PROVE  l = k
  <1> DEFINE x == Cat(l.receiver, Amount(l.amount, l.admin, l.id))
             y == Cat(k.receiver, Amount(k.amount, k.admin, k.id))
  <1>1. /\ IsParty(l.sender) /\ IsParty(l.receiver) /\ IsParty(l.admin) /\ l.amount \in Int /\ l.id \in Texts
        /\ IsParty(k.sender) /\ IsParty(k.receiver) /\ IsParty(k.admin) /\ k.amount \in Int /\ k.id \in Texts
    BY DEF IsLeg
  <1>2. /\ l.sender \in Texts /\ ~Includes(l.sender, ">") /\ l.receiver \in Texts /\ l.admin \in Texts
        /\ k.sender \in Texts /\ ~Includes(k.sender, ">") /\ k.receiver \in Texts /\ k.admin \in Texts
    BY <1>1 DEF IsParty
  <1>3. x \in Texts /\ y \in Texts
    BY <1>1, <1>2, ReceiptType
  <1>4. Cat(l.sender, Cat(One(">"), x)) = Cat(k.sender, Cat(One(">"), y)) /\ ">" \in Characters
    BY LegIs, SeparatorsAre
  <1> HIDE DEF x, y
  <1>5. l.sender = k.sender /\ x = y
    <2> DEFINE s == l.sender
               t == k.sender
    <2>1. /\ s \in Texts /\ ~Includes(s, ">") /\ t \in Texts /\ ~Includes(t, ">") /\ ">" \in Characters
          /\ Cat(s, Cat(One(">"), x)) = Cat(t, Cat(One(">"), y))
      BY <1>2, <1>4
    <2> HIDE DEF s, t
    <2>2. s = t /\ x = y
      BY <1>3, <2>1, CatCut
    <2> QED
      BY <2>2 DEF s, t
  <1>6. l.receiver = k.receiver /\ l.amount = k.amount /\ l.admin = k.admin /\ l.id = k.id
    <2>1. Cat(l.receiver, Amount(l.amount, l.admin, l.id)) = Cat(k.receiver, Amount(k.amount, k.admin, k.id))
      BY <1>5 DEF x, y
    <2>2. l.receiver = k.receiver
      BY <1>1, <2>1, ReceiptTells
    <2>3. l.amount = k.amount
      BY <1>1, <2>1, ReceiptTells
    <2>4. l.admin = k.admin
      BY <1>1, <2>1, ReceiptTells
    <2>5. l.id = k.id
      BY <1>1, <2>1, ReceiptTells
    <2> QED
      BY <2>2, <2>3, <2>4, <2>5
  <1> QED
    BY <1>5, <1>6 DEF IsLeg

\* Parts without the separator are told by what they are joined to.
PlainTexts == {x \in Texts : ~Includes(x, "|")}

LEMMA PlainCode == IsCode(EndedTexts(PlainTexts, "|"))
  <1> DEFINE d == One("|")
  <1>1. d \in Texts /\ Len(d) = 1 /\ "|" \in Characters
    BY SeparatorsAre, OneIs
  <1>2. PlainTexts \subseteq Texts
    BY DEF PlainTexts
  <1> HIDE DEF d
  <1>3. ASSUME NEW x \in PlainTexts PROVE Cat(x, d) \in Texts /\ Cat(x, d) # <<>>
    <2>1. Cat(x, d) \in Texts /\ Len(Cat(x, d)) = Len(x) + Len(d) /\ Len(x) \in Nat
      BY <1>1, <1>2, CatType
    <2>2. Len(<<>>) = 0
      BY EmptySeq
    <2>3. Len(Cat(x, d)) # 0
      BY <1>1, <2>1
    <2> QED
      BY <2>1, <2>2, <2>3
  <1>4. ASSUME NEW x \in PlainTexts, NEW y \in PlainTexts, NEW r \in Texts, NEW s \in Texts,
               Cat(Cat(x, d), r) = Cat(Cat(y, d), s)
        PROVE  x = y
    <2>1. Cat(Cat(x, d), r) = Cat(x, Cat(d, r))
      BY <1>1, <1>2, CatAssoc
    <2>2. Cat(Cat(y, d), s) = Cat(y, Cat(d, s))
      BY <1>1, <1>2, CatAssoc
    <2>3. Cat(x, Cat(One("|"), r)) = Cat(y, Cat(One("|"), s))
      BY <1>4, <2>1, <2>2 DEF d
    <2>4. x \in Texts /\ y \in Texts /\ ~Includes(x, "|") /\ ~Includes(y, "|")
      BY DEF PlainTexts
    <2> QED
      BY <1>1, <2>3, <2>4, CatCut
  <1> QED
    BY <1>3, <1>4 DEF IsCode, EndedTexts, d

LEMMA PartsTell ==
  ASSUME NEW a, NEW b, a \in Seq(Texts), b \in Seq(Texts), Len(a) # 0, Len(b) # 0,
         NoSeparator(a), NoSeparator(b), Joined(a, One("|")) = Joined(b, One("|"))
  PROVE  a = b
  <1>1. Len(a) \in Nat /\ DOMAIN a = 1..Len(a) /\ Len(b) \in Nat /\ DOMAIN b = 1..Len(b)
    BY LenProperties
  <1>2. (\A i \in 1..Len(a) : a[i] \in Texts) /\ (\A i \in 1..Len(b) : b[i] \in Texts)
    BY ElementOfSeq
  <1>3. (\A i \in 1..Len(a) : a[i] \in PlainTexts) /\ (\A i \in 1..Len(b) : b[i] \in PlainTexts)
    BY <1>1, <1>2 DEF NoSeparator, PlainTexts
  <1>4. "|" \in Characters /\ PlainTexts \subseteq Texts
    BY SeparatorsAre DEF PlainTexts
  <1>5. Len(a) = Len(b) /\ \A i \in 1..Len(a) : a[i] = b[i]
    <2> DEFINE C == PlainTexts
               c == "|"
    <2>1. c \in Characters /\ IsCode(EndedTexts(C, c)) /\ C \subseteq Texts
      BY <1>4, PlainCode
    <2>2. (\A i \in 1..Len(a) : a[i] \in C) /\ (\A i \in 1..Len(b) : b[i] \in C)
      BY <1>3
    <2>3. Joined(a, One(c)) = Joined(b, One(c))
      OBVIOUS
    <2> HIDE DEF C, c
    <2>4. Len(a) \in Nat /\ Len(b) \in Nat /\ Len(a) # 0 /\ Len(b) # 0
      BY <1>1
    <2>5. Len(a) = Len(b)
      BY <2>1, <2>2, <2>3, <2>4, JoinedTells
    <2>6. \A i \in 1..Len(a) : a[i] = b[i]
      BY <2>1, <2>2, <2>3, <2>4, JoinedTells
    <2> QED
      BY <2>5, <2>6
  <1> QED
    BY <1>5, SeqEqual

LEMMA PartsType ==
  ASSUME NEW a, a \in Seq(Texts), Len(a) # 0
  PROVE  Joined(a, One("|")) \in Texts
  <1>1. Len(a) \in Nat /\ \A i \in 1..Len(a) : a[i] \in Texts
    BY LenProperties, ElementOfSeq
  <1> QED
    BY <1>1, SeparatorsAre, JoinedEnded

\* One list after another.
LEMMA AppendedIs ==
  ASSUME NEW a, NEW b, a \in Seq(Texts), b \in Seq(Texts)
  PROVE  /\ Cat(a, b) \in Seq(Texts) /\ Len(Cat(a, b)) = Len(a) + Len(b) /\ Len(a) \in Nat /\ Len(b) \in Nat
         /\ \A i \in 1..Len(a) : Cat(a, b)[i] = a[i]
         /\ \A i \in 1..Len(b) : Cat(a, b)[Len(a) + i] = b[i]
  <1> DEFINE u == Cat(a, b)
  <1>1. Len(a) \in Nat /\ Len(b) \in Nat
    BY LenProperties
  <1>2. /\ u \in Seq(Texts) /\ Len(u) = Len(a) + Len(b)
        /\ \A i \in 1..(Len(a) + Len(b)) : u[i] = IF i <= Len(a) THEN a[i] ELSE b[i - Len(a)]
    BY ConcatProperties, Zenon DEF Cat
  <1> HIDE DEF u
  <1>3. \A i \in 1..Len(a) : u[i] = a[i]
    BY <1>1, <1>2
  <1>4. ASSUME NEW i \in 1..Len(b) PROVE u[Len(a) + i] = b[i]
    <2>1. Len(a) + i \in 1..(Len(a) + Len(b)) /\ ~(Len(a) + i <= Len(a)) /\ (Len(a) + i) - Len(a) = i
      BY <1>1
    <2> QED
      BY <1>2, <2>1
  <1> QED
    BY <1>1, <1>2, <1>3, <1>4 DEF u

\* ------------------------------------------------------------- meta entries
LEMMA MetaPartIs ==
  ASSUME NEW e, e \in Texts \X Texts
  PROVE  /\ MetaPart(e) = Cat(Spell("meta."), Cat(e[1], Cat(One("="), e[2])))
         /\ MetaPart(e) \in Texts /\ Cat(e[1], Cat(One("="), e[2])) \in Texts
  <1> DEFINE m == Spell("meta.")
             a == e[1]
             q == One("=")
             b == e[2]
  <1>1. m \in Texts /\ a \in Texts /\ q \in Texts /\ b \in Texts
    <2>1. m \in Texts
      BY WordsAssumption DEF PartStarts
    <2>2. q \in Texts
      BY SeparatorsAre
    <2> QED
      BY <2>1, <2>2
  <1>2. MetaPart(e) = Cat(Cat(Cat(m, a), q), b)
    BY DEF MetaPart, Cat, One
  <1> HIDE DEF m, a, q, b
  <1>3. /\ Cat(Cat(Cat(m, a), q), b) = Cat(m, Cat(a, Cat(q, b))) /\ Cat(m, Cat(a, Cat(q, b))) \in Texts
        /\ Cat(a, Cat(q, b)) \in Texts
    BY <1>1, CatFour
  <1> QED
    BY <1>2, <1>3 DEF m, a, q, b

MetaParts(meta) == Each(MetaPart, meta)

LEMMA MetaPartsAre ==
  ASSUME NEW meta, IsMeta(meta)
  PROVE  /\ MetaParts(meta) \in Seq(Texts) /\ Len(MetaParts(meta)) = Len(meta) /\ Len(meta) \in Nat
         /\ \A i \in 1..Len(meta) : MetaParts(meta)[i] = MetaPart(meta[i]) /\ meta[i] \in Texts \X Texts
  <1> DEFINE g == MetaParts(meta)
             n == Len(meta)
  <1>1. meta \in Seq(Texts \X Texts)
    BY DEF IsMeta
  <1>2. n \in Nat /\ DOMAIN meta = 1..n /\ \A i \in 1..n : meta[i] \in Texts \X Texts
    BY <1>1, LenProperties, ElementOfSeq
  <1>4. g = [i \in 1..n |-> MetaPart(meta[i])]
    BY <1>2 DEF MetaParts, Each
  <1>5. \A i \in 1..n : MetaPart(meta[i]) \in Texts
    BY <1>2, MetaPartIs
  <1>6. g = [i \in 1..n |-> g[i]] /\ \A i \in 1..n : g[i] \in Texts /\ g[i] = MetaPart(meta[i])
    BY <1>4, <1>5
  <1> HIDE DEF g
  <1>7. g \in Seq(Texts) /\ Len(g) = n
    BY <1>2, <1>6, SequenceIs
  <1> QED
    BY <1>2, <1>6, <1>7 DEF g

LEMMA MetaPartsTell ==
  ASSUME NEW a, NEW b, IsMeta(a), IsMeta(b), Len(a) = Len(b),
         \A i \in 1..Len(a) : MetaParts(a)[i] = MetaParts(b)[i]
  PROVE  MetaParts(a) = MetaParts(b)
  <1> DEFINE g == MetaParts(a)
             h == MetaParts(b)
  <1>1. g \in Seq(Texts) /\ h \in Seq(Texts) /\ Len(g) = Len(a) /\ Len(h) = Len(b)
    BY MetaPartsAre
  <1>2. Len(g) = Len(h) /\ \A i \in 1..Len(g) : g[i] = h[i]
    BY <1>1
  <1>3. g = [i \in 1..Len(g) |-> g[i]] /\ h = [i \in 1..Len(h) |-> h[i]]
    BY <1>1, ElementOfSeq, LenProperties
  <1> HIDE DEF g, h
  <1>4. g = h
    BY <1>2, <1>3
  <1> QED
    BY <1>4 DEF g, h

\* -------------------------------------------------------------- recipients
LEMMA RecipientPartIs ==
  ASSUME NEW r, IsRecipient(r)
  PROVE  /\ RecipientPart(r) = Cat(Spell("to="), Cat(r.receiver, Amount(r.amount, r.admin, r.id)))
         /\ RecipientPart(r) \in Texts /\ Cat(r.receiver, Amount(r.amount, r.admin, r.id)) \in Texts
  <1> DEFINE m == Spell("to=")
             p == r.receiver
             z == Amount(r.amount, r.admin, r.id)
  <1>1. m \in Texts
    BY WordsAssumption DEF PartStarts
  <1>2. p \in Texts /\ r.amount \in Int /\ r.admin \in Texts /\ r.id \in Texts
    BY DEF IsRecipient
  <1>3. z \in Texts
    BY <1>2, ReceiptType
  <1>4. RecipientPart(r) = Cat(Cat(m, p), z)
    BY DEF RecipientPart, Cat
  <1> HIDE DEF m, p, z
  <1>5. Cat(Cat(m, p), z) = Cat(m, Cat(p, z)) /\ Cat(p, z) \in Texts
    BY <1>1, <1>2, <1>3, CatAssoc, CatType
  <1>6. Cat(m, Cat(p, z)) \in Texts
    BY <1>1, <1>5, CatType
  <1> QED
    BY <1>4, <1>5, <1>6 DEF m, p, z

LEMMA RecipientPartTells ==
  ASSUME NEW r, NEW s, IsRecipient(r), IsRecipient(s), RecipientPart(r) = RecipientPart(s)
  PROVE  r = s
  <1> DEFINE m == Spell("to=")
             x == Cat(r.receiver, Amount(r.amount, r.admin, r.id))
             y == Cat(s.receiver, Amount(s.amount, s.admin, s.id))
  <1>1. Cat(m, x) = Cat(m, y) /\ x \in Texts /\ y \in Texts
    BY RecipientPartIs
  <1>2. m \in Texts
    BY WordsAssumption DEF PartStarts
  <1> HIDE DEF m, x, y
  <1>3. x = y
    BY <1>1, <1>2, CatCancel
  <1>4. Cat(r.receiver, Amount(r.amount, r.admin, r.id)) = Cat(s.receiver, Amount(s.amount, s.admin, s.id))
    BY <1>3 DEF x, y
  <1>5. /\ IsParty(r.receiver) /\ IsParty(r.admin) /\ r.amount \in Int /\ r.id \in Texts
        /\ IsParty(s.receiver) /\ IsParty(s.admin) /\ s.amount \in Int /\ s.id \in Texts
    BY DEF IsRecipient
  <1>6. r.receiver = s.receiver
    BY <1>4, <1>5, ReceiptTells
  <1>7. r.amount = s.amount
    BY <1>4, <1>5, ReceiptTells
  <1>8. r.admin = s.admin
    BY <1>4, <1>5, ReceiptTells
  <1>9. r.id = s.id
    BY <1>4, <1>5, ReceiptTells
  <1> QED
    BY <1>6, <1>7, <1>8, <1>9 DEF IsRecipient

LEMMA PartKindsDiffer ==
  ASSUME NEW r, NEW e, IsRecipient(r), e \in Texts \X Texts
  PROVE  RecipientPart(r) # MetaPart(e)
  <1> DEFINE x == Cat(r.receiver, Amount(r.amount, r.admin, r.id))
             y == Cat(e[1], Cat(One("="), e[2]))
  <1>1. RecipientPart(r) = Cat(Spell("to="), x) /\ x \in Texts
    BY RecipientPartIs
  <1>2. MetaPart(e) = Cat(Spell("meta."), y) /\ y \in Texts
    BY MetaPartIs
  <1>3. /\ "to=" \in PartStarts /\ "meta." \in PartStarts /\ "to=" # "meta."
        /\ Apart(PartStarts) /\ Spell("to=") \in Texts /\ Spell("meta.") \in Texts
    BY WordsAssumption DEF PartStarts
  <1> HIDE DEF x, y
  <1> QED
    BY <1>1, <1>2, <1>3, CatStart

RecipientParts(recipients) == Each(RecipientPart, recipients)
IsRecipients(rs) ==
  /\ rs = [i \in 1..Len(rs) |-> rs[i]] /\ Len(rs) \in Nat /\ \A i \in 1..Len(rs) : IsRecipient(rs[i])

LEMMA RecipientPartsAre ==
  ASSUME NEW rs, IsRecipients(rs)
  PROVE  /\ RecipientParts(rs) \in Seq(Texts) /\ Len(RecipientParts(rs)) = Len(rs)
         /\ \A i \in 1..Len(rs) : RecipientParts(rs)[i] = RecipientPart(rs[i])
  <1> DEFINE g == RecipientParts(rs)
             n == Len(rs)
  <1>1. n \in Nat /\ \A i \in 1..n : IsRecipient(rs[i])
    BY DEF IsRecipients
  <1>2. DOMAIN rs = 1..n
    <2> DEFINE f == [i \in 1..n |-> rs[i]]
    <2>1. DOMAIN f = 1..n
      OBVIOUS
    <2>2. rs = f
      BY DEF IsRecipients
    <2> HIDE DEF f, n
    <2> QED
      BY <2>1, <2>2
  <1>3. g = [i \in 1..n |-> RecipientPart(rs[i])]
    BY <1>2 DEF RecipientParts, Each
  <1>4. \A i \in 1..n : RecipientPart(rs[i]) \in Texts
    BY <1>1, RecipientPartIs
  <1>5. g = [i \in 1..n |-> g[i]] /\ \A i \in 1..n : g[i] \in Texts /\ g[i] = RecipientPart(rs[i])
    BY <1>3, <1>4
  <1> HIDE DEF g
  <1>6. g \in Seq(Texts) /\ Len(g) = n
    BY <1>1, <1>5, SequenceIs
  <1> QED
    BY <1>5, <1>6 DEF g

LEMMA RecipientPartsTell ==
  ASSUME NEW a, NEW b, IsRecipients(a), IsRecipients(b), Len(a) = Len(b),
         \A i \in 1..Len(a) : RecipientParts(a)[i] = RecipientParts(b)[i]
  PROVE  a = b
  <1>1. ASSUME NEW i \in 1..Len(a) PROVE a[i] = b[i]
    <2>1. i \in 1..Len(b)
      OBVIOUS
    <2>2. RecipientPart(a[i]) = RecipientPart(b[i]) /\ IsRecipient(a[i]) /\ IsRecipient(b[i])
      BY <2>1, RecipientPartsAre DEF IsRecipients
    <2> QED
      BY <2>2, RecipientPartTells
  <1>2. a = [i \in 1..Len(a) |-> a[i]] /\ b = [i \in 1..Len(b) |-> b[i]]
    BY DEF IsRecipients
  <1> QED
    BY <1>1, <1>2

\* ------------------------------------------------------- values as joined
LEMMA TradeAsJoined ==
  ASSUME NEW t, IsTrade(t)
  PROVE  AsJoined(t) = [ kind |-> "trade", tradeId |-> t.tradeId, maker |-> t.maker, taker |-> OrEmpty(t.taker),
                         expiresAt |-> t.expiresAt, ask |-> t.ask, offer |-> t.offer,
                         meta |-> MetaParts(t.meta) ]
  <1>1. /\ t = [ kind |-> "trade", tradeId |-> t.tradeId, maker |-> t.maker, taker |-> t.taker,
                 expiresAt |-> t.expiresAt, ask |-> t.ask, offer |-> t.offer, meta |-> t.meta ]
        /\ t.kind = "trade"
    BY DEF IsTrade
  <1>2. AsJoined(t) = [t EXCEPT !.taker = OrEmpty(@), !.meta = MetaParts(@)]
    BY <1>1 DEF AsJoined, MetaParts
  <1> QED
    BY <1>1, <1>2

LEMMA TransferAsJoined ==
  ASSUME NEW t, IsTransfer(t)
  PROVE  AsJoined(t) = [ kind |-> "transfer", transferId |-> t.transferId, sender |-> t.sender,
                         reason |-> t.reason, meta |-> MetaParts(t.meta), recipients |-> t.recipients ]
  <1>1. /\ t = [ kind |-> "transfer", transferId |-> t.transferId, sender |-> t.sender,
                 reason |-> t.reason, meta |-> t.meta, recipients |-> t.recipients ]
        /\ t.kind = "transfer"
    BY DEF IsTransfer
  <1>2. AsJoined(t) = [t EXCEPT !.meta = MetaParts(@)]
    BY <1>1 DEF AsJoined, MetaParts
  <1> QED
    BY <1>1, <1>2

JoinedId(v) == Cat(Cat(v.tenantId, One("/")), v.localId)

LEMMA InstanceAsJoined ==
  ASSUME NEW v, IsInstance(v)
  PROVE  AsJoined(v) = [ kind |-> "instance", tenantId |-> JoinedId(v), localId |-> <<>>,
                         attributes |-> v.attributes, salt |-> v.salt ]
  <1>1. /\ v = [ kind |-> "instance", tenantId |-> v.tenantId, localId |-> v.localId,
                 attributes |-> v.attributes, salt |-> v.salt ]
        /\ v.kind = "instance"
    BY DEF IsInstance
  <1>2. AsJoined(v) = [v EXCEPT !.tenantId = @ \o <<"/">> \o v.localId, !.localId = <<>>]
    BY <1>1, Zenon DEF AsJoined
  <1>3. v.tenantId \o <<"/">> \o v.localId = JoinedId(v)
    BY Zenon DEF JoinedId, Cat, One
  <1> DEFINE e == <<>>
             j == JoinedId(v)
             u == [v EXCEPT !.tenantId = j]
  <1>4. AsJoined(v) = [u EXCEPT !.localId = e]
    BY <1>1, <1>2, <1>3
  <1> HIDE DEF e, j
  <1>5. u = [ kind |-> "instance", tenantId |-> j, localId |-> v.localId, attributes |-> v.attributes,
              salt |-> v.salt ]
    BY <1>1
  <1> HIDE DEF u
  <1>6. [u EXCEPT !.localId = e]
          = [ kind |-> "instance", tenantId |-> j, localId |-> e, attributes |-> v.attributes, salt |-> v.salt ]
    BY <1>5
  <1> QED
    BY <1>4, <1>6 DEF e, j

LEMMA InstanceJoinedTells ==
  ASSUME NEW v, NEW w, IsInstance(v), IsInstance(w), AsJoined(v) = AsJoined(w)
  PROVE  JoinedId(v) = JoinedId(w) /\ v.attributes = w.attributes /\ v.salt = w.salt
  <1> DEFINE e == <<>>
             x == AsJoined(v)
             y == AsJoined(w)
             i == JoinedId(v)
             j == JoinedId(w)
             a == v.attributes
             b == w.attributes
             s == v.salt
             t == w.salt
  <1>1. /\ x = [kind |-> "instance", tenantId |-> i, localId |-> e, attributes |-> a, salt |-> s]
        /\ y = [kind |-> "instance", tenantId |-> j, localId |-> e, attributes |-> b, salt |-> t]
    BY InstanceAsJoined
  <1>2. x = y
    OBVIOUS
  <1> HIDE DEF e, x, y, i, j, a, b, s, t
  <1>3. x.tenantId = i /\ x.attributes = a /\ x.salt = s
    BY <1>1
  <1>4. y.tenantId = j /\ y.attributes = b /\ y.salt = t
    BY <1>1
  <1>5. i = j /\ a = b /\ s = t
    BY <1>2, <1>3, <1>4
  <1> QED
    BY <1>5 DEF i, j, a, b, s, t

LEMMA OthersAsJoined ==
  ASSUME NEW v, v.kind \notin {"trade", "transfer", "instance"}
  PROVE  AsJoined(v) = v
  BY DEF AsJoined

\* ------------------------------------------------------------------ trades
LEMMA LabelTexts ==
  \A w \in Labels : Spell(w) \in Texts
  BY WordsAssumption

LEMMA LabelsAre ==
  { "tradeId=", "maker=", "taker=", "expiresAt=", "leg.ask=", "leg.offer=", "transferId=", "sender=", "reason=" }
    \subseteq Labels
  BY DEF Labels

LEMMA OrEmptyType ==
  ASSUME NEW a, IsOptional(a)
  PROVE  OrEmpty(a) \in Texts
  <1> DEFINE e == <<>>
  <1>1. e \in Texts
    BY EmptySeq DEF Texts
  <1>2. a \subseteq Texts
    BY DEF IsOptional
  <1>3. OrEmpty(a) = IF a = {} THEN e ELSE CHOOSE s \in a : TRUE
    BY DEF OrEmpty
  <1> HIDE DEF e
  <1> QED
    BY <1>1, <1>2, <1>3

\* None or one text, and that not empty.
IsEncoded(texts) == texts \subseteq Texts \ {<<>>} /\ \A s, t \in texts : s = t

LEMMA OrEmptyIs ==
  ASSUME NEW a, IsEncoded(a)
  PROVE  OrEmpty(a) \in Texts /\ (a = {} <=> OrEmpty(a) = <<>>) /\ (a # {} => a = {OrEmpty(a)})
  <1> DEFINE e == <<>>
  <1>1. e \in Texts
    BY EmptySeq DEF Texts
  <1>2. a \subseteq Texts \ {e} /\ \A s, t \in a : s = t
    BY DEF IsEncoded
  <1>3. OrEmpty(a) = IF a = {} THEN e ELSE CHOOSE s \in a : TRUE
    BY DEF OrEmpty
  <1> HIDE DEF e
  <1>4. a # {} => OrEmpty(a) \in a
    BY <1>3
  <1>5. OrEmpty(a) \in Texts /\ (a = {} <=> OrEmpty(a) = e) /\ (a # {} => a = {OrEmpty(a)})
    BY <1>1, <1>2, <1>3, <1>4
  <1> QED
    BY <1>5 DEF e

LEMMA OrEmptyTells ==
  ASSUME NEW a, NEW b, IsEncoded(a), IsEncoded(b), OrEmpty(a) = OrEmpty(b)
  PROVE  a = b
  <1> DEFINE e == <<>>
             x == OrEmpty(a)
             y == OrEmpty(b)
  <1>1. (a = {} <=> x = e) /\ (a # {} => a = {x}) /\ (b = {} <=> y = e) /\ (b # {} => b = {y})
    BY OrEmptyIs
  <1>2. x = y
    OBVIOUS
  <1> HIDE DEF e, x, y
  <1> QED
    BY <1>1, <1>2

TradeHead(t) ==
  << Cat(Spell("tradeId="), t.tradeId), Cat(Spell("maker="), t.maker), Cat(Spell("taker="), OrEmpty(t.taker)),
     Cat(Spell("expiresAt="), t.expiresAt), Cat(Spell("leg.ask="), LegText(t.ask)),
     Cat(Spell("leg.offer="), LegText(t.offer)) >>

LEMMA SixOf ==
  ASSUME NEW S, NEW a \in S, NEW b \in S, NEW c \in S, NEW d \in S, NEW e \in S, NEW f \in S
  PROVE  <<a, b, c, d, e, f>> \in Seq(S) /\ Len(<<a, b, c, d, e, f>>) = 6
  OBVIOUS

LEMMA ThreeOf ==
  ASSUME NEW S, NEW a \in S, NEW b \in S, NEW c \in S
  PROVE  <<a, b, c>> \in Seq(S) /\ Len(<<a, b, c>>) = 3
  OBVIOUS

LEMMA LabelledType ==
  ASSUME NEW w \in Labels, NEW v, v \in Texts
  PROVE  Cat(Spell(w), v) \in Texts
  <1>1. Spell(w) \in Texts
    BY LabelTexts
  <1> QED
    BY <1>1, CatType

LEMMA LabelledTells ==
  ASSUME NEW w \in Labels, NEW v, NEW u, v \in Texts, u \in Texts, Cat(Spell(w), v) = Cat(Spell(w), u)
  PROVE  v = u
  <1>1. Spell(w) \in Texts
    BY LabelTexts
  <1> QED
    BY <1>1, CatCancel

LEMMA TradeHeadIs ==
  ASSUME NEW t, IsTrade(t)
  PROVE  /\ TradeHead(t) \in Seq(Texts) /\ Len(TradeHead(t)) = 6
         /\ t.tradeId \in Texts /\ t.maker \in Texts /\ OrEmpty(t.taker) \in Texts /\ t.expiresAt \in Texts
         /\ LegText(t.ask) \in Texts /\ LegText(t.offer) \in Texts
  <1>1. t.tradeId \in Texts /\ t.maker \in Texts /\ t.expiresAt \in Texts
    BY DEF IsTrade
  <1>2. OrEmpty(t.taker) \in Texts
    BY OrEmptyType DEF IsTrade
  <1>3. LegText(t.ask) \in Texts /\ LegText(t.offer) \in Texts
    BY LegIs DEF IsTrade
  <1> DEFINE a == Cat(Spell("tradeId="), t.tradeId)
             b == Cat(Spell("maker="), t.maker)
             c == Cat(Spell("taker="), OrEmpty(t.taker))
             d == Cat(Spell("expiresAt="), t.expiresAt)
             e == Cat(Spell("leg.ask="), LegText(t.ask))
             f == Cat(Spell("leg.offer="), LegText(t.offer))
  <1>4. a \in Texts /\ b \in Texts /\ c \in Texts /\ d \in Texts /\ e \in Texts /\ f \in Texts
    BY <1>1, <1>2, <1>3, LabelsAre, LabelledType
  <1>5. TradeHead(t) = <<a, b, c, d, e, f>>
    BY DEF TradeHead
  <1> HIDE DEF a, b, c, d, e, f
  <1>6. <<a, b, c, d, e, f>> \in Seq(Texts) /\ Len(<<a, b, c, d, e, f>>) = 6
    BY <1>4, SixOf, Zenon
  <1> QED
    BY <1>1, <1>2, <1>3, <1>5, <1>6

LEMMA TradePartsAre ==
  ASSUME NEW t, IsTrade(t)
  PROVE  /\ TradeParts(t) \in Seq(Texts) /\ Len(TradeParts(t)) = 6 + Len(t.meta) /\ Len(t.meta) \in Nat
         /\ \A i \in 1..6 : TradeParts(t)[i] = TradeHead(t)[i]
         /\ \A i \in 1..Len(t.meta) : TradeParts(t)[6 + i] = MetaParts(t.meta)[i]
  <1> DEFINE h == TradeHead(t)
             m == MetaParts(t.meta)
             p == TradeParts(t)
  <1>1. h \in Seq(Texts) /\ Len(h) = 6
    BY TradeHeadIs
  <1>2. m \in Seq(Texts) /\ Len(m) = Len(t.meta) /\ Len(t.meta) \in Nat
    BY MetaPartsAre DEF IsTrade
  <1>3. p = Cat(h, m)
    BY DEF TradeParts, TradeHead, MetaParts, Cat
  <1> HIDE DEF h, m, p
  <1>4. /\ p \in Seq(Texts) /\ Len(p) = Len(h) + Len(m)
        /\ \A i \in 1..Len(h) : p[i] = h[i]
        /\ \A i \in 1..Len(m) : p[Len(h) + i] = m[i]
    <2>1. h \in Seq(Texts) /\ m \in Seq(Texts) /\ p = Cat(h, m)
      BY <1>1, <1>2, <1>3
    <2>2. p \in Seq(Texts) /\ Len(p) = Len(h) + Len(m)
      BY <2>1, AppendedIs
    <2>3. \A i \in 1..Len(h) : p[i] = h[i]
      BY <2>1, AppendedIs
    <2>4. \A i \in 1..Len(m) : p[Len(h) + i] = m[i]
      BY <2>1, AppendedIs
    <2> QED
      BY <2>2, <2>3, <2>4
  <1>5. Len(p) = 6 + Len(t.meta) /\ (\A i \in 1..6 : p[i] = h[i])
        /\ \A i \in 1..Len(t.meta) : p[6 + i] = m[i]
    BY <1>1, <1>2, <1>4
  <1> QED
    BY <1>2, <1>4, <1>5 DEF h, m, p

LEMMA TradeDocumentIs ==
  ASSUME NEW t, IsTrade(t)
  PROVE  /\ TradeDocument(t) = Cat(Spell("arccade-game-sdk:trade:1:"), Joined(TradeParts(t), One("|")))
         /\ Joined(TradeParts(t), One("|")) \in Texts
  <1>1. TradeParts(t) \in Seq(Texts) /\ Len(TradeParts(t)) # 0
    BY TradePartsAre
  <1>2. Joined(TradeParts(t), One("|")) \in Texts
    BY <1>1, PartsType
  <1> QED
    BY <1>2 DEF TradeDocument, TRADE_TAG_PREFIX, Cat, One

LEMMA TradeTells ==
  ASSUME NEW v, NEW w, IsTrade(v), IsTrade(w), NoSeparator(TradeParts(v)), NoSeparator(TradeParts(w)),
         TradeDocument(v) = TradeDocument(w)
  PROVE  AsJoined(v) = AsJoined(w)
  <1> DEFINE p == TradeParts(v)
             q == TradeParts(w)
             x == Spell("arccade-game-sdk:trade:1:")
  <1>1. p \in Seq(Texts) /\ q \in Seq(Texts) /\ Len(p) # 0 /\ Len(q) # 0
    BY TradePartsAre
  <1>2. Cat(x, Joined(p, One("|"))) = Cat(x, Joined(q, One("|")))
    BY TradeDocumentIs
  <1>3. x \in Texts /\ Joined(p, One("|")) \in Texts /\ Joined(q, One("|")) \in Texts
    BY TradeDocumentIs, WordsAssumption DEF Starts
  <1>4. NoSeparator(p) /\ NoSeparator(q)
    OBVIOUS
  <1> HIDE DEF p, q, x
  <1>5. p = q
    <2> DEFINE j == Joined(p, One("|"))
               k == Joined(q, One("|"))
    <2>1. Cat(x, j) = Cat(x, k) /\ j \in Texts /\ k \in Texts
      BY <1>2, <1>3
    <2> HIDE DEF j, k
    <2>2. j = k
      BY <1>3, <2>1, CatCancel
    <2> QED
      BY <1>1, <1>4, <2>2, PartsTell DEF j, k
  <1>6. /\ Len(p) = 6 + Len(v.meta) /\ Len(q) = 6 + Len(w.meta) /\ Len(v.meta) \in Nat /\ Len(w.meta) \in Nat
        /\ \A i \in 1..6 : p[i] = TradeHead(v)[i] /\ q[i] = TradeHead(w)[i]
        /\ \A i \in 1..Len(v.meta) : p[6 + i] = MetaParts(v.meta)[i]
        /\ \A i \in 1..Len(w.meta) : q[6 + i] = MetaParts(w.meta)[i]
    BY TradePartsAre DEF p, q
  <1>7. MetaParts(v.meta) = MetaParts(w.meta)
    <2>1. Len(v.meta) = Len(w.meta)
      BY <1>5, <1>6
    <2>2. \A i \in 1..Len(v.meta) : MetaParts(v.meta)[i] = MetaParts(w.meta)[i]
      BY <1>5, <1>6, <2>1
    <2> QED
      BY <2>1, <2>2, MetaPartsTell DEF IsTrade
  <1>8. \A i \in 1..6 : TradeHead(v)[i] = TradeHead(w)[i]
    BY <1>5, <1>6
  <1>9. /\ Cat(Spell("tradeId="), v.tradeId) = Cat(Spell("tradeId="), w.tradeId)
        /\ Cat(Spell("maker="), v.maker) = Cat(Spell("maker="), w.maker)
        /\ Cat(Spell("taker="), OrEmpty(v.taker)) = Cat(Spell("taker="), OrEmpty(w.taker))
        /\ Cat(Spell("expiresAt="), v.expiresAt) = Cat(Spell("expiresAt="), w.expiresAt)
        /\ Cat(Spell("leg.ask="), LegText(v.ask)) = Cat(Spell("leg.ask="), LegText(w.ask))
        /\ Cat(Spell("leg.offer="), LegText(v.offer)) = Cat(Spell("leg.offer="), LegText(w.offer))
    <2>1. /\ TradeHead(v)[1] = TradeHead(w)[1] /\ TradeHead(v)[2] = TradeHead(w)[2]
          /\ TradeHead(v)[3] = TradeHead(w)[3] /\ TradeHead(v)[4] = TradeHead(w)[4]
          /\ TradeHead(v)[5] = TradeHead(w)[5] /\ TradeHead(v)[6] = TradeHead(w)[6]
      BY <1>8
    <2> QED
      BY <2>1 DEF TradeHead
  <1>10. v.tradeId = w.tradeId
    BY <1>9, TradeHeadIs, LabelsAre, LabelledTells
  <1>11. v.maker = w.maker
    BY <1>9, TradeHeadIs, LabelsAre, LabelledTells
  <1>12. OrEmpty(v.taker) = OrEmpty(w.taker)
    BY <1>9, TradeHeadIs, LabelsAre, LabelledTells
  <1>13. v.expiresAt = w.expiresAt
    BY <1>9, TradeHeadIs, LabelsAre, LabelledTells
  <1>14. v.ask = w.ask
    <2>1. LegText(v.ask) = LegText(w.ask)
      BY <1>9, TradeHeadIs, LabelsAre, LabelledTells
    <2> QED
      BY <2>1, LegTells DEF IsTrade
  <1>15. v.offer = w.offer
    <2>1. LegText(v.offer) = LegText(w.offer)
      BY <1>9, TradeHeadIs, LabelsAre, LabelledTells
    <2> QED
      BY <2>1, LegTells DEF IsTrade
  <1> QED
    BY <1>7, <1>10, <1>11, <1>12, <1>13, <1>14, <1>15, TradeAsJoined

\* --------------------------------------------------------------- transfers
TransferHead(t) ==
  << Cat(Spell("transferId="), t.transferId), Cat(Spell("sender="), t.sender), Cat(Spell("reason="), t.reason) >>

LEMMA TransferHeadIs ==
  ASSUME NEW t, IsTransfer(t)
  PROVE  /\ TransferHead(t) \in Seq(Texts) /\ Len(TransferHead(t)) = 3
         /\ t.transferId \in Texts /\ t.sender \in Texts /\ t.reason \in Texts
         /\ IsRecipients(t.recipients) /\ IsMeta(t.meta)
  <1>1. t.transferId \in Texts /\ t.sender \in Texts /\ t.reason \in Texts
    BY DEF IsTransfer
  <1>2. IsRecipients(t.recipients) /\ IsMeta(t.meta)
    BY DEF IsTransfer, IsRecipients
  <1> DEFINE a == Cat(Spell("transferId="), t.transferId)
             b == Cat(Spell("sender="), t.sender)
             c == Cat(Spell("reason="), t.reason)
  <1>4. a \in Texts /\ b \in Texts /\ c \in Texts
    BY <1>1, LabelsAre, LabelledType
  <1>5. TransferHead(t) = <<a, b, c>>
    BY DEF TransferHead
  <1> HIDE DEF a, b, c
  <1>6. <<a, b, c>> \in Seq(Texts) /\ Len(<<a, b, c>>) = 3
    BY <1>4, ThreeOf, Zenon
  <1> QED
    BY <1>1, <1>2, <1>5, <1>6

LEMMA TransferPartsAre ==
  ASSUME NEW t, IsTransfer(t)
  PROVE  LET p == TransferParts(t)
             k == Len(t.recipients)
             m == Len(t.meta)
         IN  /\ p \in Seq(Texts) /\ Len(p) = 3 + k + m /\ k \in Nat /\ m \in Nat
             /\ \A i \in 1..3 : p[i] = TransferHead(t)[i]
             /\ \A i \in 1..k : p[3 + i] = RecipientParts(t.recipients)[i]
             /\ \A i \in 1..m : p[3 + k + i] = MetaParts(t.meta)[i]
  <1> DEFINE h == TransferHead(t)
             r == RecipientParts(t.recipients)
             x == MetaParts(t.meta)
             u == Cat(h, r)
             p == TransferParts(t)
             k == Len(t.recipients)
             m == Len(t.meta)
  <1>1. h \in Seq(Texts) /\ Len(h) = 3 /\ IsRecipients(t.recipients) /\ IsMeta(t.meta)
    BY TransferHeadIs
  <1>2. r \in Seq(Texts) /\ Len(r) = k /\ k \in Nat
    BY <1>1, RecipientPartsAre DEF IsRecipients
  <1>3. x \in Seq(Texts) /\ Len(x) = m /\ m \in Nat
    BY <1>1, MetaPartsAre
  <1>4. p = Cat(u, x)
    BY DEF TransferParts, TransferHead, RecipientParts, MetaParts, Cat
  <1>5. u = Cat(h, r)
    OBVIOUS
  <1> HIDE DEF h, r, x, u, p
  <1>6. /\ u \in Seq(Texts) /\ Len(u) = Len(h) + Len(r)
        /\ \A i \in 1..Len(h) : u[i] = h[i]
        /\ \A i \in 1..Len(r) : u[Len(h) + i] = r[i]
    <2>1. h \in Seq(Texts) /\ r \in Seq(Texts) /\ u = Cat(h, r)
      BY <1>1, <1>2, <1>5
    <2>2. u \in Seq(Texts) /\ Len(u) = Len(h) + Len(r)
      BY <2>1, AppendedIs
    <2>3. \A i \in 1..Len(h) : u[i] = h[i]
      BY <2>1, AppendedIs
    <2>4. \A i \in 1..Len(r) : u[Len(h) + i] = r[i]
      BY <2>1, AppendedIs
    <2> QED
      BY <2>2, <2>3, <2>4
  <1>7. /\ p \in Seq(Texts) /\ Len(p) = Len(u) + Len(x)
        /\ \A i \in 1..Len(u) : p[i] = u[i]
        /\ \A i \in 1..Len(x) : p[Len(u) + i] = x[i]
    <2>1. u \in Seq(Texts) /\ x \in Seq(Texts) /\ p = Cat(u, x)
      BY <1>3, <1>4, <1>6
    <2>2. p \in Seq(Texts) /\ Len(p) = Len(u) + Len(x)
      BY <2>1, AppendedIs
    <2>3. \A i \in 1..Len(u) : p[i] = u[i]
      BY <2>1, AppendedIs
    <2>4. \A i \in 1..Len(x) : p[Len(u) + i] = x[i]
      BY <2>1, AppendedIs
    <2> QED
      BY <2>2, <2>3, <2>4
  <1> HIDE DEF k, m
  <1>8. Len(u) = 3 + k
    BY <1>1, <1>2, <1>6
  <1>9. Len(p) = 3 + k + m
    BY <1>3, <1>7, <1>8
  <1>10. \A i \in 1..3 : p[i] = h[i]
    <2> SUFFICES ASSUME NEW i \in 1..3 PROVE p[i] = h[i]
      OBVIOUS
    <2>1. i \in 1..Len(h) /\ i \in 1..Len(u)
      BY <1>1, <1>2, <1>8
    <2> QED
      BY <1>6, <1>7, <2>1
  <1>11. \A i \in 1..k : p[3 + i] = r[i]
    <2> SUFFICES ASSUME NEW i \in 1..k PROVE p[3 + i] = r[i]
      OBVIOUS
    <2>1. i \in 1..Len(r) /\ 3 + i \in 1..Len(u) /\ Len(h) + i = 3 + i
      BY <1>1, <1>2, <1>8
    <2>2. u[Len(h) + i] = r[i]
      BY <1>6, <2>1
    <2> QED
      BY <1>7, <2>1, <2>2
  <1>12. \A i \in 1..m : p[3 + k + i] = x[i]
    BY <1>3, <1>7, <1>8
  <1> QED
    BY <1>2, <1>3, <1>7, <1>9, <1>10, <1>11, <1>12 DEF h, r, x, p, k, m

LEMMA TransferPartsSome ==
  ASSUME NEW t, IsTransfer(t)
  PROVE  TransferParts(t) \in Seq(Texts) /\ Len(TransferParts(t)) # 0
  <1> DEFINE p == TransferParts(t)
             k == Len(t.recipients)
             m == Len(t.meta)
  <1>1. p \in Seq(Texts) /\ Len(p) = 3 + k + m /\ k \in Nat /\ m \in Nat
    BY TransferPartsAre
  <1> HIDE DEF p, k, m
  <1>2. Len(p) # 0
    BY <1>1
  <1> QED
    BY <1>1, <1>2 DEF p

LEMMA TransferDocumentIs ==
  ASSUME NEW t, IsTransfer(t)
  PROVE  /\ TransferDocument(t) = Cat(Spell("arccade-game-sdk:transfer:1:"), Joined(TransferParts(t), One("|")))
         /\ Joined(TransferParts(t), One("|")) \in Texts
  <1>1. TransferParts(t) \in Seq(Texts) /\ Len(TransferParts(t)) # 0
    BY TransferPartsSome
  <1>2. Joined(TransferParts(t), One("|")) \in Texts
    BY <1>1, PartsType
  <1> QED
    BY <1>2 DEF TransferDocument, TRANSFER_TAG_PREFIX, Cat, One

\* As many recipients: where one had more, the other has an entry of its meta.
LEMMA RecipientsNotMore ==
  ASSUME NEW v, NEW w, IsTransfer(v), IsTransfer(w), TransferParts(v) = TransferParts(w)
  PROVE  Len(w.recipients) <= Len(v.recipients)
  <1> DEFINE p == TransferParts(v)
             k == Len(v.recipients)
             l == Len(w.recipients)
             m == Len(v.meta)
             n == Len(w.meta)
  <1>1. /\ Len(p) = 3 + k + m /\ k \in Nat /\ m \in Nat
        /\ \A i \in 1..m : p[3 + k + i] = MetaParts(v.meta)[i]
    BY TransferPartsAre
  <1>2. /\ Len(p) = 3 + l + n /\ l \in Nat /\ n \in Nat
        /\ \A i \in 1..l : p[3 + i] = RecipientParts(w.recipients)[i]
    BY TransferPartsAre
  <1>3. SUFFICES ASSUME k < l PROVE FALSE
    <2> HIDE DEF p, k, l
    <2>1. k < l \/ l <= k
      BY <1>1, <1>2
    <2> QED
      BY <2>1 DEF k, l
  <1> HIDE DEF p, k, l, m, n
  <1>4. k + 1 \in 1..l /\ 1 \in 1..m /\ 3 + (k + 1) = 3 + k + 1
    BY <1>1, <1>2, <1>3
  <1>5. p[3 + k + 1] = MetaParts(v.meta)[1]
    BY <1>1, <1>4
  <1>6. p[3 + k + 1] = RecipientParts(w.recipients)[k + 1]
    BY <1>2, <1>4
  <1>7. RecipientParts(w.recipients)[k + 1] = RecipientPart(w.recipients[k + 1])
        /\ IsRecipient(w.recipients[k + 1])
    BY <1>4, TransferHeadIs, RecipientPartsAre DEF IsRecipients, l
  <1>8. MetaParts(v.meta)[1] = MetaPart(v.meta[1]) /\ v.meta[1] \in Texts \X Texts
    BY <1>4, TransferHeadIs, MetaPartsAre DEF m
  <1> QED
    BY <1>5, <1>6, <1>7, <1>8, PartKindsDiffer

LEMMA TransferTells ==
  ASSUME NEW v, NEW w, IsTransfer(v), IsTransfer(w), NoSeparator(TransferParts(v)), NoSeparator(TransferParts(w)),
         TransferDocument(v) = TransferDocument(w)
  PROVE  AsJoined(v) = AsJoined(w)
  <1> DEFINE p == TransferParts(v)
             q == TransferParts(w)
             x == Spell("arccade-game-sdk:transfer:1:")
             k == Len(v.recipients)
             l == Len(w.recipients)
             m == Len(v.meta)
             n == Len(w.meta)
  <1>1. p \in Seq(Texts) /\ q \in Seq(Texts) /\ Len(p) # 0 /\ Len(q) # 0
    BY TransferPartsSome
  <1>2. Cat(x, Joined(p, One("|"))) = Cat(x, Joined(q, One("|")))
    BY TransferDocumentIs
  <1>3. x \in Texts /\ Joined(p, One("|")) \in Texts /\ Joined(q, One("|")) \in Texts
    BY TransferDocumentIs, WordsAssumption DEF Starts
  <1>4. NoSeparator(p) /\ NoSeparator(q)
    OBVIOUS
  <1>5. p = q
    <2> HIDE DEF p, q, x
    <2> DEFINE i == Joined(p, One("|"))
               j == Joined(q, One("|"))
    <2>1. Cat(x, i) = Cat(x, j) /\ i \in Texts /\ j \in Texts
      BY <1>2, <1>3
    <2> HIDE DEF i, j
    <2>2. i = j
      BY <1>3, <2>1, CatCancel
    <2> QED
      BY <1>1, <1>4, <2>2, PartsTell DEF i, j
  <1>6. /\ Len(p) = 3 + k + m /\ k \in Nat /\ m \in Nat
        /\ \A i \in 1..3 : p[i] = TransferHead(v)[i]
        /\ \A i \in 1..k : p[3 + i] = RecipientParts(v.recipients)[i]
        /\ \A i \in 1..m : p[3 + k + i] = MetaParts(v.meta)[i]
    BY TransferPartsAre
  <1>7. /\ Len(q) = 3 + l + n /\ l \in Nat /\ n \in Nat
        /\ \A i \in 1..3 : q[i] = TransferHead(w)[i]
        /\ \A i \in 1..l : q[3 + i] = RecipientParts(w.recipients)[i]
        /\ \A i \in 1..n : q[3 + l + i] = MetaParts(w.meta)[i]
    BY TransferPartsAre
  <1>8. k <= l /\ l <= k
    BY <1>5, RecipientsNotMore
  <1> HIDE DEF p, q, x
  <1>9. k = l /\ m = n
    <2> HIDE DEF k, l, m, n
    <2>1. k = l
      BY <1>6, <1>7, <1>8
    <2>2. 3 + k + m = 3 + l + n
      BY <1>5, <1>6, <1>7
    <2> QED
      BY <1>6, <1>7, <2>1, <2>2
  <1>10. v.recipients = w.recipients
    <2>1. \A i \in 1..Len(v.recipients) : RecipientParts(v.recipients)[i] = RecipientParts(w.recipients)[i]
      BY <1>5, <1>6, <1>7, <1>9
    <2> QED
      BY <1>9, <2>1, TransferHeadIs, RecipientPartsTell
  <1>11. MetaParts(v.meta) = MetaParts(w.meta)
    <2>1. \A i \in 1..Len(v.meta) : MetaParts(v.meta)[i] = MetaParts(w.meta)[i]
      BY <1>5, <1>6, <1>7, <1>9
    <2> QED
      BY <1>9, <2>1, TransferHeadIs, MetaPartsTell
  <1>12. \A i \in 1..3 : TransferHead(v)[i] = TransferHead(w)[i]
    BY <1>5, <1>6, <1>7
  <1>13. /\ Cat(Spell("transferId="), v.transferId) = Cat(Spell("transferId="), w.transferId)
         /\ Cat(Spell("sender="), v.sender) = Cat(Spell("sender="), w.sender)
         /\ Cat(Spell("reason="), v.reason) = Cat(Spell("reason="), w.reason)
    <2>1. /\ TransferHead(v)[1] = TransferHead(w)[1] /\ TransferHead(v)[2] = TransferHead(w)[2]
          /\ TransferHead(v)[3] = TransferHead(w)[3]
      BY <1>12
    <2> QED
      BY <2>1 DEF TransferHead
  <1>14. v.transferId = w.transferId
    BY <1>13, TransferHeadIs, LabelsAre, LabelledTells
  <1>15. v.sender = w.sender
    BY <1>13, TransferHeadIs, LabelsAre, LabelledTells
  <1>16. v.reason = w.reason
    BY <1>13, TransferHeadIs, LabelsAre, LabelledTells
  <1> QED
    BY <1>10, <1>11, <1>14, <1>15, <1>16, TransferAsJoined

-----------------------------------------------------------------------------
(* Every value has a document of its own. *)

\* The kinds of value whose documents have no schema.
OtherKinds == {"trade", "transfer", "optional"}
Kinds ==
  { "trade-wars-entry", "trade-wars-outcome", "pixel-race-entry", "pixel-race-outcome", "policy", "attributes",
    "instance", "row", "anchor" } \cup OtherKinds

LEMMA KindIs ==
  ASSUME NEW v
  PROVE  /\ v \in TradeWarsEntries => v.kind = "trade-wars-entry"
         /\ v \in TradeWarsOutcomes => v.kind = "trade-wars-outcome"
         /\ v \in PixelRaceEntries => v.kind = "pixel-race-entry"
         /\ v \in PixelRaceOutcomes => v.kind = "pixel-race-outcome"
         /\ v \in Policies => v.kind = "policy"
         /\ v \in AuditRows => v.kind = "row"
         /\ v \in PeriodAnchors => v.kind = "anchor"
         /\ IsAsset(v) => v.kind = "attributes"
         /\ IsInstance(v) => v.kind = "instance"
         /\ IsTrade(v) => v.kind = "trade"
         /\ IsTransfer(v) => v.kind = "transfer"
         /\ IsOptionalText(v) => v.kind = "optional"
  <1>1. v \in TradeWarsEntries => v.kind = "trade-wars-entry"
    BY DEF TradeWarsEntries
  <1>2. v \in TradeWarsOutcomes => v.kind = "trade-wars-outcome"
    BY DEF TradeWarsOutcomes
  <1>3. v \in PixelRaceEntries => v.kind = "pixel-race-entry"
    BY DEF PixelRaceEntries
  <1>4. v \in PixelRaceOutcomes => v.kind = "pixel-race-outcome"
    BY DEF PixelRaceOutcomes
  <1>5. v \in Policies => v.kind = "policy"
    BY DEF Policies
  <1>6. v \in AuditRows => v.kind = "row"
    BY DEF AuditRows
  <1>7. v \in PeriodAnchors => v.kind = "anchor"
    BY DEF PeriodAnchors
  <1>8. /\ IsAsset(v) => v.kind = "attributes"
        /\ IsInstance(v) => v.kind = "instance"
        /\ IsTrade(v) => v.kind = "trade"
        /\ IsTransfer(v) => v.kind = "transfer"
        /\ IsOptionalText(v) => v.kind = "optional"
    BY DEF IsAsset, IsInstance, IsTrade, IsTransfer, IsOptionalText
  <1> QED
    BY <1>1, <1>2, <1>3, <1>4, <1>5, <1>6, <1>7, <1>8

LEMMA KindTells ==
  ASSUME NEW v, IsDocumentValue(v)
  PROVE  /\ v.kind \in Kinds
         /\ v.kind = "trade-wars-entry" => v \in TradeWarsEntries
         /\ v.kind = "trade-wars-outcome" => v \in TradeWarsOutcomes
         /\ v.kind = "pixel-race-entry" => v \in PixelRaceEntries
         /\ v.kind = "pixel-race-outcome" => v \in PixelRaceOutcomes
         /\ v.kind = "policy" => v \in Policies
         /\ v.kind = "row" => v \in AuditRows
         /\ v.kind = "anchor" => v \in PeriodAnchors
         /\ v.kind = "attributes" => IsAsset(v)
         /\ v.kind = "instance" => IsInstance(v)
         /\ v.kind = "trade" => IsTrade(v)
         /\ v.kind = "transfer" => IsTransfer(v)
         /\ v.kind = "optional" => IsOptionalText(v)
  BY KindIs DEF IsDocumentValue, Kinds, OtherKinds

LEMMA DocumentOf ==
  ASSUME NEW v
  PROVE  /\ v.kind = "trade-wars-entry" => Document(v) = TradeWarsEntryDocument(v)
         /\ v.kind = "trade-wars-outcome" => Document(v) = TradeWarsOutcomeDocument(v)
         /\ v.kind = "pixel-race-entry" => Document(v) = PixelRaceEntryDocument(v)
         /\ v.kind = "pixel-race-outcome" => Document(v) = PixelRaceOutcomeDocument(v)
         /\ v.kind = "policy" => Document(v) = PolicyDocument(v)
         /\ v.kind = "attributes" => Document(v) = AssetAttributeDocument(v.id, v.attributes)
         /\ v.kind = "instance" => Document(v) = DeriveInstanceId(v.tenantId, v.localId, v.attributes, v.salt)
         /\ v.kind = "row" => Document(v) = PeriodLeafDocument(v)
         /\ v.kind = "anchor" => Document(v) = AnchorDocument(v)
         /\ v.kind = "trade" => Document(v) = TradeDocument(v)
         /\ v.kind = "transfer" => Document(v) = TransferDocument(v)
         /\ v.kind = "optional" => Document(v) = CanonOptional({CanonText(s) : s \in v.text})
  BY DEF Document

LEMMA AcceptedOf ==
  ASSUME NEW v, DocumentAccepted(v)
  PROVE  /\ v.kind = "trade" => NoSeparator(TradeParts(v))
         /\ v.kind = "transfer" => NoSeparator(TransferParts(v))
         /\ v.kind \in {"attributes", "instance"} => \A name \in DOMAIN v.attributes : ValidFieldName(name)
  BY DEF DocumentAccepted

\* What is asked of an asset and of an instance.
LEMMA AssetValueIs ==
  ASSUME NEW v, IsDocumentValue(v), DocumentAccepted(v), v.kind = "attributes"
  PROVE  /\ v = [kind |-> "attributes", id |-> v.id, attributes |-> v.attributes]
         /\ v.id \in Texts /\ IsAccepted(v.attributes)
         /\ Headed(Document(v), "arccade-asset-attributes", AssetFields(v.id, v.attributes), <<>>)
  <1>1. /\ v = [kind |-> "attributes", id |-> v.id, attributes |-> v.attributes]
        /\ v.id \in Texts /\ IsAttributes(v.attributes)
    BY KindTells DEF IsAsset
  <1>2. IsAccepted(v.attributes)
    BY <1>1, AcceptedOf DEF IsAccepted
  <1>3. Document(v) = AssetAttributeDocument(v.id, v.attributes)
    BY DocumentOf
  <1>4. Headed(AssetAttributeDocument(v.id, v.attributes), "arccade-asset-attributes", AssetFields(v.id, v.attributes), <<>>)
    BY <1>1, <1>2, AssetIs
  <1> QED
    BY <1>1, <1>2, <1>3, <1>4

InstanceText(v) == Cat(v.tenantId, Cat(One("/"), v.localId))

LEMMA InstanceValueIs ==
  ASSUME NEW v, IsDocumentValue(v), DocumentAccepted(v), v.kind = "instance"
  PROVE  /\ v = [ kind |-> "instance", tenantId |-> v.tenantId, localId |-> v.localId,
                  attributes |-> v.attributes, salt |-> v.salt ]
         /\ v.tenantId \in Texts /\ v.localId \in Texts /\ v.salt \in Texts
         /\ IsAccepted(v.attributes) /\ InstanceText(v) \in Texts
         /\ Headed(Document(v), "arccade-asset-attributes", AssetFields(InstanceText(v), v.attributes),
                   Cat(One("|"), v.salt))
  <1>1. /\ v = [ kind |-> "instance", tenantId |-> v.tenantId, localId |-> v.localId,
                 attributes |-> v.attributes, salt |-> v.salt ]
        /\ v.tenantId \in Texts /\ v.localId \in Texts /\ v.salt \in Texts
        /\ IsAttributes(v.attributes)
    BY KindTells DEF IsInstance
  <1>2. IsAccepted(v.attributes)
    BY <1>1, AcceptedOf DEF IsAccepted
  <1>3. Document(v) = DeriveInstanceId(v.tenantId, v.localId, v.attributes, v.salt)
    BY DocumentOf
  <1>4. /\ Headed(DeriveInstanceId(v.tenantId, v.localId, v.attributes, v.salt), "arccade-asset-attributes",
                  AssetFields(InstanceText(v), v.attributes), Cat(One("|"), v.salt))
        /\ InstanceText(v) \in Texts
    BY <1>1, <1>2, InstanceIs DEF InstanceText
  <1> QED
    BY <1>1, <1>2, <1>3, <1>4

SchemaOf(v) ==
  CASE v.kind = "trade-wars-entry"   -> "arccade-trade-wars-entry"
    [] v.kind = "trade-wars-outcome" -> "arccade-trade-wars-outcome"
    [] v.kind = "pixel-race-entry"   -> "arccade-pixel-race-entry"
    [] v.kind = "pixel-race-outcome" -> "arccade-pixel-race-outcome"
    [] v.kind = "policy"             -> "arccade-venue-policy"
    [] v.kind = "row"                -> "arccade.cycle-audit-row"
    [] v.kind = "anchor"             -> "arccade.period-anchor"
    [] OTHER                         -> "arccade-asset-attributes"

LEMMA SchemaTells ==
  ASSUME NEW v, NEW w, v.kind \in Kinds \ OtherKinds, w.kind \in Kinds \ OtherKinds, SchemaOf(v) = SchemaOf(w)
  PROVE  v.kind = w.kind \/ (v.kind \in {"attributes", "instance"} /\ w.kind \in {"attributes", "instance"})
  BY DEF SchemaOf, Kinds, OtherKinds

LEMMA HeadedOf ==
  ASSUME NEW v, IsDocumentValue(v), DocumentAccepted(v), v.kind \notin OtherKinds
  PROVE  \E kvs, rest : Headed(Document(v), SchemaOf(v), kvs, rest)
  <1>1. CASE v.kind = "attributes"
    BY <1>1, AssetValueIs DEF SchemaOf
  <1>2. CASE v.kind = "instance"
    BY <1>2, InstanceValueIs DEF SchemaOf
  <1>3. CASE v.kind = "trade-wars-entry"
    <2>1. v \in TradeWarsEntries
      BY <1>3, KindTells
    <2>2. Document(v) = TradeWarsEntryDocument(v) /\ SchemaOf(v) = "arccade-trade-wars-entry"
      BY <1>3, DocumentOf DEF SchemaOf
    <2> QED
      BY <2>1, <2>2, KindsHeaded
  <1>4. CASE v.kind = "trade-wars-outcome"
    <2>1. v \in TradeWarsOutcomes
      BY <1>4, KindTells
    <2>2. Document(v) = TradeWarsOutcomeDocument(v) /\ SchemaOf(v) = "arccade-trade-wars-outcome"
      BY <1>4, DocumentOf DEF SchemaOf
    <2> QED
      BY <2>1, <2>2, KindsHeaded
  <1>5. CASE v.kind = "pixel-race-entry"
    <2>1. v \in PixelRaceEntries
      BY <1>5, KindTells
    <2>2. Document(v) = PixelRaceEntryDocument(v) /\ SchemaOf(v) = "arccade-pixel-race-entry"
      BY <1>5, DocumentOf DEF SchemaOf
    <2> QED
      BY <2>1, <2>2, KindsHeaded
  <1>6. CASE v.kind = "pixel-race-outcome"
    <2>1. v \in PixelRaceOutcomes
      BY <1>6, KindTells
    <2>2. Document(v) = PixelRaceOutcomeDocument(v) /\ SchemaOf(v) = "arccade-pixel-race-outcome"
      BY <1>6, DocumentOf DEF SchemaOf
    <2> QED
      BY <2>1, <2>2, KindsHeaded
  <1>7. CASE v.kind = "policy"
    <2>1. v \in Policies
      BY <1>7, KindTells
    <2>2. Document(v) = PolicyDocument(v) /\ SchemaOf(v) = "arccade-venue-policy"
      BY <1>7, DocumentOf DEF SchemaOf
    <2> QED
      BY <2>1, <2>2, KindsHeaded
  <1>8. CASE v.kind = "row"
    <2>1. v \in AuditRows
      BY <1>8, KindTells
    <2>2. Document(v) = PeriodLeafDocument(v) /\ SchemaOf(v) = "arccade.cycle-audit-row"
      BY <1>8, DocumentOf DEF SchemaOf
    <2> QED
      BY <2>1, <2>2, KindsHeaded
  <1>9. CASE v.kind = "anchor"
    <2>1. v \in PeriodAnchors
      BY <1>9, KindTells
    <2>2. Document(v) = AnchorDocument(v) /\ SchemaOf(v) = "arccade.period-anchor"
      BY <1>9, DocumentOf DEF SchemaOf
    <2> QED
      BY <2>1, <2>2, KindsHeaded
  <1> QED
    BY <1>1, <1>2, <1>3, <1>4, <1>5, <1>6, <1>7, <1>8, <1>9, KindTells DEF Kinds

\* What a value's document starts with.
StartOf(v) ==
  CASE v.kind = "trade"    -> "arccade-game-sdk:trade:1:"
    [] v.kind = "transfer" -> "arccade-game-sdk:transfer:1:"
    [] v.kind = "optional" -> "o:"
    [] OTHER               -> "arccade-sdk-digest-v1"

\* The encodings of an optional text: none or one, and not empty.
Encodings(texts) == {CanonText(s) : s \in texts}

LEMMA EncodingsAre ==
  ASSUME NEW v, IsOptionalText(v)
  PROVE  IsEncoded(Encodings(v.text))
  <1> DEFINE e == <<>>
  <1>1. v.text \subseteq Texts /\ \A s, t \in v.text : s = t
    BY DEF IsOptionalText, IsOptional
  <1>2. ASSUME NEW x \in Encodings(v.text) PROVE x \in Texts \ {e}
    <2>1. PICK s \in v.text : x = CanonText(s)
      BY DEF Encodings
    <2>2. x \in Texts /\ Len(x) >= 2
      BY <1>1, <2>1, TagsAre, CanonIs DEF CanonText
    <2>3. Len(e) = 0
      BY EmptySeq
    <2> HIDE DEF e
    <2> QED
      BY <2>2, <2>3
  <1>3. ASSUME NEW x \in Encodings(v.text), NEW y \in Encodings(v.text) PROVE x = y
    BY <1>1 DEF Encodings
  <1> QED
    BY <1>2, <1>3 DEF IsEncoded

LEMMA OptionalIs ==
  ASSUME NEW v, IsOptionalText(v)
  PROVE  \E rest \in Texts : CanonOptional(Encodings(v.text)) = Cat(Spell("o:"), rest)
  <1> DEFINE x == OrEmpty(Encodings(v.text))
  <1>1. x \in Texts
    BY EncodingsAre, OrEmptyIs
  <1>2. CanonOptional(Encodings(v.text)) = Canon("o", x)
    BY DEF CanonOptional
  <1>3. "o" \in Characters
    BY TagsAre
  <1> HIDE DEF x
  <1>4. Canon("o", x) = Cat(<<"o", ":">>, Sized(x)) /\ Sized(x) \in Texts
    BY <1>1, <1>3, CanonIs, SizedType
  <1>5. Spell("o:") = <<"o", ":">>
    BY WordsAssumption
  <1> QED
    BY <1>2, <1>4, <1>5

LEMMA OptionalTells ==
  ASSUME NEW v, NEW w, IsOptionalText(v), IsOptionalText(w),
         CanonOptional(Encodings(v.text)) = CanonOptional(Encodings(w.text))
  PROVE  v = w
  <1> DEFINE a == Encodings(v.text)
             b == Encodings(w.text)
  <1>1. IsEncoded(a) /\ IsEncoded(b)
    BY EncodingsAre
  <1>2. Canon("o", OrEmpty(a)) = Canon("o", OrEmpty(b))
    BY DEF CanonOptional
  <1>3. OrEmpty(a) \in Texts /\ OrEmpty(b) \in Texts
    BY <1>1, OrEmptyIs
  <1>4. "o" \in Characters
    BY TagsAre
  <1>5. OrEmpty(a) = OrEmpty(b)
    BY <1>2, <1>3, <1>4, CanonSame
  <1>6. a = b
    BY <1>1, <1>5, OrEmptyTells
  <1>7. v.text \subseteq Texts /\ w.text \subseteq Texts
    BY DEF IsOptionalText, IsOptional
  <1>8. \A s \in Texts, t \in Texts : CanonText(s) = CanonText(t) => s = t
    BY CanonTextTells
  <1>9. ASSUME NEW s \in v.text PROVE s \in w.text
    <2>1. CanonText(s) \in b
      BY <1>6 DEF Encodings
    <2>2. PICK t \in w.text : CanonText(s) = CanonText(t)
      BY <2>1 DEF Encodings
    <2>3. s \in Texts /\ t \in Texts
      BY <1>7
    <2> QED
      BY <1>8, <2>2, <2>3
  <1>10. ASSUME NEW s \in w.text PROVE s \in v.text
    <2>1. CanonText(s) \in a
      BY <1>6 DEF Encodings
    <2>2. PICK t \in v.text : CanonText(s) = CanonText(t)
      BY <2>1 DEF Encodings
    <2>3. s \in Texts /\ t \in Texts
      BY <1>7
    <2> QED
      BY <1>8, <2>2, <2>3
  <1> QED
    BY <1>9, <1>10 DEF IsOptionalText

LEMMA StartIs ==
  ASSUME NEW v, IsDocumentValue(v), DocumentAccepted(v)
  PROVE  \E rest \in Texts : Document(v) = Cat(Spell(StartOf(v)), rest)
  <1>1. CASE v.kind = "trade"
    <2>1. IsTrade(v) /\ Document(v) = TradeDocument(v) /\ StartOf(v) = "arccade-game-sdk:trade:1:"
      BY <1>1, KindTells, DocumentOf DEF StartOf
    <2> QED
      BY <2>1, TradeDocumentIs
  <1>2. CASE v.kind = "transfer"
    <2>1. /\ IsTransfer(v) /\ Document(v) = TransferDocument(v)
          /\ StartOf(v) = "arccade-game-sdk:transfer:1:"
      BY <1>2, KindTells, DocumentOf DEF StartOf
    <2> QED
      BY <2>1, TransferDocumentIs
  <1>3. CASE v.kind = "optional"
    <2>1. IsOptionalText(v) /\ StartOf(v) = "o:"
      BY <1>3, KindTells DEF StartOf
    <2>2. Document(v) = CanonOptional(Encodings(v.text))
      BY <1>3, DocumentOf DEF Encodings
    <2> QED
      BY <2>1, <2>2, OptionalIs
  <1>4. CASE v.kind \notin OtherKinds
    <2>1. StartOf(v) = "arccade-sdk-digest-v1"
      BY <1>4 DEF StartOf, OtherKinds
    <2> QED
      BY <1>4, <2>1, HeadedOf, HeadedStarts
  <1> QED
    BY <1>1, <1>2, <1>3, <1>4 DEF OtherKinds

LEMMA StartsTell ==
  ASSUME NEW v, NEW w, IsDocumentValue(v), IsDocumentValue(w), DocumentAccepted(v), DocumentAccepted(w),
         Document(v) = Document(w)
  PROVE  (v.kind \in OtherKinds \/ w.kind \in OtherKinds) => v.kind = w.kind
  <1> DEFINE s == StartOf(v)
             t == StartOf(w)
  <1>1. PICK r \in Texts : Document(v) = Cat(Spell(s), r)
    BY StartIs
  <1>2. PICK q \in Texts : Document(w) = Cat(Spell(t), q)
    BY StartIs
  <1>3. s \in Starts /\ t \in Starts
    BY DEF StartOf, Starts
  <1>4. Apart(Starts) /\ Spell(s) \in Texts /\ Spell(t) \in Texts
    BY <1>3, WordsAssumption
  <1>5. Cat(Spell(s), r) = Cat(Spell(t), q)
    BY <1>1, <1>2
  <1>6. s = t
    <2> HIDE DEF s, t
    <2> QED
      BY <1>3, <1>4, <1>5, CatStart
  <1> QED
    BY <1>6 DEF StartOf, OtherKinds

\* A value with a document of a schema of its own is told by its document.
LEMMA PlainTells ==
  ASSUME NEW v, NEW w, IsDocumentValue(v), IsDocumentValue(w), Document(v) = Document(w), v.kind = w.kind,
         v.kind \in Kinds \ (OtherKinds \cup {"attributes", "instance"})
  PROVE  v = w
  <1>0. v.kind \in { "trade-wars-entry", "trade-wars-outcome", "pixel-race-entry", "pixel-race-outcome",
                     "policy", "row", "anchor" }
    BY DEF Kinds
  <1>1. CASE v.kind = "trade-wars-entry"
    <2>1. v \in TradeWarsEntries /\ w \in TradeWarsEntries
      BY <1>1, KindTells
    <2>2. Document(v) = TradeWarsEntryDocument(v) /\ Document(w) = TradeWarsEntryDocument(w)
      BY <1>1, DocumentOf
    <2>3. /\ Headed(Document(v), "arccade-trade-wars-entry", TradeWarsEntryFields(v), <<>>)
          /\ Headed(Document(w), "arccade-trade-wars-entry", TradeWarsEntryFields(w), <<>>)
      BY <2>1, <2>2, KindsHeaded
    <2>4. CanonFields(TradeWarsEntryFields(v)) = CanonFields(TradeWarsEntryFields(w))
      BY <2>3, HeadedTells
    <2> QED
      BY <2>1, <2>4, TradeWarsEntryFieldsTell
  <1>2. CASE v.kind = "trade-wars-outcome"
    <2>1. v \in TradeWarsOutcomes /\ w \in TradeWarsOutcomes
      BY <1>2, KindTells
    <2>2. Document(v) = TradeWarsOutcomeDocument(v) /\ Document(w) = TradeWarsOutcomeDocument(w)
      BY <1>2, DocumentOf
    <2>3. /\ Headed(Document(v), "arccade-trade-wars-outcome", TradeWarsOutcomeFields(v), <<>>)
          /\ Headed(Document(w), "arccade-trade-wars-outcome", TradeWarsOutcomeFields(w), <<>>)
      BY <2>1, <2>2, KindsHeaded
    <2>4. CanonFields(TradeWarsOutcomeFields(v)) = CanonFields(TradeWarsOutcomeFields(w))
      BY <2>3, HeadedTells
    <2> QED
      BY <2>1, <2>4, TradeWarsOutcomeFieldsTell
  <1>3. CASE v.kind = "pixel-race-entry"
    <2>1. v \in PixelRaceEntries /\ w \in PixelRaceEntries
      BY <1>3, KindTells
    <2>2. Document(v) = PixelRaceEntryDocument(v) /\ Document(w) = PixelRaceEntryDocument(w)
      BY <1>3, DocumentOf
    <2>3. /\ Headed(Document(v), "arccade-pixel-race-entry", PixelRaceEntryFields(v), <<>>)
          /\ Headed(Document(w), "arccade-pixel-race-entry", PixelRaceEntryFields(w), <<>>)
      BY <2>1, <2>2, KindsHeaded
    <2>4. CanonFields(PixelRaceEntryFields(v)) = CanonFields(PixelRaceEntryFields(w))
      BY <2>3, HeadedTells
    <2> QED
      BY <2>1, <2>4, PixelRaceEntryFieldsTell
  <1>4. CASE v.kind = "pixel-race-outcome"
    <2>1. v \in PixelRaceOutcomes /\ w \in PixelRaceOutcomes
      BY <1>4, KindTells
    <2>2. Document(v) = PixelRaceOutcomeDocument(v) /\ Document(w) = PixelRaceOutcomeDocument(w)
      BY <1>4, DocumentOf
    <2>3. /\ Headed(Document(v), "arccade-pixel-race-outcome", PixelRaceOutcomeFields(v), <<>>)
          /\ Headed(Document(w), "arccade-pixel-race-outcome", PixelRaceOutcomeFields(w), <<>>)
      BY <2>1, <2>2, KindsHeaded
    <2>4. CanonFields(PixelRaceOutcomeFields(v)) = CanonFields(PixelRaceOutcomeFields(w))
      BY <2>3, HeadedTells
    <2> QED
      BY <2>1, <2>4, PixelRaceOutcomeFieldsTell
  <1>5. CASE v.kind = "policy"
    <2>1. v \in Policies /\ w \in Policies
      BY <1>5, KindTells
    <2>2. Document(v) = PolicyDocument(v) /\ Document(w) = PolicyDocument(w)
      BY <1>5, DocumentOf
    <2>3. /\ Headed(Document(v), "arccade-venue-policy", PolicyFields(v), <<>>)
          /\ Headed(Document(w), "arccade-venue-policy", PolicyFields(w), <<>>)
      BY <2>1, <2>2, KindsHeaded
    <2>4. CanonFields(PolicyFields(v)) = CanonFields(PolicyFields(w))
      BY <2>3, HeadedTells
    <2> QED
      BY <2>1, <2>4, PolicyFieldsTell
  <1>6. CASE v.kind = "row"
    <2>1. v \in AuditRows /\ w \in AuditRows
      BY <1>6, KindTells
    <2>2. Document(v) = PeriodLeafDocument(v) /\ Document(w) = PeriodLeafDocument(w)
      BY <1>6, DocumentOf
    <2>3. /\ Headed(Document(v), "arccade.cycle-audit-row", RowFields(v), <<>>)
          /\ Headed(Document(w), "arccade.cycle-audit-row", RowFields(w), <<>>)
      BY <2>1, <2>2, KindsHeaded
    <2>4. CanonFields(RowFields(v)) = CanonFields(RowFields(w))
      BY <2>3, HeadedTells
    <2> QED
      BY <2>1, <2>4, RowFieldsTell
  <1>7. CASE v.kind = "anchor"
    <2>1. v \in PeriodAnchors /\ w \in PeriodAnchors
      BY <1>7, KindTells
    <2>2. Document(v) = AnchorDocument(v) /\ Document(w) = AnchorDocument(w)
      BY <1>7, DocumentOf
    <2>3. /\ Headed(Document(v), "arccade.period-anchor", AnchorFields(v), <<>>)
          /\ Headed(Document(w), "arccade.period-anchor", AnchorFields(w), <<>>)
      BY <2>1, <2>2, KindsHeaded
    <2>4. CanonFields(AnchorFields(v)) = CanonFields(AnchorFields(w))
      BY <2>3, HeadedTells
    <2> QED
      BY <2>1, <2>4, AnchorFieldsTell
  <1> QED
    BY <1>0, <1>1, <1>2, <1>3, <1>4, <1>5, <1>6, <1>7

LEMMA AssetsTell ==
  ASSUME NEW v, NEW w, IsDocumentValue(v), IsDocumentValue(w), DocumentAccepted(v), DocumentAccepted(w),
         Document(v) = Document(w), v.kind \in {"attributes", "instance"}, w.kind \in {"attributes", "instance"}
  PROVE  AsJoined(v) = AsJoined(w)
  <1> DEFINE e == <<>>
             c == One("|")
  <1>0. /\ v.kind = "attributes" => Headed(Document(v), "arccade-asset-attributes", AssetFields(v.id, v.attributes), e)
        /\ w.kind = "attributes" => Headed(Document(w), "arccade-asset-attributes", AssetFields(w.id, w.attributes), e)
        /\ v.kind = "instance" => Headed(Document(v), "arccade-asset-attributes",
                                         AssetFields(InstanceText(v), v.attributes), Cat(c, v.salt))
        /\ w.kind = "instance" => Headed(Document(w), "arccade-asset-attributes",
                                         AssetFields(InstanceText(w), w.attributes), Cat(c, w.salt))
    BY AssetValueIs, InstanceValueIs
  <1>1. c \in Texts /\ Len(c) = 1 /\ Len(e) = 0
    BY SeparatorsAre, OneIs, EmptySeq
  <1> HIDE DEF e, c
  <1>2. ASSUME NEW s, s \in Texts PROVE Cat(c, s) # e
    <2>1. Cat(c, s) \in Texts /\ Len(Cat(c, s)) = Len(c) + Len(s) /\ Len(s) \in Nat
      BY <1>1, <1>2, CatType
    <2> QED
      BY <1>1, <2>1
  <1>3. v.kind = w.kind
    <2>1. v.kind = "instance" => v.salt \in Texts
      BY InstanceValueIs
    <2>2. w.kind = "instance" => w.salt \in Texts
      BY InstanceValueIs
    <2>3. ~(v.kind = "attributes" /\ w.kind = "instance")
      BY <1>0, <1>2, <2>2, HeadedTells
    <2>4. ~(v.kind = "instance" /\ w.kind = "attributes")
      BY <1>0, <1>2, <2>1, HeadedTells
    <2> QED
      BY <2>3, <2>4
  <1>4. CASE v.kind = "attributes"
    <2>1. /\ v = [kind |-> "attributes", id |-> v.id, attributes |-> v.attributes]
          /\ w = [kind |-> "attributes", id |-> w.id, attributes |-> w.attributes]
      BY <1>3, <1>4, AssetValueIs
    <2>2. v.id \in Texts /\ IsAccepted(v.attributes) /\ w.id \in Texts /\ IsAccepted(w.attributes)
      BY <1>3, <1>4, AssetValueIs
    <2>3. CanonFields(AssetFields(v.id, v.attributes)) = CanonFields(AssetFields(w.id, w.attributes))
      BY <1>0, <1>3, <1>4, HeadedTells
    <2>4. v.id = w.id /\ v.attributes = w.attributes
      BY <2>2, <2>3, AssetFieldsTell
    <2>5. v = w
      BY <2>1, <2>4
    <2> QED
      BY <2>5
  <1>5. CASE v.kind = "instance"
    <2>1. /\ v = [ kind |-> "instance", tenantId |-> v.tenantId, localId |-> v.localId,
                   attributes |-> v.attributes, salt |-> v.salt ]
          /\ w = [ kind |-> "instance", tenantId |-> w.tenantId, localId |-> w.localId,
                   attributes |-> w.attributes, salt |-> w.salt ]
      BY <1>3, <1>5, InstanceValueIs
    <2>2. /\ v.tenantId \in Texts /\ v.localId \in Texts /\ v.salt \in Texts
          /\ IsAccepted(v.attributes) /\ InstanceText(v) \in Texts
      BY <1>5, InstanceValueIs
    <2>3. /\ w.tenantId \in Texts /\ w.localId \in Texts /\ w.salt \in Texts
          /\ IsAccepted(w.attributes) /\ InstanceText(w) \in Texts
      BY <1>3, <1>5, InstanceValueIs
    <2>4. /\ CanonFields(AssetFields(InstanceText(v), v.attributes))
               = CanonFields(AssetFields(InstanceText(w), w.attributes))
          /\ Cat(c, v.salt) = Cat(c, w.salt)
      BY <1>0, <1>3, <1>5, HeadedTells
    <2>5. InstanceText(v) = InstanceText(w) /\ v.attributes = w.attributes
      BY <2>2, <2>3, <2>4, AssetFieldsTell
    <2>6. v.salt = w.salt
      BY <1>1, <2>2, <2>3, <2>4, CatCancel
    <2>7. JoinedId(v) = JoinedId(w)
      <3>1. One("/") \in Texts
        BY SeparatorTexts
      <3>2. JoinedId(v) = InstanceText(v) /\ JoinedId(w) = InstanceText(w)
        BY <2>2, <2>3, <3>1, CatAssoc DEF JoinedId, InstanceText
      <3> QED
        BY <2>5, <3>2
    <2>8. IsInstance(v) /\ IsInstance(w)
      BY <1>3, <1>5, KindTells
    <2> QED
      BY <2>5, <2>6, <2>7, <2>8, InstanceAsJoined
  <1> QED
    BY <1>4, <1>5

\* Two values that the builders accept and that have the same document are the
\* same as joined.
LEMMA DocumentsTell ==
  ASSUME NEW v, NEW w, IsDocumentValue(v), IsDocumentValue(w), DocumentAccepted(v), DocumentAccepted(w),
         Document(v) = Document(w)
  PROVE  AsJoined(v) = AsJoined(w)
  <1>1. v.kind \in Kinds /\ w.kind \in Kinds
    BY KindTells
  <1>2. CASE v.kind \in OtherKinds \/ w.kind \in OtherKinds
    <2>1. v.kind = w.kind
      BY <1>2, StartsTell
    <2>2. CASE v.kind = "trade"
      <3>1. IsTrade(v) /\ NoSeparator(TradeParts(v)) /\ Document(v) = TradeDocument(v)
        BY <2>2, KindTells, AcceptedOf, DocumentOf
      <3>2. IsTrade(w) /\ NoSeparator(TradeParts(w)) /\ Document(w) = TradeDocument(w)
        BY <2>1, <2>2, KindTells, AcceptedOf, DocumentOf
      <3> QED
        BY <3>1, <3>2, TradeTells
    <2>3. CASE v.kind = "transfer"
      <3>1. IsTransfer(v) /\ NoSeparator(TransferParts(v)) /\ Document(v) = TransferDocument(v)
        BY <2>3, KindTells, AcceptedOf, DocumentOf
      <3>2. IsTransfer(w) /\ NoSeparator(TransferParts(w)) /\ Document(w) = TransferDocument(w)
        BY <2>1, <2>3, KindTells, AcceptedOf, DocumentOf
      <3> QED
        BY <3>1, <3>2, TransferTells
    <2>4. CASE v.kind = "optional"
      <3>1. IsOptionalText(v) /\ IsOptionalText(w)
        BY <2>1, <2>4, KindTells
      <3>2. /\ Document(v) = CanonOptional(Encodings(v.text))
            /\ Document(w) = CanonOptional(Encodings(w.text))
        BY <2>1, <2>4, DocumentOf DEF Encodings
      <3> QED
        BY <3>1, <3>2, OptionalTells, Zenon
    <2> QED
      BY <1>2, <2>1, <2>2, <2>3, <2>4 DEF OtherKinds
  <1>3. CASE v.kind \notin OtherKinds /\ w.kind \notin OtherKinds
    <2>1. PICK a, r : Headed(Document(v), SchemaOf(v), a, r)
      BY <1>3, HeadedOf
    <2>2. PICK b, q : Headed(Document(w), SchemaOf(w), b, q)
      BY <1>3, HeadedOf
    <2>3. SchemaOf(v) = SchemaOf(w)
      BY <2>1, <2>2, HeadedTells
    <2>4. v.kind = w.kind \/ (v.kind \in {"attributes", "instance"} /\ w.kind \in {"attributes", "instance"})
      BY <1>1, <1>3, <2>3, SchemaTells
    <2>5. CASE v.kind \in {"attributes", "instance"}
      BY <2>4, <2>5, AssetsTell
    <2>6. CASE v.kind \notin {"attributes", "instance"}
      <3>1. v = w
        BY <1>1, <1>3, <2>4, <2>6, PlainTells
      <3> QED
        BY <3>1
    <2> QED
      BY <2>5, <2>6
  <1> QED
    BY <1>2, <1>3

LEMMA JoinedKind ==
  ASSUME NEW v, IsDocumentValue(v)
  PROVE  AsJoined(v).kind = v.kind
  <1>1. CASE v.kind = "trade"
    BY <1>1, KindTells, TradeAsJoined
  <1>2. CASE v.kind = "transfer"
    BY <1>2, KindTells, TransferAsJoined
  <1>3. CASE v.kind = "instance"
    <2>1. IsInstance(v)
      BY <1>3, KindTells
    <2> DEFINE e == <<>>
    <2>2. AsJoined(v) = [ kind |-> "instance", tenantId |-> JoinedId(v), localId |-> e,
                          attributes |-> v.attributes, salt |-> v.salt ]
      BY <2>1, InstanceAsJoined
    <2> HIDE DEF e
    <2> QED
      BY <1>3, <2>2
  <1> QED
    BY <1>1, <1>2, <1>3, OthersAsJoined

\* Two values that are the same as joined have the same document.
LEMMA JoinedTell ==
  ASSUME NEW v, NEW w, IsDocumentValue(v), IsDocumentValue(w), AsJoined(v) = AsJoined(w)
  PROVE  Document(v) = Document(w)
  <1>1. v.kind = w.kind
    BY JoinedKind
  <1>2. CASE v.kind = "trade"
    <2>1. IsTrade(v) /\ IsTrade(w) /\ Document(v) = TradeDocument(v) /\ Document(w) = TradeDocument(w)
      BY <1>1, <1>2, KindTells, DocumentOf
    <2>2. /\ v.tradeId = w.tradeId /\ v.maker = w.maker /\ OrEmpty(v.taker) = OrEmpty(w.taker)
          /\ v.expiresAt = w.expiresAt /\ v.ask = w.ask /\ v.offer = w.offer
          /\ MetaParts(v.meta) = MetaParts(w.meta)
      BY <2>1, TradeAsJoined
    <2>3. TradeParts(v) = TradeParts(w)
      BY <2>2, Zenon DEF TradeParts, MetaParts
    <2> QED
      BY <2>1, <2>3 DEF TradeDocument
  <1>3. CASE v.kind = "transfer"
    <2>1. /\ IsTransfer(v) /\ IsTransfer(w)
          /\ Document(v) = TransferDocument(v) /\ Document(w) = TransferDocument(w)
      BY <1>1, <1>3, KindTells, DocumentOf
    <2>2. /\ v.transferId = w.transferId /\ v.sender = w.sender /\ v.reason = w.reason
          /\ v.recipients = w.recipients /\ MetaParts(v.meta) = MetaParts(w.meta)
      BY <2>1, TransferAsJoined
    <2>3. TransferParts(v) = TransferParts(w)
      BY <2>2, Zenon DEF TransferParts, MetaParts
    <2> QED
      BY <2>1, <2>3 DEF TransferDocument
  <1>4. CASE v.kind = "instance"
    <2>1. /\ IsInstance(v) /\ IsInstance(w)
          /\ Document(v) = DeriveInstanceId(v.tenantId, v.localId, v.attributes, v.salt)
          /\ Document(w) = DeriveInstanceId(w.tenantId, w.localId, w.attributes, w.salt)
      BY <1>1, <1>4, KindTells, DocumentOf
    <2>3. JoinedId(v) = JoinedId(w) /\ v.attributes = w.attributes /\ v.salt = w.salt
      BY <2>1, InstanceJoinedTells
    <2>4. v.tenantId \o <<"/">> \o v.localId = w.tenantId \o <<"/">> \o w.localId
      BY <2>3, Zenon DEF JoinedId, Cat, One
    <2> QED
      BY <2>1, <2>3, <2>4, Zenon DEF DeriveInstanceId
  <1>5. CASE v.kind \notin {"trade", "transfer", "instance"}
    <2>1. AsJoined(v) = v /\ AsJoined(w) = w
      BY <1>1, <1>5, OthersAsJoined
    <2> QED
      BY <2>1
  <1> QED
    BY <1>2, <1>3, <1>4, <1>5

\* Two values that the code builds a document for share one exactly when they
\* are the same as joined, whatever their texts and numbers are and whatever kind
\* each is of; but for where the parts of a meta entry and of an instance's id
\* meet, and for an empty taker, a document tells its value (digest.js:40-134,
\* trade.js:91-115, transfer.js:44-71, assets.js:168-177).
THEOREM DocumentsTold == ClientSpec => []DocumentsDistinct
  <1>1. ASSUME job \in Jobs PROVE DocumentsDistinct
    <2> SUFFICES ASSUME Doing("documents") PROVE DocumentsDistinct
      BY DEF DocumentsDistinct
    <2> DEFINE S == {v \in job.values : DocumentAccepted(v)}
               P == {<<Document(v), AsJoined(v)>> : v \in S}
               f == [t \in P |-> t[1]]
               g == [t \in P |-> t[2]]
               D == {t[1] : t \in P}
               J == {t[2] : t \in P}
    <2>1. IsFiniteSet(job.values) /\ \A v \in job.values : IsDocumentValue(v)
      BY <1>1, JobsAssumption DEF Doing
    <2>2. IsFiniteSet(P)
      <3> DEFINE h == [v \in S |-> <<Document(v), AsJoined(v)>>]
      <3>1. IsFiniteSet(S)
        BY <2>1, FS_Subset
      <3> HIDE DEF S
      <3>2. h \in Surjection(S, P)
        BY DEF Surjection
      <3> HIDE DEF h, P
      <3> QED
        BY <3>1, <3>2, FS_Surjection
    <2>3. \A v, w \in S : Document(v) = Document(w) <=> AsJoined(v) = AsJoined(w)
      BY <2>1, DocumentsTell, JoinedTell
    <2>4. \A x, y \in P : x[1] = y[1] <=> x = y
      <3> HIDE DEF S
      <3> QED
        BY <2>3
    <2>5. \A x, y \in P : x[2] = y[2] <=> x = y
      <3> HIDE DEF S
      <3> QED
        BY <2>3
    <2>6. \A x, y \in P : f[x] = f[y] => x = y
      <3> HIDE DEF P
      <3> QED
        BY <2>4
    <2>7. \A x, y \in P : g[x] = g[y] => x = y
      <3> HIDE DEF P
      <3> QED
        BY <2>5
    <2>8. (\A t : t \in D <=> \E x \in P : t = f[x]) /\ (\A t : t \in J <=> \E x \in P : t = g[x])
      <3> HIDE DEF P
      <3> QED
        OBVIOUS
    <2>9. Cardinality(D) = Cardinality(P) /\ Cardinality(J) = Cardinality(P)
      <3> HIDE DEF P, f, g, D, J
      <3> QED
        BY <2>2, <2>6, <2>7, <2>8, SameSize
    <2> QED
      BY <2>9 DEF DocumentsDistinct
  <1>2. ClientInit => job \in Jobs
    BY DEF ClientInit
  <1>3. job \in Jobs /\ [ClientNext]_clientVars => (job \in Jobs)'
    BY DEF ClientNext, clientVars
  <1> QED
    BY <1>1, <1>2, <1>3, PTL DEF ClientSpec
=============================================================================
