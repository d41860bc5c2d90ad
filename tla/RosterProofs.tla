---------------------------- MODULE RosterProofs ----------------------------
(***************************************************************************)
(* The roster of a venue, for any players, capacities, batches and chains: *)
(* the chain of shards stays well formed, a walk of it ends and finds just *)
(* the players some active shard lists, and so the chain implements the    *)
(* set of registered players (SlotRegistry.tla).                           *)
(***************************************************************************)
EXTENDS Roster, NumberProofs

-----------------------------------------------------------------------------
(* The strengthening: what holds of the ledger after each grant of a batch *)
(* as well as between transactions.                                        *)

Typed(lg) ==
  lg \in [ head : ShardId \cup {NoShard}, shard : [ShardId -> PlayerRoster \cup {Unborn}],
           created : 0 .. MaxShards, refused : BOOLEAN ]

\* The head is the youngest shard, and active; without one there is no shard.
HeadIsYoungest(lg) ==
  /\ lg.head = IF lg.created = 0 THEN NoShard ELSE lg.created
  /\ lg.created # 0 => lg.shard[lg.created].active
  /\ \A i \in ShardId : lg.shard[i].active => i <= lg.created

\* A shard points at the youngest of the active shards older than itself.
LinksGoBack(lg) ==
  \A i \in ShardId : lg.shard[i].active =>
    IF lg.shard[i].next = NoShard
    THEN \A j \in ShardId : lg.shard[j].active => i <= j
    ELSE LET n == lg.shard[i].next
         IN  /\ n < i /\ lg.shard[n].active
             /\ \A j \in ShardId : lg.shard[j].active => j <= n \/ i <= j
             /\ lg.shard[i].shardIndex = lg.shard[n].shardIndex + 1
             /\ ~HasRoom(lg.shard[n])

Disjoint(lg) ==
  \A i, j \in ShardId : i # j /\ lg.shard[i].active /\ lg.shard[j].active =>
    lg.shard[i].players \cap lg.shard[j].players = {}

Sound(lg) == Typed(lg) /\ HeadIsYoungest(lg) /\ LinksGoBack(lg) /\ Disjoint(lg)

\* The players that some active shard lists.
Members(lg) ==
  {p \in Player : \E i \in ShardId : lg.shard[i].active /\ p \in lg.shard[i].players}

IInv == Sound(Current)

-----------------------------------------------------------------------------
(* Walking the chain. *)

\* The equation of the walk, for a function g of the shards.
IsWalk(lg, who, g) ==
  g = [i \in ShardId |->
         IF ~lg.shard[i].active THEN "archived"
         ELSE IF who \in lg.shard[i].players THEN "found"
         ELSE IF lg.shard[i].next = NoShard THEN "absent"
         ELSE g[lg.shard[i].next]]

\* What a walk from a shard answers, said without walking.
Verdict(lg, who, i) ==
  IF ~lg.shard[i].active THEN "archived"
  ELSE IF \E j \in ShardId : lg.shard[j].active /\ j <= i /\ who \in lg.shard[j].players
       THEN "found" ELSE "absent"

LEMMA WalkIsChosen ==
  ASSUME NEW lg, NEW who
  PROVE  Walk(lg, who) = (CHOOSE g : IsWalk(lg, who, g))[lg.head]
BY DEF Walk, IsWalk

\* An active shard in the types of the ledger.
LEMMA ActiveShard ==
  ASSUME NEW lg, Typed(lg), NEW i \in ShardId, lg.shard[i].active
  PROVE  lg.shard[i] \in PlayerRoster
BY DEF Typed, Unborn

\* The verdicts satisfy the equation of the walk ...
LEMMA VerdictsAreAWalk ==
  ASSUME NEW lg, Sound(lg), NEW who
  PROVE  IsWalk(lg, who, [i \in ShardId |-> Verdict(lg, who, i)])
<1> DEFINE V == [i \in ShardId |-> Verdict(lg, who, i)]
           s(i) == lg.shard[i]
<1>1. ASSUME NEW i \in ShardId
      PROVE  V[i] = IF ~lg.shard[i].active THEN "archived"
                    ELSE IF who \in lg.shard[i].players THEN "found"
                    ELSE IF lg.shard[i].next = NoShard THEN "absent"
                    ELSE V[lg.shard[i].next]
  <2>1. CASE ~lg.shard[i].active
    BY <2>1 DEF Verdict
  <2>2. CASE lg.shard[i].active /\ who \in lg.shard[i].players
    BY <2>2 DEF Verdict, ShardId
  <2>3. CASE lg.shard[i].active /\ who \notin lg.shard[i].players /\ lg.shard[i].next = NoShard
    <3>1. \A j \in ShardId : lg.shard[j].active => i <= j
      BY <2>3 DEF Sound, LinksGoBack
    <3>2. \A j \in ShardId : lg.shard[j].active /\ j <= i => j = i
      BY <3>1 DEF ShardId
    <3>3. QED BY <2>3, <3>2 DEF Verdict
  <2>4. CASE lg.shard[i].active /\ who \notin lg.shard[i].players /\ lg.shard[i].next # NoShard
    <3> DEFINE n == lg.shard[i].next
    <3>1. n \in ShardId
      BY <2>4, ActiveShard DEF Sound, PlayerRoster
    <3>2. /\ n < i /\ lg.shard[n].active
          /\ \A j \in ShardId : lg.shard[j].active => j <= n \/ i <= j
      BY <2>4 DEF Sound, LinksGoBack
    <3>3. \A j \in ShardId : lg.shard[j].active /\ who \in lg.shard[j].players =>
            (j <= i <=> j <= n)
      BY <2>4, <3>1, <3>2 DEF ShardId
    <3>4. Verdict(lg, who, i) = Verdict(lg, who, n)
      BY <2>4, <3>2, <3>3 DEF Verdict
    <3>5. QED BY <2>4, <3>1, <3>4
  <2>5. QED BY <2>1, <2>2, <2>3, <2>4
<1>2. QED BY <1>1 DEF IsWalk

\* ... and nothing else does: the links go back, so the walk ends.
LEMMA WalksAgree ==
  ASSUME NEW lg, Sound(lg), NEW who, NEW g, IsWalk(lg, who, g), NEW i \in ShardId
  PROVE  g[i] = Verdict(lg, who, i)
<1> DEFINE V == [j \in ShardId |-> Verdict(lg, who, j)]
           bad == {j \in ShardId : g[j] # V[j]}
<1>1. SUFFICES ASSUME bad # {} PROVE FALSE
  OBVIOUS
<1>2. PICK m \in bad : \A k \in bad : m <= k
  <2>1. bad \subseteq Nat
    BY DEF ShardId
  <2> HIDE DEF bad
  <2>2. QED BY <1>1, <2>1, LeastNat
<1>3. IsWalk(lg, who, V)
  BY VerdictsAreAWalk
<1>4. \A j \in ShardId :
        /\ g[j] = IF ~lg.shard[j].active THEN "archived"
                  ELSE IF who \in lg.shard[j].players THEN "found"
                  ELSE IF lg.shard[j].next = NoShard THEN "absent"
                  ELSE g[lg.shard[j].next]
        /\ V[j] = IF ~lg.shard[j].active THEN "archived"
                  ELSE IF who \in lg.shard[j].players THEN "found"
                  ELSE IF lg.shard[j].next = NoShard THEN "absent"
                  ELSE V[lg.shard[j].next]
  <2> HIDE DEF V
  <2>1. QED BY <1>3 DEF IsWalk
<1> HIDE DEF V
<1> DEFINE n == lg.shard[m].next
<1>5. lg.shard[m].active /\ n # NoShard /\ g[n] # V[n]
  BY <1>2, <1>4
<1>6. n \in ShardId
  BY <1>2, <1>5, ActiveShard DEF Sound, PlayerRoster
<1>7. n < m
  BY <1>2, <1>5 DEF Sound, LinksGoBack
<1>8. QED BY <1>2, <1>5, <1>6, <1>7 DEF ShardId

\* A walk from the head finds just the players that active shards list, and
\* never meets an archived shard.
LEMMA WalkFinds ==
  ASSUME NEW lg, Sound(lg), lg.head # NoShard, NEW who \in Player
  PROVE  Walk(lg, who) = IF who \in Members(lg) THEN "found" ELSE "absent"
<1>1. PICK g : g = CHOOSE f : IsWalk(lg, who, f)
  OBVIOUS
<1>2. IsWalk(lg, who, g)
  BY <1>1, VerdictsAreAWalk
<1>3. lg.head \in ShardId /\ lg.head = lg.created /\ lg.shard[lg.head].active
  BY DEF Sound, Typed, HeadIsYoungest, ShardId
<1>4. Walk(lg, who) = Verdict(lg, who, lg.head)
  BY <1>1, <1>2, <1>3, WalkIsChosen, WalksAgree
<1>5. \A j \in ShardId : lg.shard[j].active => j <= lg.head
  BY <1>3 DEF Sound, HeadIsYoungest
<1>6. QED BY <1>3, <1>4, <1>5 DEF Verdict, Members

-----------------------------------------------------------------------------
(* Growing the chain by one grant. *)

\* What an accepted grant makes of the ledger.
Grows(lg, after, who) ==
  /\ Sound(after)
  /\ after.refused = FALSE
  /\ after.created = lg.created + 1
  /\ who \notin Members(lg)
  /\ Members(after) = Members(lg) \cup {who}

\* A head with room is replaced by a longer one with the same successor.
LEMMA AddPlayerGrows ==
  ASSUME NEW lg, Sound(lg), ~lg.refused, lg.head # NoShard, lg.created < MaxShards,
         NEW who \in Player, who \notin Members(lg)
  PROVE  Grows(lg, AddPlayer(lg, who), who)
<1> DEFINE h == lg.head
           n == h + 1
           old == lg.shard[h]
           new == [old EXCEPT !.players = @ \cup {who}]
           after == AddPlayer(lg, who)
<1>1. /\ h \in ShardId /\ h = lg.created /\ old.active /\ n \in ShardId /\ h < n
      /\ \A i \in ShardId : lg.shard[i].active => i <= h
  BY RosterAssumption DEF Sound, Typed, HeadIsYoungest, ShardId, RosterAssumption
<1>2. old \in PlayerRoster
  BY <1>1, ActiveShard DEF Sound
<1>3. /\ new \in PlayerRoster /\ new.active /\ new.next = old.next
      /\ new.shardIndex = old.shardIndex /\ new.players = old.players \cup {who}
  BY <1>1, <1>2 DEF PlayerRoster
<1> HIDE DEF new
<1>4. after = [lg EXCEPT !.shard = [[lg.shard EXCEPT ![h].active = FALSE] EXCEPT ![n] = new],
                         !.created = n, !.head = n]
  BY <1>1 DEF AddPlayer, CreateShard, Sound, Typed, new
<1>5. /\ after.head = n /\ after.created = n /\ after.refused = FALSE
      /\ after.shard[n] = new
      /\ ~after.shard[h].active
      /\ \A i \in ShardId \ {h, n} : after.shard[i] = lg.shard[i]
  BY <1>1, <1>2, <1>4 DEF Sound, Typed, PlayerRoster
<1>6. Typed(after)
  <2>1. [lg.shard EXCEPT ![h].active = FALSE] \in [ShardId -> PlayerRoster \cup {Unborn}]
    <3>1. [old EXCEPT !.active = FALSE] \in PlayerRoster
      BY <1>2 DEF PlayerRoster
    <3>2. QED BY <1>1, <3>1 DEF Sound, Typed
  <2>2. n \in 0 .. MaxShards
    BY <1>1, RosterAssumption DEF ShardId, RosterAssumption
  <2>3. QED BY <1>1, <1>3, <1>4, <2>1, <2>2 DEF Sound, Typed
<1> HIDE DEF after
<1>7. \A i \in ShardId : after.shard[i].active <=> i = n \/ (i # h /\ lg.shard[i].active)
  BY <1>1, <1>3, <1>5
<1>8. HeadIsYoungest(after)
  BY <1>1, <1>5, <1>7 DEF HeadIsYoungest, ShardId
<1>9. LinksGoBack(after)
  <2>1. ASSUME NEW i \in ShardId, after.shard[i].active, after.shard[i].next = NoShard
        PROVE  \A j \in ShardId : after.shard[j].active => i <= j
    <3>1. CASE i = n
      <4>1. \A j \in ShardId : lg.shard[j].active => h <= j
        BY <2>1, <3>1, <1>1, <1>3, <1>5 DEF Sound, LinksGoBack
      <4>2. \A j \in ShardId : lg.shard[j].active => j = h
        BY <4>1, <1>1 DEF ShardId
      <4>3. QED BY <3>1, <4>2, <1>1, <1>7 DEF ShardId
    <3>2. CASE i # n
      <4>1. i # h /\ lg.shard[i].active /\ after.shard[i] = lg.shard[i]
        BY <2>1, <3>2, <1>5, <1>7
      <4>2. \A j \in ShardId : lg.shard[j].active => i <= j
        BY <2>1, <4>1 DEF Sound, LinksGoBack
      <4>3. i <= n
        BY <4>2, <1>1 DEF ShardId
      <4>4. QED BY <4>2, <4>3, <1>7
    <3>3. QED BY <3>1, <3>2
  <2>2. ASSUME NEW i \in ShardId, after.shard[i].active, after.shard[i].next # NoShard
        PROVE  LET m == after.shard[i].next
               IN  /\ m < i /\ after.shard[m].active
                   /\ \A j \in ShardId : after.shard[j].active => j <= m \/ i <= j
                   /\ after.shard[i].shardIndex = after.shard[m].shardIndex + 1
                   /\ ~HasRoom(after.shard[m])
    <3> DEFINE k == IF i = n THEN h ELSE i
               m == lg.shard[k].next
    <3>1. /\ k \in ShardId /\ lg.shard[k].active
          /\ after.shard[i].next = m
          /\ after.shard[i].shardIndex = lg.shard[k].shardIndex
          /\ k <= h /\ (i # n => i = k /\ i # h)
      BY <2>2, <1>1, <1>3, <1>5, <1>7
    <3> HIDE DEF k
    <3>2. m \in ShardId
      BY <2>2, <3>1, ActiveShard DEF Sound, PlayerRoster
    <3>3. /\ m < k /\ lg.shard[m].active
          /\ \A j \in ShardId : lg.shard[j].active => j <= m \/ k <= j
          /\ lg.shard[k].shardIndex = lg.shard[m].shardIndex + 1
          /\ ~HasRoom(lg.shard[m])
      BY <2>2, <3>1 DEF Sound, LinksGoBack
    <3>4. m # h /\ m # n
      BY <1>1, <3>1, <3>2, <3>3 DEF ShardId
    <3>5. after.shard[m] = lg.shard[m]
      BY <3>2, <3>4, <1>5
    <3>6. m < i
      BY <1>1, <3>1, <3>2, <3>3 DEF ShardId
    <3>7. ASSUME NEW j \in ShardId, after.shard[j].active PROVE j <= m \/ i <= j
      <4>1. CASE j = n
        <5>1. i <= n
          BY <1>1, <1>7, <2>2 DEF ShardId
        <5>2. QED BY <4>1, <5>1
      <4>2. CASE j # n
        <5>1. lg.shard[j].active /\ j # h
          BY <3>7, <4>2, <1>7
        <5>2. j <= h /\ (j <= m \/ k <= j)
          BY <5>1, <3>3, <1>1
        <5>3. QED BY <5>1, <5>2, <1>1, <3>1 DEF ShardId, k
      <4>3. QED BY <4>1, <4>2
    <3>8. QED BY <3>1, <3>3, <3>5, <3>6, <3>7
  <2>3. QED BY <2>1, <2>2 DEF LinksGoBack
<1>10. Disjoint(after)
  <2>1. \A i \in ShardId : lg.shard[i].active => who \notin lg.shard[i].players
    BY DEF Members
  <2>2. ASSUME NEW i \in ShardId, i # n, after.shard[i].active
        PROVE  after.shard[i].players \cap new.players = {}
    <3>1. i # h /\ lg.shard[i].active /\ after.shard[i] = lg.shard[i]
      BY <2>2, <1>5, <1>7
    <3>2. lg.shard[i].players \cap old.players = {}
      BY <3>1, <1>1 DEF Sound, Disjoint
    <3>3. QED BY <3>1, <3>2, <2>1, <1>3
  <2>3. ASSUME NEW i \in ShardId, NEW j \in ShardId, i # j,
               after.shard[i].active, after.shard[j].active
        PROVE  after.shard[i].players \cap after.shard[j].players = {}
    <3>1. CASE i # n /\ j # n
      BY <2>3, <3>1, <1>5, <1>7 DEF Sound, Disjoint
    <3>2. CASE i = n
      BY <2>2, <2>3, <3>2, <1>5
    <3>3. CASE j = n
      BY <2>2, <2>3, <3>3, <1>5
    <3>4. QED BY <3>1, <3>2, <3>3
  <2>4. QED BY <2>3 DEF Disjoint
<1>11. Members(after) = Members(lg) \cup {who}
  <2>1. ASSUME NEW p \in Player
        PROVE  p \in Members(after) <=> p \in Members(lg) \/ p = who
    <3>1. ASSUME NEW i \in ShardId, after.shard[i].active, p \in after.shard[i].players
          PROVE  p \in Members(lg) \/ p = who
      <4>1. CASE i = n
        BY <3>1, <4>1, <1>1, <1>3, <1>5 DEF Members
      <4>2. CASE i # n
        BY <3>1, <4>2, <1>5, <1>7 DEF Members
      <4>3. QED BY <4>1, <4>2
    <3>2. ASSUME NEW i \in ShardId, lg.shard[i].active, p \in lg.shard[i].players
          PROVE  p \in Members(after)
      <4>1. CASE i = h
        BY <3>2, <4>1, <1>1, <1>3, <1>5, <1>7 DEF Members
      <4>2. CASE i # h
        <5>1. i # n
          BY <3>2, <1>1 DEF ShardId
        <5>2. QED BY <3>2, <4>2, <5>1, <1>5, <1>7 DEF Members
      <4>3. QED BY <4>1, <4>2
    <3>3. who \in Members(after)
      BY <1>1, <1>3, <1>5, <1>7 DEF Members
    <3>4. QED BY <3>1, <3>2, <3>3 DEF Members
  <2>2. QED BY <2>1 DEF Members
<1>12. QED BY <1>1, <1>5, <1>6, <1>8, <1>9, <1>10, <1>11 DEF Grows, Sound, after

\* A full head stays, and a new one points at it.
LEMMA AddShardGrows ==
  ASSUME NEW lg, Sound(lg), ~lg.refused, lg.head # NoShard, lg.created < MaxShards,
         NEW who \in Player, who \notin Members(lg), ~HasRoom(lg.shard[lg.head])
  PROVE  Grows(lg, AddShard(lg, who), who)
<1> DEFINE h == lg.head
           n == h + 1
           old == lg.shard[h]
           new == [ active |-> TRUE, capacity |-> old.capacity,
                    shardIndex |-> old.shardIndex + 1, players |-> {who}, next |-> h ]
           after == AddShard(lg, who)
<1>1. /\ h \in ShardId /\ h = lg.created /\ old.active /\ n \in ShardId /\ h < n
      /\ h # NoShard
      /\ \A i \in ShardId : lg.shard[i].active => i <= h
  BY RosterAssumption DEF Sound, Typed, HeadIsYoungest, ShardId, RosterAssumption
<1>2. old \in PlayerRoster
  BY <1>1, ActiveShard DEF Sound
<1>3. /\ new \in PlayerRoster /\ new.active /\ new.next = h
      /\ new.shardIndex = old.shardIndex + 1 /\ new.players = {who}
  BY <1>1, <1>2 DEF PlayerRoster
<1> HIDE DEF new
<1>4. after = [lg EXCEPT !.shard = [lg.shard EXCEPT ![n] = new], !.created = n, !.head = n]
  BY <1>1 DEF AddShard, CreateShard, Sound, Typed, new
<1>5. /\ after.head = n /\ after.created = n /\ after.refused = FALSE
      /\ after.shard[n] = new
      /\ \A i \in ShardId \ {n} : after.shard[i] = lg.shard[i]
  BY <1>1, <1>4 DEF Sound, Typed
<1>6. Typed(after)
  <2>1. n \in 0 .. MaxShards
    BY <1>1, RosterAssumption DEF ShardId, RosterAssumption
  <2>2. [lg.shard EXCEPT ![n] = new] \in [ShardId -> PlayerRoster \cup {Unborn}]
    BY <1>1, <1>3 DEF Sound, Typed
  <2>3. QED BY <1>1, <1>4, <2>1, <2>2 DEF Sound, Typed
<1> HIDE DEF after
<1>7. \A i \in ShardId : after.shard[i].active <=> i = n \/ lg.shard[i].active
  BY <1>1, <1>3, <1>5
<1>8. HeadIsYoungest(after)
  BY <1>1, <1>5, <1>7 DEF HeadIsYoungest, ShardId
<1>9. LinksGoBack(after)
  <2>1. ASSUME NEW i \in ShardId, after.shard[i].active, after.shard[i].next = NoShard
        PROVE  \A j \in ShardId : after.shard[j].active => i <= j
    <3>1. i # n
      BY <2>1, <1>1, <1>3, <1>5
    <3>2. lg.shard[i].active /\ after.shard[i] = lg.shard[i]
      BY <2>1, <3>1, <1>5, <1>7
    <3>3. \A j \in ShardId : lg.shard[j].active => i <= j
      BY <2>1, <3>2 DEF Sound, LinksGoBack
    <3>4. i <= n
      BY <3>3, <1>1 DEF ShardId
    <3>5. QED BY <3>3, <3>4, <1>7
  <2>2. ASSUME NEW i \in ShardId, after.shard[i].active, after.shard[i].next # NoShard
        PROVE  LET m == after.shard[i].next
               IN  /\ m < i /\ after.shard[m].active
                   /\ \A j \in ShardId : after.shard[j].active => j <= m \/ i <= j
                   /\ after.shard[i].shardIndex = after.shard[m].shardIndex + 1
                   /\ ~HasRoom(after.shard[m])
    <3>1. CASE i = n
      <4>1. after.shard[i].next = h /\ after.shard[h] = lg.shard[h]
        BY <3>1, <1>1, <1>3, <1>5 DEF ShardId
      <4>2. \A j \in ShardId : after.shard[j].active => j <= h \/ i <= j
        BY <3>1, <1>1, <1>7 DEF ShardId
      <4>3. QED BY <3>1, <4>1, <4>2, <1>1, <1>3, <1>5
    <3>2. CASE i # n
      <4> DEFINE m == lg.shard[i].next
      <4>1. lg.shard[i].active /\ after.shard[i] = lg.shard[i]
        BY <2>2, <3>2, <1>5, <1>7
      <4>2. m \in ShardId
        BY <2>2, <4>1, ActiveShard DEF Sound, PlayerRoster
      <4>3. /\ m < i /\ lg.shard[m].active
            /\ \A j \in ShardId : lg.shard[j].active => j <= m \/ i <= j
            /\ lg.shard[i].shardIndex = lg.shard[m].shardIndex + 1
            /\ ~HasRoom(lg.shard[m])
        BY <2>2, <4>1 DEF Sound, LinksGoBack
      <4>4. i <= n /\ m # n
        BY <1>1, <4>1, <4>2, <4>3 DEF ShardId
      <4>5. after.shard[m] = lg.shard[m]
        BY <4>2, <4>4, <1>5
      <4>6. QED BY <4>1, <4>3, <4>4, <4>5, <1>7
    <3>3. QED BY <3>1, <3>2
  <2>3. QED BY <2>1, <2>2 DEF LinksGoBack
<1>10. Disjoint(after)
  <2>1. \A i \in ShardId : lg.shard[i].active => who \notin lg.shard[i].players
    BY DEF Members
  <2>2. ASSUME NEW i \in ShardId, NEW j \in ShardId, i # j,
               after.shard[i].active, after.shard[j].active
        PROVE  after.shard[i].players \cap after.shard[j].players = {}
    <3>1. CASE i # n /\ j # n
      BY <2>2, <3>1, <1>5, <1>7 DEF Sound, Disjoint
    <3>2. CASE i = n
      BY <2>1, <2>2, <3>2, <1>3, <1>5, <1>7
    <3>3. CASE j = n
      BY <2>1, <2>2, <3>3, <1>3, <1>5, <1>7
    <3>4. QED BY <3>1, <3>2, <3>3
  <2>3. QED BY <2>2 DEF Disjoint
<1>11. Members(after) = Members(lg) \cup {who}
  <2>1. ~lg.shard[n].active
    BY <1>1 DEF ShardId
  <2>2. ASSUME NEW p \in Player
        PROVE  p \in Members(after) <=> p \in Members(lg) \/ p = who
    BY <2>1, <1>1, <1>3, <1>5, <1>7 DEF Members
  <2>3. QED BY <2>2 DEF Members
<1>12. QED BY <1>1, <1>5, <1>6, <1>8, <1>9, <1>10, <1>11 DEF Grows, Sound, after

\* A grant that is not refused is for a player the roster did not have, and
\* adds that player alone.
LEMMA GrantGrows ==
  ASSUME NEW lg, Sound(lg), lg.head # NoShard, lg.created < MaxShards,
         NEW who \in Player, ~Grant(lg, who).refused
  PROVE  ~lg.refused /\ Grows(lg, Grant(lg, who), who)
<1>1. Refused(lg).refused
  BY DEF Refused, Sound, Typed
<1>2. ~lg.refused /\ Walk(lg, who) = "absent"
  BY <1>1 DEF Grant
<1>3. who \notin Members(lg)
  BY <1>2, WalkFinds
<1>4. CASE HasRoom(lg.shard[lg.head])
  BY <1>2, <1>3, <1>4, AddPlayerGrows DEF Grant
<1>5. CASE ~HasRoom(lg.shard[lg.head])
  BY <1>2, <1>3, <1>5, AddShardGrows DEF Grant
<1>6. QED BY <1>4, <1>5

-----------------------------------------------------------------------------
(* A batch of grants. *)

\* The equation of a batch, for a function of the grants done.
IsBatch(grants, f) ==
  f = [n \in 0 .. Len(grants) |-> IF n = 0 THEN Current ELSE Grant(f[n - 1], grants[n])]

\* The first n steps of it.
IsPrefix(grants, n, f) ==
  f = [k \in 0 .. n |-> IF k = 0 THEN Current ELSE Grant(f[k - 1], grants[k])]

LEMMA IssueIsChosen ==
  ASSUME NEW grants
  PROVE  IssueSlots(grants) = (CHOOSE f : IsBatch(grants, f))[Len(grants)]
BY DEF IssueSlots, IsBatch

\* The equation has a solution, grant by grant.
LEMMA PrefixExists ==
  ASSUME NEW grants, NEW n \in Nat
  PROVE  \E f : IsPrefix(grants, n, f)
<1> DEFINE S == {k \in Nat : \E f : IsPrefix(grants, k, f)}
<1>1. 0 \in S
  <2> DEFINE f == [k \in 0 .. 0 |-> Current]
  <2>1. IsPrefix(grants, 0, f)
    BY DEF IsPrefix
  <2>2. QED BY <2>1
<1>2. ASSUME NEW k \in Nat, k \in S PROVE k + 1 \in S
  <2>1. PICK f : IsPrefix(grants, k, f)
    BY <1>2
  <2> DEFINE g == [j \in 0 .. k + 1 |-> IF j = k + 1 THEN Grant(f[k], grants[k + 1]) ELSE f[j]]
  <2>2. ASSUME NEW j \in 0 .. k + 1
        PROVE  g[j] = IF j = 0 THEN Current ELSE Grant(g[j - 1], grants[j])
    <3>1. CASE j = k + 1
      BY <3>1
    <3>2. CASE j \in 0 .. k
      <4>1. f[j] = IF j = 0 THEN Current ELSE Grant(f[j - 1], grants[j])
        BY <2>1, <3>2 DEF IsPrefix
      <4>2. g[j] = f[j] /\ (j # 0 => g[j - 1] = f[j - 1])
        BY <3>2
      <4> HIDE DEF g
      <4>3. QED BY <4>1, <4>2
    <3>3. QED BY <3>1, <3>2
  <2>3. IsPrefix(grants, k + 1, g)
    BY <2>2 DEF IsPrefix
  <2>4. QED BY <2>3
<1> HIDE DEF S
<1>3. Nat \subseteq S
  BY <1>1, <1>2, NatInductionSet
<1>4. QED BY <1>3 DEF S

LEMMA BatchExists ==
  ASSUME NEW grants, Len(grants) \in Nat
  PROVE  LET f == CHOOSE f : IsBatch(grants, f)
         IN  /\ f[0] = Current
             /\ \A n \in 1 .. Len(grants) : f[n] = Grant(f[n - 1], grants[n])
<1>1. PICK g : IsPrefix(grants, Len(grants), g)
  BY PrefixExists
<1>2. IsBatch(grants, g)
  BY <1>1 DEF IsPrefix, IsBatch
<1>3. PICK f : f = CHOOSE h : IsBatch(grants, h)
  OBVIOUS
<1>4. IsBatch(grants, f)
  BY <1>2, <1>3
<1>5. \A n \in 0 .. Len(grants) : f[n] = IF n = 0 THEN Current ELSE Grant(f[n - 1], grants[n])
  BY <1>4 DEF IsBatch
<1>6. QED BY <1>3, <1>5

\* A refused batch stays refused; a grant on a sound ledger is refused or
\* grows it.
LEMMA RefusalLasts ==
  ASSUME NEW lg, Typed(lg), NEW who, Grant(lg, who) = Refused(lg)
  PROVE  Typed(Grant(lg, who)) /\ Grant(lg, who).refused
BY DEF Typed, Refused

LEMMA GrantGrowsOrRefuses ==
  ASSUME NEW lg, Sound(lg), lg.head # NoShard, lg.created < MaxShards, NEW who \in Player
  PROVE  \/ Grows(lg, Grant(lg, who), who) /\ ~lg.refused
         \/ Typed(Grant(lg, who)) /\ Grant(lg, who).refused
<1>1. CASE lg.refused \/ Walk(lg, who) # "absent"
  BY <1>1, RefusalLasts DEF Grant, Sound
<1>2. CASE ~Grant(lg, who).refused
  BY <1>2, GrantGrows
<1>3. CASE ~lg.refused /\ Walk(lg, who) = "absent"
  <2>1. who \notin Members(lg)
    BY <1>3, WalkFinds
  <2>2. QED BY <1>3, <2>1, AddPlayerGrows, AddShardGrows DEF Grant
<1>4. QED BY <1>1, <1>3

\* A batch that no grant refuses is for players the roster did not have, one
\* grant each, and adds them and no others.
LEMMA BatchGrows ==
  ASSUME IInv, head # NoShard, NEW grants, NEW len \in Nat,
         grants \in [1 .. len -> Player], created + len <= MaxShards,
         ~IssueSlots(grants).refused
  PROVE  LET lg == IssueSlots(grants)
             batch == {grants[n] : n \in 1 .. len}
         IN  /\ Sound(lg)
             /\ Members(lg) = Members(Current) \cup batch
             /\ Members(Current) \cap batch = {}
<1>1. Len(grants) = len
  OBVIOUS
<1>2. PICK f : /\ f[len] = IssueSlots(grants)
               /\ f[0] = Current
               /\ \A n \in 1 .. len : f[n] = Grant(f[n - 1], grants[n])
  BY <1>1, BatchExists, IssueIsChosen
<1> DEFINE Done(n) == {grants[k] : k \in 1 .. n}
           Good(lg, n) == /\ Sound(lg) /\ lg.refused = FALSE /\ lg.head # NoShard
                          /\ lg.created = created + n
                          /\ Members(lg) = Members(Current) \cup Done(n)
                          /\ Members(Current) \cap Done(n) = {}
           S == {n \in Nat : n <= len =>
                   Good(f[n], n) \/ (Typed(f[n]) /\ f[n].refused)}
<1>3. 0 \in S
  <2>1. Done(0) = {}
    OBVIOUS
  <2>2. Good(Current, 0)
    <3>1. Sound(Current) /\ Current.refused = FALSE /\ Current.head = head
          /\ Current.created = created + 0
      BY DEF IInv, Current, Sound, Typed
    <3>2. QED BY <2>1, <3>1
  <2>3. QED BY <1>2, <2>2
<1> HIDE DEF Good, Done
<1>4. ASSUME NEW n \in Nat, n \in S PROVE n + 1 \in S
  <2> DEFINE who == grants[n + 1]
  <2> SUFFICES ASSUME n + 1 <= len
               PROVE  \/ Good(f[n + 1], n + 1)
                      \/ Typed(f[n + 1]) /\ f[n + 1].refused
    OBVIOUS
  <2>1. f[n + 1] = Grant(f[n], who) /\ who \in Player
    BY <1>2
  <2>2. CASE Typed(f[n]) /\ f[n].refused
    BY <2>1, <2>2, RefusalLasts DEF Grant
  <2>3. CASE Good(f[n], n)
    <3>1. f[n].created < MaxShards
      BY <2>3, RosterAssumption DEF Good, IInv, Sound, Typed, Current, RosterAssumption
    <3>2. CASE Typed(f[n + 1]) /\ f[n + 1].refused
      BY <3>2
    <3>3. CASE Grows(f[n], f[n + 1], who)
      <4>1. Done(n + 1) = Done(n) \cup {who}
        BY DEF Done
      <4>2. f[n + 1].head # NoShard
        BY <2>3, <3>3, RosterAssumption
        DEF Good, Grows, Sound, HeadIsYoungest, Typed, RosterAssumption, ShardId, IInv, Current
      <4>3. f[n + 1].created = created + (n + 1)
        BY <2>3, <3>3 DEF Good, Grows, IInv, Sound, Typed, Current
      <4>4. QED BY <2>3, <3>3, <4>1, <4>2, <4>3 DEF Good, Grows
    <3>4. QED BY <2>1, <2>3, <3>1, <3>2, <3>3, GrantGrowsOrRefuses DEF Good
  <2>4. QED BY <1>4, <2>2, <2>3
<1> HIDE DEF S
<1>5. len \in S
  BY <1>3, <1>4, NatInductionSet
<1>6. Good(f[len], len)
  BY <1>2, <1>5 DEF S
<1>7. QED BY <1>2, <1>6 DEF Good, Done

-----------------------------------------------------------------------------
(* The theorems. *)

LEMMA RosterInit == Init => IInv
BY RosterAssumption
DEF Init, IInv, Current, Sound, Typed, HeadIsYoungest, LinksGoBack, Disjoint, Unborn, ShardId,
    RosterAssumption

\* The ledger of the next state is the one a transaction works out.
LEMMA NextLedger ==
  ASSUME NEW lg, Typed(lg), lg.refused = FALSE,
         head' = lg.head, shard' = lg.shard, created' = lg.created
  PROVE  Current' = lg
BY DEF Typed, Current

\* The first shard: empty, and alone.
LEMMA InitRosterKeeps ==
  ASSUME IInv, NEW capacity \in Capacities, InitRoster(capacity)
  PROVE  IInv' /\ Members(Current)' = {} /\ Members(Current) = {}
<1> DEFINE s == [ active |-> TRUE, capacity |-> capacity, shardIndex |-> 0,
                  players |-> {}, next |-> NoShard ]
           lg == CreateShard(Current, s)
<1>1. s \in PlayerRoster /\ s.active /\ s.next = NoShard /\ s.players = {}
  BY DEF PlayerRoster
<1> HIDE DEF s
<1>2. created = 0 /\ 1 \in ShardId /\ 1 # NoShard
      /\ \A i \in ShardId : ~shard[i].active
  BY RosterAssumption
  DEF InitRoster, IInv, Sound, Typed, HeadIsYoungest, Current, ShardId, RosterAssumption
<1>3. shard \in [ShardId -> PlayerRoster \cup {Unborn}]
  BY DEF IInv, Sound, Typed, Current
<1>4. head' = lg.head /\ shard' = lg.shard /\ created' = lg.created
  BY DEF InitRoster, s
<1>5. head' = 1 /\ created' = 1 /\ shard' = [shard EXCEPT ![1] = s]
  BY <1>2, <1>4 DEF CreateShard, Current
<1>6. /\ shard' \in [ShardId -> PlayerRoster \cup {Unborn}]
      /\ shard'[1] = s
      /\ \A i \in ShardId : shard'[i].active <=> i = 1
  BY <1>1, <1>2, <1>3, <1>5
<1>7. Typed(Current)'
  <2>1. 1 \in 0 .. MaxShards
    BY <1>2, RosterAssumption DEF ShardId, RosterAssumption
  <2>2. QED BY <2>1, <1>2, <1>5, <1>6 DEF Typed, Current
<1>8. HeadIsYoungest(Current)'
  BY <1>5, <1>6 DEF HeadIsYoungest, Current
<1>9. LinksGoBack(Current)' /\ Disjoint(Current)'
  BY <1>1, <1>6 DEF LinksGoBack, Disjoint, Current
<1>10. Members(Current)' = {} /\ Members(Current) = {}
  BY <1>1, <1>2, <1>6 DEF Members, Current
<1>11. QED BY <1>7, <1>8, <1>9, <1>10 DEF IInv, Sound

\* A batch: everyone in it is new to the roster and on it from now on.
LEMMA IssueKeeps ==
  ASSUME IInv, NEW grants \in Batches, IssueEntitlements(grants)
  PROVE  \E batch \in SUBSET Player :
           /\ IInv' /\ batch # {} /\ Members(Current) \cap batch = {}
           /\ Members(Current)' = Members(Current) \cup batch
<1>1. PICK len \in 1 .. MaxGrants : grants \in [1 .. len -> Player]
  BY DEF Batches
<1> DEFINE lg == IssueSlots(grants)
           batch == {grants[n] : n \in 1 .. len}
<1>2. len \in Nat /\ Len(grants) = len
  BY <1>1, RosterAssumption DEF RosterAssumption
<1>3. /\ head # NoShard /\ created + len <= MaxShards /\ ~lg.refused
      /\ head' = lg.head /\ shard' = lg.shard /\ created' = lg.created
  BY <1>2 DEF IssueEntitlements
<1>4. /\ Sound(lg) /\ Members(lg) = Members(Current) \cup batch
      /\ Members(Current) \cap batch = {}
  BY <1>1, <1>2, <1>3, BatchGrows
<1> HIDE DEF lg
<1>5. Current' = lg
  BY <1>3, <1>4, NextLedger DEF Sound, Typed
<1>6. batch \in SUBSET Player /\ batch # {}
  BY <1>1
<1>7. IInv' /\ Members(Current)' = Members(Current) \cup batch
  BY <1>4, <1>5 DEF IInv
<1> HIDE DEF batch
<1>8. QED BY <1>4, <1>6, <1>7

LEMMA RosterStep == IInv /\ [Next]_vars => IInv'
<1> SUFFICES ASSUME IInv, [Next]_vars PROVE IInv'
  OBVIOUS
<1>1. CASE UNCHANGED vars
  BY <1>1 DEF vars, IInv, Current
<1>2. ASSUME NEW capacity \in Capacities, InitRoster(capacity) PROVE IInv'
  BY <1>2, InitRosterKeeps
<1>3. ASSUME NEW grants \in Batches, IssueEntitlements(grants) PROVE IInv'
  BY <1>3, IssueKeeps
<1>4. QED BY <1>1, <1>2, <1>3 DEF Next

LEMMA RosterInvariant == Spec => []IInv
BY RosterInit, RosterStep, PTL DEF Spec

\* Every shard ever created has the fields of a PlayerRoster and links only to
\* shards of the same venue (Cycle.daml 85-96).
THEOREM RosterTypeCorrect == Spec => []TypeOK
<1>1. IInv => TypeOK
  BY DEF IInv, Sound, Typed, TypeOK, Current
<1>2. QED BY <1>1, RosterInvariant, PTL

\* Whatever the batches, no pointer of the chain goes to an archived shard,
\* the shards behind the head are full and numbered down the chain, and no
\* player is on two of them (Cycle.daml 116-131).
THEOREM ChainStaysWellFormed == Spec => []ChainWellFormed
<1>1. IInv => ChainWellFormed
  BY DEF IInv, Sound, Typed, HeadIsYoungest, LinksGoBack, Disjoint, ChainWellFormed, Current,
         ShardId
<1>2. QED BY <1>1, RosterInvariant, PTL

\* The players a walk finds are the players of the active shards.
LEMMA OnRosterIsMembers == IInv => OnRoster = Members(Current)
<1> SUFFICES ASSUME IInv PROVE OnRoster = Members(Current)
  OBVIOUS
<1>1. CASE head = NoShard
  <2>1. \A i \in ShardId : ~shard[i].active
    BY <1>1, RosterAssumption
    DEF IInv, Sound, Typed, HeadIsYoungest, Current, ShardId, RosterAssumption
  <2>2. QED BY <1>1, <2>1 DEF OnRoster, Members, Current
<1>2. CASE head # NoShard
  <2>1. \A p \in Player : Walk(Current, p) = IF p \in Members(Current) THEN "found" ELSE "absent"
    BY <1>2, WalkFinds DEF IInv, Current
  <2>2. QED BY <1>2, <2>1 DEF OnRoster, Members
<1>3. QED BY <1>1, <1>2

\* The chain of shards implements the set of registered players: an accepted
\* batch registers players no walk had found, all of them are found from then
\* on, and nobody is ever lost (Cycle.daml 58-83).
THEOREM RosterImplements == Spec => ImplementsRegistry
<1>1. Init /\ IInv => Abstract!Init
  <2>1. Init => Members(Current) = {}
    BY DEF Init, Members, Current, Unborn
  <2>2. QED BY <2>1, OnRosterIsMembers DEF Abstract!Init
<1>2. (IInv => OnRoster = Members(Current))'
  BY OnRosterIsMembers, PTL
<1>3. IInv /\ IInv' /\ [Next]_vars => [Abstract!Next]_OnRoster
  <2> SUFFICES ASSUME IInv, IInv', [Next]_vars PROVE [Abstract!Next]_OnRoster
    OBVIOUS
  <2>1. OnRoster = Members(Current)
    BY OnRosterIsMembers
  <2>2. OnRoster' = Members(Current)'
    BY <1>2
  <2>3. CASE UNCHANGED vars
    BY <2>1, <2>2, <2>3 DEF vars, Members, Current
  <2>4. ASSUME NEW capacity \in Capacities, InitRoster(capacity)
        PROVE  OnRoster' = OnRoster
    BY <2>1, <2>2, <2>4, InitRosterKeeps
  <2>5. ASSUME NEW grants \in Batches, IssueEntitlements(grants)
        PROVE  Abstract!Next
    <3>1. PICK batch \in SUBSET Player :
            /\ batch # {} /\ Members(Current) \cap batch = {}
            /\ Members(Current)' = Members(Current) \cup batch
      BY <2>5, IssueKeeps
    <3>2. Abstract!Register(batch)
      BY <2>1, <2>2, <3>1 DEF Abstract!Register
    <3>3. QED BY <3>2 DEF Abstract!Next
  <2>6. QED BY <2>3, <2>4, <2>5 DEF Next
<1>4. QED BY <1>1, <1>3, RosterInvariant, PTL DEF Spec, ImplementsRegistry, Abstract!Spec
=============================================================================
