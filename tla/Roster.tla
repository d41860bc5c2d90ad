------------------------------- MODULE Roster -------------------------------
(***************************************************************************)
(* The roster of a venue (Cycle.daml 85-131, 191-204, 562-613): a linked   *)
(* list of shards, immutable contracts that name the next one.  Growth     *)
(* happens at the head: a head with room is replaced by a longer one with  *)
(* the same successor, a full head is kept and a new head points at it.    *)
(* A batch of grants is one transaction: any refused grant, or any read of *)
(* an archived shard, undoes all of it.                                    *)
(***************************************************************************)
EXTENDS Integers, Sequences, FiniteSets

CONSTANTS
  Player,
  Capacities,     \* the shard capacities an operator may ask for
  NoShard,        \* an absent contract id
  MaxGrants       \* bound: grants of one batch

\* Bound: every grant creates one shard and InitRoster the first one.
CONSTANT MaxShards
ShardId == 1 .. MaxShards

ASSUME RosterAssumption ==
  /\ MaxGrants \in Nat /\ MaxShards \in Nat
  /\ Capacities \subseteq Int
  /\ NoShard \notin ShardId

VARIABLES
  head,       \* GameVenue.roster
  shard,      \* the shards ever created, archived ones included
  created     \* how many of them: contract ids are never reused

vars == <<head, shard, created>>

PlayerRoster ==
  [ active : BOOLEAN, capacity : Capacities, shardIndex : Nat,
    players : SUBSET Player, next : ShardId \cup {NoShard} ]
Unborn == [active |-> FALSE]

TypeOK ==
  /\ head \in ShardId \cup {NoShard}
  /\ shard \in [ShardId -> PlayerRoster \cup {Unborn}]
  /\ created \in 0 .. MaxShards

\* The ledger state a transaction works on; refused marks an aborted one.
Ledger == [head : ShardId \cup {NoShard}, shard : [ShardId -> PlayerRoster \cup {Unborn}],
           created : Nat, refused : BOOLEAN]
Current == [head |-> head, shard |-> shard, created |-> created, refused |-> FALSE]
Refused(lg) == [lg EXCEPT !.refused = TRUE]

-----------------------------------------------------------------------------
\* Roster_Contains walks from a shard to the tail.  Exercising an archived
\* shard aborts the transaction.
Walk(lg, who) ==
  LET walk[i \in ShardId] ==
        IF ~lg.shard[i].active THEN "archived"
        ELSE IF who \in lg.shard[i].players THEN "found"
        ELSE IF lg.shard[i].next = NoShard THEN "absent"
        ELSE walk[lg.shard[i].next]
  IN  walk[lg.head]

CreateShard(lg, s) ==
  [lg EXCEPT !.created = @ + 1, !.shard[lg.created + 1] = s, !.head = lg.created + 1]

\* Roster_AddPlayer: the shard is archived and recreated one player longer.
AddPlayer(lg, who) ==
  LET old == lg.shard[lg.head]
      rest == [lg EXCEPT !.shard[lg.head].active = FALSE]
  IN  CreateShard(rest, [old EXCEPT !.players = @ \cup {who}])

\* Variants for mutation: the full head is archived; shards count downwards;
\* the new head forgets the old one.
AddShardConsuming(lg, who) ==
  LET old == lg.shard[lg.head]
      rest == [lg EXCEPT !.shard[lg.head].active = FALSE]
  IN  CreateShard(rest, [ active |-> TRUE, capacity |-> old.capacity,
                          shardIndex |-> old.shardIndex + 1,
                          players |-> {who}, next |-> lg.head ])

AddShardDownwards(lg, who) ==
  LET old == lg.shard[lg.head]
  IN  CreateShard(lg, [ active |-> TRUE, capacity |-> old.capacity,
                        shardIndex |-> old.shardIndex - 1,
                        players |-> {who}, next |-> lg.head ])

AddShardUnlinked(lg, who) ==
  CreateShard(lg, [ active |-> TRUE, capacity |-> lg.shard[lg.head].capacity,
                    shardIndex |-> lg.shard[lg.head].shardIndex + 1,
                    players |-> {who}, next |-> NoShard ])

\* A full head stays active and becomes the successor of a new one.
AddShard(lg, who) ==
  LET old == lg.shard[lg.head]
  IN  CreateShard(lg, [ active |-> TRUE, capacity |-> old.capacity,
                        shardIndex |-> old.shardIndex + 1,
                        players |-> {who}, next |-> lg.head ])

HasRoom(s) == Cardinality(s.players) < s.capacity

\* One grant: refused for a player already on the roster.
Grant(lg, who) ==
  IF lg.refused \/ Walk(lg, who) # "absent" THEN Refused(lg)
  ELSE IF HasRoom(lg.shard[lg.head]) THEN AddPlayer(lg, who)
  ELSE AddShard(lg, who)

\* issueSlots: the grants of a batch, in order, each seeing the one before.
IssueSlots(grants) ==
  LET after[n \in 0 .. Len(grants)] ==
        IF n = 0 THEN Current ELSE Grant(after[n - 1], grants[n])
  IN  after[Len(grants)]

-----------------------------------------------------------------------------
Init ==
  /\ head = NoShard
  /\ shard = [i \in ShardId |-> Unborn]
  /\ created = 0

InitRoster(capacity) ==
  /\ head = NoShard
  /\ created < MaxShards
  /\ capacity > 0
  /\ LET lg == CreateShard(Current,
                 [ active |-> TRUE, capacity |-> capacity, shardIndex |-> 0,
                   players |-> {}, next |-> NoShard ])
     IN  head' = lg.head /\ shard' = lg.shard /\ created' = lg.created

IssueEntitlements(grants) ==
  /\ head # NoShard
  /\ created + Len(grants) <= MaxShards
  /\ ~IssueSlots(grants).refused
  /\ LET lg == IssueSlots(grants)
     IN  head' = lg.head /\ shard' = lg.shard /\ created' = lg.created

Batches == UNION {[1 .. n -> Player] : n \in 1 .. MaxGrants}

Next ==
  \/ \E capacity \in Capacities : InitRoster(capacity)
  \/ \E grants \in Batches : IssueEntitlements(grants)

Spec == Init /\ [][Next]_vars

-----------------------------------------------------------------------------
\* The players a walk finds.
OnRoster == {p \in Player : head # NoShard /\ Walk(Current, p) = "found"}

\* Growing the roster leaves no pointer to an archived shard, neither the
\* venue's to the head nor a shard's to the next (Cycle.daml 116-131), though
\* every grant of a batch archives the head and makes another.  Shards behind
\* the head are full and number themselves down the chain, and no player is on
\* two of them, so a walk of the chain sees every registration once.
ChainWellFormed ==
  /\ head # NoShard => shard[head].active
  /\ \A i \in ShardId : shard[i].active =>
       /\ shard[i].next # NoShard =>
            /\ shard[shard[i].next].active
            /\ shard[i].shardIndex = shard[shard[i].next].shardIndex + 1
            /\ ~HasRoom(shard[shard[i].next])
       /\ \A j \in ShardId \ {i} : shard[j].active =>
            shard[i].players \cap shard[j].players = {}

Abstract == INSTANCE SlotRegistry WITH registered <- OnRoster

\* The chain of shards implements the set of registered players: a batch is
\* accepted only for players a walk did not find, and all of them are found by
\* every later walk (Cycle.daml 58-83).
ImplementsRegistry == Abstract!Spec
=============================================================================
