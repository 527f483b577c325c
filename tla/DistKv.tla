------------------------------- MODULE DistKv -------------------------------
(***************************************************************************)
(* dist-kv with its data: for each partition a replication group           *)
(* (replication.c) of a raft group (raft_group.c) and an in-memory store   *)
(* (storage_adapter.c), and the client that routes calls to them           *)
(* (client.c) when the failover manager of Cluster lets it.                *)
(*                                                                         *)
(* The raft group is the simplified one of the source: a group without     *)
(* peers leads and commits at once; with peers it sends nothing, wins no   *)
(* election, and an entry its leader appends stays uncommitted.  Terms,    *)
(* votes and the leader's id are written there and never read, and are     *)
(* left out; so are failed allocations.  A key is given by its hash.       *)
(* The store does have an end: its slots are doubled from 64 while they    *)
(* stay within MAX_ENTRIES, and the status of an entry that finds no slot  *)
(* is dropped by raft_group_propose.                                       *)
(***************************************************************************)
EXTENDS Cluster

CONSTANTS
    Key,      \* keys, by their hash
    Value,
    Absent,   \* no value: the NOT_FOUND of a read
    Peer,     \* the nodes that are made peers of a group
    Slots     \* the most slots a store grows to

ASSUME KeyAssumption ==
    /\ Key \subseteq Nat /\ Absent \notin Value /\ Peer \subseteq Node
    /\ Slots \in Nat
    /\ {"PARTITION", "NOT_LEADER"} \cap (Value \cup {Absent}) = {}

VARIABLES
    group,   \* per partition: peers, role, log, commit_index, last_applied, entries
    acked    \* history, per partition: what its keys hold after all the writes that
             \* were acknowledged, and after those no peer had to agree to

vars == <<clusterVars, group, acked>>

\* coordinator_get_partition.
PartitionOf(k) == k % NumPartitions

-----------------------------------------------------------------------------
(* The store of a partition: slots, of which the deleted ones stay. *)

\* find_entry; 0 for the code's -1.
FindEntry(entries, k) ==
    LET at == {i \in DOMAIN entries : entries[i].key = k /\ ~entries[i].deleted}
    IN  IF at = {} THEN 0 ELSE CHOOSE i \in at : \A j \in at : i <= j

\* storage_adapter_put: NOMEM, and no change, when a new key finds no slot.
PutEntry(entries, k, v) ==
    LET i == FindEntry(entries, k)
    IN  IF i # 0 THEN [entries EXCEPT ![i].value = v]
        ELSE IF Len(entries) >= Slots THEN entries
        ELSE Append(entries, [key |-> k, value |-> v, deleted |-> FALSE])

\* storage_adapter_delete: the slot's memory is freed, the slot is not used again.
DeleteEntry(entries, k) ==
    LET i == FindEntry(entries, k)
    IN  IF i = 0 THEN entries ELSE [entries EXCEPT ![i].deleted = TRUE]

\* storage_adapter_get.
GetEntry(entries, k) ==
    LET i == FindEntry(entries, k) IN IF i = 0 THEN Absent ELSE entries[i].value

-----------------------------------------------------------------------------
(* The replication group. *)

\* The operations the log holds: OP_PUT with its value, OP_DELETE with none.
Op == [key : Key, value : Value \cup {Absent}]

\* apply_entry.
ApplyEntry(entries, op) ==
    IF op.value = Absent THEN DeleteEntry(entries, op.key)
                         ELSE PutEntry(entries, op.key, op.value)

\* Mutant: only the entry that was just proposed is applied.
ProposeAppliesLast(g, op) ==
    LET log == Append(g.log, op)
    IN  IF g.peers # {} THEN [g EXCEPT !.log = log]
        ELSE [g EXCEPT !.log = log, !.commit = Len(log), !.applied = Len(log),
                       !.entries = ApplyEntry(@, op)]

\* Mutant: the entry is committed and nothing applied.
ProposeCommits(g, op) ==
    [g EXCEPT !.log = Append(@, op), !.commit = IF g.peers = {} THEN Len(g.log) + 1 ELSE @]

\* The loop of raft_group_propose that applies what is committed and not applied yet.
Applied(entries, ops) ==
    LET done[i \in 0 .. Len(ops)] ==
            IF i = 0 THEN entries ELSE ApplyEntry(done[i - 1], ops[i])
    IN  done[Len(ops)]

\* raft_group_propose, on the leader: without peers everything that is not applied
\* yet is committed and applied, in order.
Propose(g, op) ==
    LET log == Append(g.log, op)
    IN  IF g.peers # {} THEN [g EXCEPT !.log = log]
        ELSE [g EXCEPT !.log = log, !.commit = Len(log), !.applied = Len(log),
                       !.entries = Applied(@, SubSeq(log, g.applied + 1, Len(log)))]

\* raft_group_create with storage_adapter_create: replication_create.
NewGroup == [peers |-> {}, role |-> "FOLLOWER", log |-> <<>>,
             commit |-> 0, applied |-> 0, entries |-> <<>>]

\* replication_tick: a follower without peers leads.
GroupTick(p) ==
    /\ group[p].peers = {} /\ group[p].role = "FOLLOWER"
    /\ group' = [group EXCEPT ![p].role = "LEADER"]
    /\ UNCHANGED <<clusterVars, acked>>

\* replication_trigger_election: with peers even a leader becomes a candidate.
TriggerElection(p) ==
    /\ Spend("peer")
    /\ group' = [group EXCEPT ![p].role = IF group[p].peers = {} THEN "LEADER" ELSE "CANDIDATE"]
    /\ UNCHANGED <<hash, ring, parts, member, up, reports, blind, acked>>

\* replication_add_peer, replication_remove_peer.
AddPeer(p, n) ==
    /\ Spend("peer")
    /\ n \notin group[p].peers
    /\ group' = [group EXCEPT ![p].peers = @ \cup {n}]
    /\ UNCHANGED <<hash, ring, parts, member, up, reports, blind, acked>>

RemovePeer(p, n) ==
    /\ n \in group[p].peers
    /\ group' = [group EXCEPT ![p].peers = @ \ {n}]
    /\ UNCHANGED <<clusterVars, acked>>

-----------------------------------------------------------------------------
(* The client.  A call that is refused (READONLY, NOT_LEADER after the retries,  *)
(* which nothing can change while they run) leaves everything as it is.          *)

\* dkv_client_put and dkv_client_delete reach replication_put or _delete and these
\* propose.
Accepts(gs, k) ==
    Writable(PartitionOf(k)) /\ gs[PartitionOf(k)].role = "LEADER"

Written(gs, op) == [gs EXCEPT ![PartitionOf(op.key)] = Propose(@, op)]

\* History: op was acknowledged.
Acknowledged(a, op) ==
    LET p   == PartitionOf(op.key)
        all == [a[p].all EXCEPT ![op.key] = op.value]
    IN  [a EXCEPT ![p] = [all |-> all, agreed |-> IF group[p].peers = {} THEN all ELSE @.agreed]]

\* dkv_client_put.
Put(k, v) ==
    /\ Spend("call")
    /\ Accepts(group, k)
    /\ group' = Written(group, [key |-> k, value |-> v])
    /\ acked' = Acknowledged(acked, [key |-> k, value |-> v])
    /\ UNCHANGED <<hash, ring, parts, member, up, reports, blind>>

\* dkv_client_delete.
Delete(k) ==
    /\ Spend("call")
    /\ Accepts(group, k)
    /\ group' = Written(group, [key |-> k, value |-> Absent])
    /\ acked' = Acknowledged(acked, [key |-> k, value |-> Absent])
    /\ UNCHANGED <<hash, ring, parts, member, up, reports, blind>>

\* dkv_client_batch_put of two pairs: the first failure ends it, and what came before
\* it stays.
BatchPut(a, b) ==
    /\ Spend("call")
    /\ Accepts(group, a.key)
    /\ \/ /\ ~Accepts(group, b.key)
          /\ group' = Written(group, a)
          /\ acked' = Acknowledged(acked, a)
       \/ /\ Accepts(group, b.key)
          /\ group' = Written(Written(group, a), b)
          /\ acked' = Acknowledged(Acknowledged(acked, a), b)
    /\ UNCHANGED <<hash, ring, parts, member, up, reports, blind>>

\* dkv_client_get_with_consistency.
Get(k, consistency) ==
    LET g == group[PartitionOf(k)]
    IN  IF ~Readable(PartitionOf(k)) THEN "PARTITION"
        ELSE IF consistency = "LINEARIZABLE" /\ g.role # "LEADER" THEN "NOT_LEADER"
        ELSE GetEntry(g.entries, k)

-----------------------------------------------------------------------------

Init ==
    /\ ClusterInit
    /\ group = [p \in Partition |-> NewGroup]
    /\ acked = [p \in Partition |->
                   [all |-> [k \in Key |-> Absent], agreed |-> [k \in Key |-> Absent]]]

Next ==
    \/ ClusterNext /\ UNCHANGED <<group, acked>>
    \/ \E p \in Partition :
          \/ GroupTick(p) \/ TriggerElection(p)
          \/ \E n \in Peer : AddPeer(p, n) \/ RemovePeer(p, n)
    \/ \E k \in Key, v \in Value : Put(k, v)
    \/ \E k \in Key : Delete(k)
    \/ \E a, b \in [key : Key, value : Value] : BatchPut(a, b)

\* The application pings the nodes, watches the clock, ticks the detector and acts
\* on its callbacks for ever; a node that is down does not answer.
Fairness ==
    /\ WF_vars(Elapse /\ UNCHANGED <<group, acked>>)
    /\ WF_vars(Tick /\ UNCHANGED <<group, acked>>)
    /\ \A n \in Node :
          /\ WF_vars(~up[n] /\ PingTimeout(n) /\ UNCHANGED <<group, acked>>)
          /\ WF_vars(HandleFailure(n) /\ UNCHANGED <<group, acked>>)

Spec == Init /\ [][Next]_vars /\ Fairness

-----------------------------------------------------------------------------
(* Properties. *)

\* Every variable keeps its type.
TypeOK ==
    /\ ClusterTypeOK
    /\ \A p \in Partition :
          LET g == group[p]
          IN  /\ g.peers \subseteq Peer
              /\ g.role \in {"FOLLOWER", "CANDIDATE", "LEADER"}
              /\ \A i \in DOMAIN g.log : g.log[i] \in Op
              /\ g.applied = g.commit /\ g.commit \in 0 .. Len(g.log)

\* A read that is answered gives the last value written of all the writes that were
\* acknowledged when the group had no peer to ask, in the order they were acknowledged
\* in: a write its leader took while it had peers shows with the first later one that
\* commits it and not before, and a key that was deleted and written again is the new
\* one.  A store that is full may have lost the key, but never shows an older value.
\* A LINEARIZABLE read is thus less than its name says: it does not see a write that was
\* acknowledged with peers until a later one commits it.
ReadsAgreed ==
    \A k \in Key, c \in {"LINEARIZABLE", "EVENTUAL"} :
        LET r == Get(k, c)
        IN  r \in Value \cup {Absent} =>
               \/ r = acked[PartitionOf(k)].agreed[k]
               \/ r = Absent /\ Len(group[PartitionOf(k)].entries) >= Slots

\* A node that stays down ends up leading nothing, except where a rebalance made it
\* leader after it was known to be dead.
LeadershipMoves ==
    \A n \in Node :
        <>[](~up[n]) =>
            <>[](\A p \in Partition : parts[p].leader # n \/ "leader" \in blind[p])
=============================================================================
