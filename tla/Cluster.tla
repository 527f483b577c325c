------------------------------ MODULE Cluster ------------------------------
(***************************************************************************)
(* The cluster side of dist-kv: the coordinator's ring and partitions      *)
(* (coordinator.c, partition.c), the failure detector (gossip.c), the      *)
(* failover manager (failover.c) and the administrator's commands          *)
(* (admin.c).                                                              *)
(*                                                                         *)
(* None of it calls the others by itself: an application pings the nodes,  *)
(* ticks the detector, receives its callbacks and calls the failover       *)
(* manager.  What it does about a callback may come late, when the         *)
(* detector has moved on: reports holds the callbacks it has not acted on. *)
(* Nodes that crash, and pings that are lost, are the environment's.       *)
(***************************************************************************)
EXTENDS Integers, Sequences, FiniteSets, HashRing
LOCAL INSTANCE SequencesExt

CONSTANTS
    Node,              \* node ids; 0 is none
    NumPartitions,     \* num_partitions
    Replication,       \* replication_factor
    MinReplicas,       \* min_replicas
    FailureThreshold,  \* failure_threshold
    SuspicionTimeout,  \* suspicion_timeout_ms, in steps of the clock
    Scenarios          \* each a hash function (the hashes of each node's virtual nodes
                       \* and of each partition's name) and bounds: how many commands,
                       \* crashes, late answers, changes of peers and client calls

Partition == 0 .. NumPartitions - 1

ASSUME ClusterAssumption ==
    /\ Node \subseteq Nat \ {0}
    /\ NumPartitions \in Nat \ {0} /\ Replication \in Nat \ {0}
    /\ MinReplicas \in Nat /\ FailureThreshold \in Nat \ {0} /\ SuspicionTimeout \in Nat
    /\ \A h \in {s.hash : s \in Scenarios} :
          /\ h.points \in Nat
          /\ \A p \in Partition : h.part[p] \in 0 .. h.points - 1
          /\ \A n \in Node : h.vnode[n] # <<>> /\ h.vnode[n] \in Seq(0 .. h.points - 1)
          /\ \A n, m \in Node : \A i \in DOMAIN h.vnode[n], j \in DOMAIN h.vnode[m] :
                h.vnode[n][i] = h.vnode[m][j] => n = m /\ i = j

VARIABLES
    hash,     \* the hash function of this behaviour
    ring,     \* the hash ring
    parts,    \* the partitions: replicas, leader, state
    member,   \* the detector's members: state, missed_pings, and for a suspect how
              \* long it is since last_seen
    up,       \* which nodes run
    reports,  \* callbacks the application has not acted on
    blind,    \* history: what of a partition a command has set against what the
              \* detector says, and no failover has looked at since
    budget    \* what is left of the bounds

clusterVars == <<hash, ring, parts, member, up, reports, blind, budget>>

-----------------------------------------------------------------------------
(* Partitions. *)

HasReplica(part, n) == Contains(part.replicas, n)

\* partition_add_replica.
AddReplica(part, n) ==
    IF HasReplica(part, n) THEN part ELSE [part EXCEPT !.replicas = Append(@, n)]

\* The first of some positions.
First(at) == CHOOSE i \in at : \A j \in at : i <= j

\* partition_remove_replica: a leader that is removed leaves none.
RemoveReplica(part, n) ==
    LET at == {i \in DOMAIN part.replicas : part.replicas[i] = n}
    IN  IF at = {} THEN part
        ELSE [part EXCEPT !.replicas = RemoveAt(@, First(at)),
                          !.leader   = IF @ = n THEN 0 ELSE @]

\* partition_set_leader.
SetLeader(part, n) ==
    IF n = 0 \/ HasReplica(part, n) THEN [part EXCEPT !.leader = n] ELSE part

\* The two loops of coordinator_rebalance: the replicas go, and those of the ring come.
RemoveReplicas(part, nodes) ==
    LET less[i \in 0 .. Len(nodes)] ==
            IF i = 0 THEN part ELSE RemoveReplica(less[i - 1], nodes[i])
    IN  less[Len(nodes)]

AddReplicas(part, nodes) ==
    LET more[i \in 0 .. Len(nodes)] ==
            IF i = 0 THEN part ELSE AddReplica(more[i - 1], nodes[i])
    IN  more[Len(nodes)]

\* coordinator_rebalance for partition p: the replicas the ring says, the first of
\* them as leader.
Rebalanced(p) ==
    LET nodes == GetReplicas(ring, hash.part[p], Replication)
        full  == AddReplicas(RemoveReplicas(parts[p], parts[p].replicas), nodes)
        led   == IF nodes = <<>> THEN full ELSE SetLeader(full, Head(nodes))
    IN  [led EXCEPT !.state = "ACTIVE"]

-----------------------------------------------------------------------------
(* Failover. *)

\* gossip_get_member_state: a node the detector does not know is dead.
StateOf(m, n) == IF n \in DOMAIN m THEN m[n].state ELSE "DEAD"

\* failover_get_available_replicas.
Available(m, part) ==
    Cardinality({i \in DOMAIN part.replicas : StateOf(m, part.replicas[i]) = "ALIVE"})

\* failover_elect_leader: the first replica that is alive.
Elect(m, part) ==
    LET alive == {i \in DOMAIN part.replicas : StateOf(m, part.replicas[i]) = "ALIVE"}
    IN  SetLeader(part, IF alive = {} THEN 0 ELSE part.replicas[First(alive)])

\* Mutant: the leader is changed and the state of the partition not looked at.
FailureHandledStateless(m, part, n) ==
    IF HasReplica(part, n) /\ part.leader = n THEN Elect(m, part) ELSE part

\* Mutant: the state is looked at and a leader that failed stays.
FailureHandledLeaderless(m, part, n) ==
    IF HasReplica(part, n) /\ Available(m, part) < MinReplicas
    THEN [part EXCEPT !.state = "READONLY"] ELSE part

\* failover_handle_node_failure, what it does to one partition.
FailureHandled(m, part, n) ==
    IF ~HasReplica(part, n) THEN part
    ELSE LET led == IF part.leader = n THEN Elect(m, part) ELSE part
         IN  IF Available(m, led) < MinReplicas
             THEN [led EXCEPT !.state = "READONLY"] ELSE led

\* Mutant: a partition is made active and left without a leader.
RecoveryHandledLeaderless(m, part, n) ==
    IF HasReplica(part, n) /\ Available(m, part) >= MinReplicas /\ part.state = "READONLY"
    THEN [part EXCEPT !.state = "ACTIVE"] ELSE part

\* failover_handle_node_recovery, what it does to one partition.
RecoveryHandled(m, part, n) ==
    IF ~HasReplica(part, n) THEN part
    ELSE LET back == IF Available(m, part) >= MinReplicas /\ part.state = "READONLY"
                     THEN [part EXCEPT !.state = "ACTIVE"] ELSE part
         IN  IF back.leader = 0 THEN Elect(m, back) ELSE back

\* failover_partition_writable: active, led, and a majority of the replicas alive.
Writable(p) ==
    /\ parts[p].state = "ACTIVE"
    /\ parts[p].leader # 0
    /\ Available(member, parts[p]) > Len(parts[p].replicas) \div 2

\* failover_partition_readable (no code sets a partition OFFLINE).
Readable(p) == parts[p].state # "OFFLINE" /\ Available(member, parts[p]) > 0

\* What of a partition disagrees with the detector m: a leader that is dead or
\* missing, and a state that is active with too few replicas.
Disagrees(m, part) ==
    {x \in {"leader", "state"} :
        \/ x = "leader" /\ part.leader # 0 /\ StateOf(m, part.leader) = "DEAD"
        \/ x = "leader" /\ part.leader = 0 /\ Available(m, part) > 0
        \/ x = "state" /\ part.state = "ACTIVE" /\ Available(m, part) < MinReplicas}

-----------------------------------------------------------------------------
(* The administrator's commands. *)

Spend(what) == budget[what] > 0 /\ budget' = [budget EXCEPT ![what] = @ - 1]

\* gossip_add_member and every later sign of life.
Alive == [state |-> "ALIVE", missed |-> 0, age |-> 0]

\* dkv_admin_add_node: EXISTS when the ring has the node.
AddNode(n) ==
    /\ Spend("admin")
    /\ ~HasNode(ring, n)
    /\ ring' = RingAdd(ring, n, hash.vnode[n])
    /\ member' = IF n \in DOMAIN member THEN member
                 ELSE [k \in DOMAIN member \cup {n} |-> IF k = n THEN Alive ELSE member[k]]
    /\ UNCHANGED <<hash, parts, up, reports, blind>>

\* dkv_admin_remove_node: failover first, while the detector still knows the node,
\* then the detector and the coordinator forget it.
RemoveNode(n) ==
    /\ Spend("admin")
    /\ HasNode(ring, n)
    /\ member' = [k \in DOMAIN member \ {n} |-> member[k]]
    /\ ring' = RingRemove(ring, n)
    /\ parts' = [p \in Partition |-> RemoveReplica(FailureHandled(member, parts[p], n), n)]
    /\ blind' = [p \in Partition |->
                    IF HasReplica(parts[p], n) THEN Disagrees(member', parts'[p]) ELSE blind[p]]
    /\ UNCHANGED <<hash, up, reports>>

\* dkv_admin_rebalance, failover_reassign_partitions: whatever the detector says.
Rebalance ==
    /\ Spend("admin")
    /\ ring.nodes # {}
    /\ parts' = [p \in Partition |-> Rebalanced(p)]
    /\ blind' = [p \in Partition |-> Disagrees(member, parts'[p])]
    /\ UNCHANGED <<hash, ring, member, up, reports>>

-----------------------------------------------------------------------------
(* The failure detector, and what the application does about it. *)

\* notify_state_change: the application acts on the callbacks that say dead or
\* alive; a callback that repeats one it still has to act on adds nothing.
Report(changed, state) == reports' = reports \cup (changed \X {state})

\* gossip_record_ping_response, gossip_mark_alive.
PingResponse(n) ==
    /\ up[n] /\ n \in DOMAIN member
    /\ member' = [member EXCEPT ![n] = Alive]
    /\ Report(IF member[n].state = "ALIVE" THEN {} ELSE {n}, "ALIVE")
    /\ UNCHANGED <<hash, ring, parts, up, blind, budget>>

\* gossip_record_ping_timeout, of a node that is down or whose answer is late: the
\* missed ping that reaches the threshold makes a suspect and starts its timer.
PingTimeout(n) ==
    /\ n \in DOMAIN member
    /\ IF up[n] THEN Spend("late") ELSE UNCHANGED budget
    /\ LET missed == IF member[n].missed < FailureThreshold THEN member[n].missed + 1
                     ELSE FailureThreshold
       IN  member' = [member EXCEPT ![n] =
               IF @.state = "ALIVE" /\ missed >= FailureThreshold
               THEN [state |-> "SUSPECT", missed |-> missed, age |-> 0]
               ELSE [@ EXCEPT !.missed = missed]]
    /\ UNCHANGED <<hash, ring, parts, up, reports, blind>>

Suspects == {n \in DOMAIN member : member[n].state = "SUSPECT"}

\* The clock, as far as the detector can tell: it compares the age of a suspect
\* with the timeout.
Elapse ==
    /\ \E n \in Suspects : member[n].age < SuspicionTimeout
    /\ member' = [n \in DOMAIN member |->
                     IF n \in Suspects /\ member[n].age < SuspicionTimeout
                     THEN [member[n] EXCEPT !.age = @ + 1] ELSE member[n]]
    /\ UNCHANGED <<hash, ring, parts, up, reports, blind, budget>>

\* gossip_tick, given the time of the call.
Tick ==
    LET late == {n \in Suspects : member[n].age >= SuspicionTimeout}
    IN  /\ late # {}
        /\ member' = [n \in DOMAIN member |->
                         IF n \in late THEN [member[n] EXCEPT !.state = "DEAD", !.age = 0]
                                       ELSE member[n]]
        /\ Report(late, "DEAD")
        /\ UNCHANGED <<hash, ring, parts, up, blind, budget>>

\* The application calls failover_handle_node_failure for a callback that said dead,
HandleFailure(n) ==
    /\ <<n, "DEAD">> \in reports
    /\ reports' = reports \ {<<n, "DEAD">>}
    /\ parts' = [p \in Partition |-> FailureHandled(member, parts[p], n)]
    /\ blind' = [p \in Partition |->
                    IF ~HasReplica(parts[p], n) THEN blind[p]
                    ELSE blind[p] \ ({"state"} \cup {x \in {"leader"} : parts[p].leader = n})]
    /\ UNCHANGED <<hash, ring, member, up, budget>>

\* and failover_handle_node_recovery for one that said alive.
HandleRecovery(n) ==
    /\ <<n, "ALIVE">> \in reports
    /\ reports' = reports \ {<<n, "ALIVE">>}
    /\ parts' = [p \in Partition |-> RecoveryHandled(member, parts[p], n)]
    /\ blind' = [p \in Partition |->
                    IF ~HasReplica(parts[p], n) THEN blind[p]
                    ELSE blind[p] \ {x \in {"leader"} : parts[p].leader = 0}]
    /\ UNCHANGED <<hash, ring, member, up, budget>>

\* The environment: a node crashes, or comes back.
Crash(n) ==
    /\ up[n] /\ Spend("crash")
    /\ up' = [up EXCEPT ![n] = FALSE]
    /\ UNCHANGED <<hash, ring, parts, member, reports, blind>>

Restart(n) ==
    /\ ~up[n]
    /\ up' = [up EXCEPT ![n] = TRUE]
    /\ UNCHANGED <<hash, ring, parts, member, reports, blind, budget>>

-----------------------------------------------------------------------------

\* partition_create for every partition, no node, no member.
ClusterInit ==
    /\ \E s \in Scenarios : hash = s.hash /\ budget = s.budget
    /\ ring = EmptyRing
    /\ parts = [p \in Partition |-> [replicas |-> <<>>, leader |-> 0, state |-> "INIT"]]
    /\ member = [n \in {} |-> Alive]
    /\ up = [n \in Node |-> TRUE]
    /\ reports = {}
    /\ blind = [p \in Partition |-> {}]

ClusterNext ==
    \/ \E n \in Node :
          \/ AddNode(n) \/ RemoveNode(n)
          \/ PingResponse(n) \/ PingTimeout(n)
          \/ HandleFailure(n) \/ HandleRecovery(n)
          \/ Crash(n) \/ Restart(n)
    \/ Rebalance \/ Elapse \/ Tick

-----------------------------------------------------------------------------
(* Properties. *)

\* Every variable keeps its type.
ClusterTypeOK ==
    /\ hash \in {s.hash : s \in Scenarios}
    /\ ring.nodes \subseteq Node
    /\ \A p \in Partition :
          /\ \A i \in DOMAIN parts[p].replicas : parts[p].replicas[i] \in Node
          /\ parts[p].leader \in Node \cup {0}
          /\ parts[p].state \in {"INIT", "ACTIVE", "READONLY", "OFFLINE"}
    /\ DOMAIN member \subseteq Node
    /\ \A n \in DOMAIN member :
          /\ member[n].state \in {"ALIVE", "SUSPECT", "DEAD"}
          /\ member[n].missed \in 0 .. FailureThreshold
          /\ member[n].age \in 0 .. SuspicionTimeout
    /\ up \in [Node -> BOOLEAN]
    /\ reports \subseteq Node \X {"DEAD", "ALIVE"}
    /\ blind \in [Partition -> SUBSET {"leader", "state"}]

\* How far clockwise from hash h the nearest virtual node of n is.
Away(n, h) ==
    CHOOSE d \in 0 .. hash.points - 1 :
        LET Meets(e) == \E i \in DOMAIN hash.vnode[n] : hash.vnode[n][i] = (h + e) % hash.points
        IN  Meets(d) /\ \A e \in 0 .. d - 1 : ~Meets(e)

\* Different nodes of the ring, nearest clockwise from h first, and no node of the
\* ring that is not among them is nearer than one that is: Replication of them, or all
\* there are.
NearestNodes(kept, h, nodes) ==
    /\ \/ Len(kept) = Replication
       \/ Len(kept) < Replication /\ Len(kept) = Cardinality(nodes)
    /\ \A i \in DOMAIN kept : kept[i] \in nodes
    /\ \A i, j \in DOMAIN kept : kept[i] = kept[j] => i = j
    /\ \A i \in DOMAIN kept : \A n \in nodes :
          n \notin {kept[j] : j \in 1 .. i} => Away(kept[i], h) < Away(n, h)

\* Whatever nodes joined and left, a key is kept on the Replication different nodes
\* that are nearest clockwise from its hash, nearest first, and on all the nodes when
\* there are fewer.
ReplicasClockwise ==
    [][ring' # ring =>
         \A h \in 0 .. hash.points - 1 : \E kept \in {GetReplicas(ring', h, Replication)} :
            NearestNodes(kept, h, ring'.nodes)]_clusterVars

\* A partition is led by a node the detector calls dead only until the application
\* has acted on the callback, or where a command put that node there.  A node that
\* came back and died again, or whose death is acted on late, is no exception.
NoDeadLeader ==
    \A p \in Partition :
        LET n == parts[p].leader
        IN  n # 0 /\ StateOf(member, n) = "DEAD" /\ <<n, "DEAD">> \notin reports
               => "leader" \in blind[p]

\* A partition with a live replica has a leader, once the application has acted on
\* the callbacks about its replicas, unless a command took the leader away.
LeaderWhenAlive ==
    \A p \in Partition :
        LET mine == parts[p].replicas
        IN  /\ parts[p].leader = 0
            /\ \E i \in DOMAIN mine : /\ StateOf(member, mine[i]) = "ALIVE"
                                      /\ <<mine[i], "ALIVE">> \notin reports
            => "leader" \in blind[p]

\* Who leads a partition is settled once its callbacks are acted on, in whatever
\* order and however late: no dead leader, and a leader whenever one can be had.
LeadersSettled == NoDeadLeader /\ LeaderWhenAlive

\* A partition is read-only just when too few of its replicas are alive, once the
\* callbacks about its replicas are acted on and none of them is a suspect, or a
\* command said otherwise.
ReadOnlyWhenShort ==
    \A p \in Partition :
        LET mine == {parts[p].replicas[i] : i \in DOMAIN parts[p].replicas}
            short == Available(member, parts[p]) < MinReplicas
        IN  /\ mine # {} /\ \A n \in mine : /\ StateOf(member, n) # "SUSPECT"
                                          /\ \A s \in {"DEAD", "ALIVE"} : <<n, s>> \notin reports
            => \/ parts[p].state = IF short THEN "READONLY" ELSE "ACTIVE"
               \/ short /\ "state" \in blind[p]
=============================================================================
