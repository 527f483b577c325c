-------------------------------- MODULE Raft --------------------------------
(***************************************************************************)
(* The Raft node of projects/distributed/consensus: election (election.c), *)
(* PreVote, leadership transfer (transfer.c), replication (replication.c), *)
(* commit (commit.c) and the lifecycle of raft.c, with the term and vote   *)
(* kept in state.dat (storage.c, recovery.c).                              *)
(*                                                                         *)
(* One action is one call into the library: an API call, a tick whose      *)
(* timer expires, or raft_receive_message with one message.  The transport *)
(* is the application's send_fn: msgs is the set of messages ever sent,    *)
(* and any of them may be delivered at any time, any number of times or    *)
(* never, so loss, delay, reordering and duplication are all in the model. *)
(*                                                                         *)
(* raft_propose keeps its entry in memory only and a follower does too, so *)
(* the log file stays empty and a restarted node has an empty log.         *)
(* raft_propose_batch (which does write the file), snapshots, membership   *)
(* changes and ReadIndex are not part of this module.                      *)
(***************************************************************************)
EXTENDS Integers, FiniteSets, FiniteSetsExt, Sequences

CONSTANTS
    Server,           \* the node ids 0 .. num_nodes-1
    Nil,              \* the -1 of voted_for and current_leader
    Value,            \* commands a client may propose
    MaxEntriesPerAppend, \* RAFT_MAX_ENTRIES_PER_APPEND
    MayStand,         \* bound: the terms in which each node may stand,
                      \*   a set of <<term, node>>
    Budget,           \* bound: how often each kind of environment step occurs
    Spent             \* bound: what of it may be used up from the start, so that
                      \*   one instance has several mixes of these steps

BudgetKind ==
    {"propose", "tick", "heartbeat", "prevote", "transfer", "stop", "restart",
     "savefail"}

ASSUME RaftAssumption ==
    /\ IsFiniteSet(Server)
    /\ Server # {}
    /\ Nil \notin Server
    /\ MaxEntriesPerAppend \in Nat \ {0}
    /\ MayStand \subseteq Nat \X Server
    /\ Budget \in [BudgetKind -> Nat]
    /\ Spent \subseteq [BudgetKind -> Nat]

VARIABLES
    running,      \* raft_node_t.running
    el,           \* election state: role, current_term, voted_for,
                  \*   current_leader, votes (votes_granted), armed (a timeout
                  \*   was drawn: election_timeout_ms > 0)
    log,          \* raft_log_t, a sequence of [term, value]
    commit_index,
    last_applied,
    next_index,   \* leader_state.next_index[peer]
    match_index,  \* leader_state.match_index[peer]
    transfer,     \* g_transfer_state and g_transfer_target of the process
    disk,         \* state.dat: the saved term and vote
    msgs,         \* every message sent so far
    used,         \* environment steps taken, against Budget
    elected,      \* history: the [term, server] that became leader
    applied       \* history: the [index, entry] given to apply_fn

logVars == <<log, commit_index, last_applied, applied>>
vars == <<running, el, log, commit_index, last_applied, next_index,
          match_index, transfer, disk, msgs, used, elected, applied>>

-----------------------------------------------------------------------------
(* Types. *)

Role == {"FOLLOWER", "CANDIDATE", "LEADER", "PRE_CANDIDATE"}

Entry == [term : Nat, value : Value]

Election == [role : Role, current_term : Nat, voted_for : Server \cup {Nil},
             current_leader : Server \cup {Nil}, votes : SUBSET Server,
             armed : BOOLEAN]

VoteRequest(kind) ==
    [type : {kind}, src : Server, dst : Server, term : Nat,
     last_log_index : Nat, last_log_term : Nat]

VoteResponse(kind) ==
    [type : {kind}, src : Server, dst : Server, term : Nat,
     vote_granted : BOOLEAN]

AppendEntries ==
    [type : {"AppendEntries"}, src : Server, dst : Server, term : Nat,
     prev_log_index : Nat, prev_log_term : Nat, entries : Seq(Entry),
     leader_commit : Nat]

AppendEntriesResponse ==
    [type : {"AppendEntriesResponse"}, src : Server, dst : Server, term : Nat,
     success : BOOLEAN, match_index : Nat]

TimeoutNow ==
    [type : {"TimeoutNow"}, src : Server, dst : Server, term : Nat]

Message ==
    VoteRequest("RequestVote") \cup VoteResponse("RequestVoteResponse")
    \cup VoteRequest("PreVote") \cup VoteResponse("PreVoteResponse")
    \cup AppendEntries \cup AppendEntriesResponse \cup TimeoutNow

Transfer == [state : {"NONE", "PENDING", "SENDING"},
             target : Server \cup {Nil}]

-----------------------------------------------------------------------------
(* Helpers. *)

\* votes_received > num_nodes / 2
IsMajority(Q) == Cardinality(Q) > Cardinality(Server) \div 2

SingleNode == Cardinality(Server) = 1

\* Mutant: raft_log_last_index one short.
LastIndexShort(lg) == Len(lg) - 1

\* raft_log_last_index, raft_log_term_at and raft_log_last_term (no snapshot,
\* so base_index and base_term are 0).
LastIndex(lg) == Len(lg)
TermAt(lg, i) == IF i \in 1 .. Len(lg) THEN lg[i].term ELSE 0
LastTerm(lg) == TermAt(lg, Len(lg))

\* is_log_up_to_date: the candidate's last entry against the voter's log.
IsLogUpToDate(lg, last_log_term, last_log_index) ==
    \/ last_log_term > LastTerm(lg)
    \/ last_log_term = LastTerm(lg) /\ last_log_index >= LastIndex(lg)

Send(ms) == msgs' = msgs \cup ms

\* An environment step of the given kind, within its bound.
Spend(kind) ==
    /\ used[kind] < Budget[kind]
    /\ used' = [used EXCEPT ![kind] = @ + 1]

\* Mutant: the vote is not part of what is saved.
PersistTermOnly(s, e) ==
    /\ disk' = [disk EXCEPT ![s] = [current_term |-> e.current_term,
                                    voted_for |-> Nil]]
    /\ UNCHANGED used

\* persist_state: raft_storage_save_state replaces state.dat atomically.  Its
\* status is not looked at, so a failed save leaves the old file and the
\* handler goes on as if it had been written.
PersistState(s, e) ==
    \/ /\ disk' = [disk EXCEPT ![s] = [current_term |-> e.current_term,
                                       voted_for |-> e.voted_for]]
       /\ UNCHANGED used
    \/ /\ Spend("savefail")
       /\ UNCHANGED disk

\* Mutant: the leader of the old term is remembered.
StepDownKeepsLeader(e, new_term) ==
    [e EXCEPT !.role = "FOLLOWER", !.current_term = new_term, !.voted_for = Nil,
              !.votes = {}, !.armed = TRUE]

\* raft_step_down, as a function of the node's election state.
StepDown(e, new_term) ==
    [role |-> "FOLLOWER", current_term |-> new_term, voted_for |-> Nil,
     current_leader |-> Nil, votes |-> {}, armed |-> TRUE]

\* Mutant: a message of the same term also clears the vote.
CatchUpOnEqual(e, term) ==
    IF term >= e.current_term THEN StepDown(e, term) ELSE e

\* "If the message's term > current term, step down", at the head of a handler.
CatchUp(e, term) == IF term > e.current_term THEN StepDown(e, term) ELSE e

\* The save inside that step-down, when it happens.
PersistCatchUp(s, term) ==
    IF term > el[s].current_term
      THEN PersistState(s, StepDown(el[s], term))
      ELSE UNCHANGED <<disk, used>>

\* The saves of a vote: that of the step-down a newer term causes, then that of
\* the vote.  When only the second fails, state.dat has the new term and no vote.
PersistVote(s, e, voted) ==
    \/ PersistState(s, voted)
    \/ /\ e.current_term > el[s].current_term
       /\ Spend("savefail")
       /\ disk' = [disk EXCEPT ![s] = [current_term |-> e.current_term,
                                       voted_for |-> Nil]]

\* raft_become_leader; e is the state the node has on entry.
BecomeLeader(s, e) ==
    /\ el' = [el EXCEPT ![s] = [e EXCEPT !.role = "LEADER",
                                         !.current_leader = s]]
    /\ next_index' = [next_index EXCEPT
                        ![s] = [p \in Server |-> LastIndex(log[s]) + 1]]
    /\ match_index' = [match_index EXCEPT ![s] = [p \in Server |-> 0]]
    /\ commit_index' = IF SingleNode
                         THEN [commit_index EXCEPT ![s] = LastIndex(log[s])]
                         ELSE commit_index
    /\ elected' = elected \cup {[term |-> e.current_term, server |-> s]}

\* raft_start_election without its running check: new term, own vote, saved
\* before the RequestVotes leave; a single node wins at once.
Campaign(s) ==
    LET e == [role |-> "CANDIDATE", current_term |-> el[s].current_term + 1,
              voted_for |-> s, current_leader |-> Nil, votes |-> {s},
              armed |-> TRUE]
    IN  /\ <<e.current_term, s>> \in MayStand
        /\ PersistState(s, e)
        /\ IF SingleNode
             THEN /\ BecomeLeader(s, e)
                  /\ UNCHANGED msgs
             ELSE /\ el' = [el EXCEPT ![s] = e]
                  /\ Send({[type |-> "RequestVote", src |-> s, dst |-> p,
                            term |-> e.current_term,
                            last_log_index |-> LastIndex(log[s]),
                            last_log_term |-> LastTerm(log[s])]
                            : p \in Server \ {s}})
                  /\ UNCHANGED <<next_index, match_index, commit_index, elected>>

\* raft_replicate_to_peer: the entries from next_index on, at most
\* MaxEntriesPerAppend; none at all makes it a heartbeat.
AppendTo(s, p, lg) ==
    LET next == next_index[s][p]
        prev == IF next > 1 THEN next - 1 ELSE 0
    IN  [type |-> "AppendEntries", src |-> s, dst |-> p,
         term |-> el[s].current_term,
         prev_log_index |-> prev, prev_log_term |-> TermAt(lg, prev),
         entries |-> SubSeq(lg, next,
                            Min({LastIndex(lg), next + MaxEntriesPerAppend - 1})),
         leader_commit |-> commit_index[s]]

\* raft_replicate_log
ReplicateLog(s, lg) == Send({AppendTo(s, p, lg) : p \in Server \ {s}})

\* raft_apply_committed: apply_fn is called on every entry up to the commit
\* index; an index the log does not hold is passed over.
ApplyCommitted(s, lg, commit) ==
    /\ last_applied' = [last_applied EXCEPT ![s] = Max({@, commit})]
    /\ applied' = applied \cup
         {[index |-> i, entry |-> lg[i]] :
             i \in (last_applied[s] + 1 .. commit) \cap DOMAIN lg}

\* raft_advance_commit_index: the highest index of the current term that a
\* majority's match_index reaches.
CommitTo(s, match) ==
    Max({commit_index[s]} \cup
        {n \in commit_index[s] + 1 .. LastIndex(log[s]) :
            /\ TermAt(log[s], n) = el[s].current_term
            /\ IsMajority({s} \cup {p \in Server \ {s} : match[p] >= n})})

\* Mutant: the entries are appended whatever the log already holds.
MergeAppends(lg, prev, entries) == lg \o entries

\* The entry loop of raft_handle_append_entries_with_log: the first entry that
\* conflicts with the log truncates it, entries beyond its end are appended.
MergeEntries(lg, prev, entries) ==
    LET conflicts == {k \in 1 .. Len(entries) :
                        /\ prev + k <= Len(lg)
                        /\ lg[prev + k].term # entries[k].term}
        from == Min(conflicts \cup {Len(lg) - prev + 1})
    IN  SubSeq(lg, 1, prev + from - 1) \o SubSeq(entries, from, Len(entries))

-----------------------------------------------------------------------------
(* Lifecycle. *)

\* raft_start: a single-node cluster becomes leader at once.
Start(s) ==
    /\ ~running[s]
    /\ running' = [running EXCEPT ![s] = TRUE]
    /\ IF SingleNode
         THEN BecomeLeader(s, el[s])
         ELSE UNCHANGED <<el, next_index, match_index, commit_index, elected>>
    /\ UNCHANGED <<log, last_applied, transfer, disk, msgs, used, applied>>

\* raft_stop: only the flag changes; a stopped node still answers messages.
Stop(s) ==
    /\ running[s]
    /\ Spend("stop")
    /\ running' = [running EXCEPT ![s] = FALSE]
    /\ UNCHANGED <<el, log, commit_index, last_applied, next_index, match_index,
                   transfer, disk, msgs, elected, applied>>

\* A process that starts with what raft_create and raft_recover make of d, the
\* contents of state.dat.
Reborn(s, d) ==
    /\ running' = [running EXCEPT ![s] = FALSE]
    /\ el' = [el EXCEPT ![s] =
                [role |-> "FOLLOWER", current_term |-> d.current_term,
                 voted_for |-> d.voted_for, current_leader |-> Nil,
                 votes |-> {}, armed |-> FALSE]]
    /\ log' = [log EXCEPT ![s] = << >>]
    /\ commit_index' = [commit_index EXCEPT ![s] = 0]
    /\ last_applied' = [last_applied EXCEPT ![s] = 0]
    /\ next_index' = [next_index EXCEPT ![s] = [p \in Server |-> 0]]
    /\ match_index' = [match_index EXCEPT ![s] = [p \in Server |-> 0]]
    /\ transfer' = [transfer EXCEPT ![s] = [state |-> "NONE", target |-> Nil]]
    /\ UNCHANGED <<msgs, elected, applied>>

\* The process ends (a crash, or raft_destroy) and is created again.
Restart(s) ==
    /\ Spend("restart")
    /\ Reborn(s, disk[s])
    /\ UNCHANGED disk

\* The process dies inside a handler, after the save of its step-down and
\* before the save of the vote it was about to give.
CrashAfterStepDown(s, m) ==
    LET d == [current_term |-> m.term, voted_for |-> Nil]
    IN  /\ m.dst = s
        /\ m.type = "RequestVote"
        /\ m.term > el[s].current_term
        /\ Spend("restart")
        /\ disk' = [disk EXCEPT ![s] = d]
        /\ Reborn(s, d)

-----------------------------------------------------------------------------
(* Elections. *)

\* raft_start_election: raft_tick_election calls it when the timer of a node
\* that is not leader expires, and the API lets the application call it on any.
StartElection(s) ==
    /\ running[s]
    /\ Campaign(s)
    /\ UNCHANGED <<running, log, last_applied, transfer, applied>>

\* raft_handle_request_vote, with the response raft_receive_message sends.
HandleRequestVote(s, m) ==
    LET e == CatchUp(el[s], m.term)
        granted == /\ m.term = e.current_term
                   /\ e.voted_for \in {Nil, m.src}
                   /\ IsLogUpToDate(log[s], m.last_log_term, m.last_log_index)
        voted == [e EXCEPT !.voted_for = m.src, !.armed = TRUE]
    IN  /\ m.dst = s
        /\ m.type = "RequestVote"
        /\ IF granted
             THEN /\ el' = [el EXCEPT ![s] = voted]
                  /\ PersistVote(s, e, voted)
             ELSE /\ el' = [el EXCEPT ![s] = e]
                  /\ PersistCatchUp(s, m.term)
        /\ Send({[type |-> "RequestVoteResponse", src |-> s, dst |-> m.src,
                  term |-> e.current_term, vote_granted |-> granted]})
        /\ UNCHANGED <<running, log, commit_index, last_applied, next_index,
                       match_index, transfer, elected, applied>>

\* raft_handle_request_vote_response: only a candidate looks at it; a granted
\* vote of this term counts once, and the majority makes the leader.
HandleRequestVoteResponse(s, m) ==
    LET e == CatchUp(el[s], m.term)
        counted == IF m.term = el[s].current_term /\ m.vote_granted
                     THEN [e EXCEPT !.votes = @ \cup {m.src}]
                     ELSE e
    IN  /\ m.dst = s
        /\ m.type = "RequestVoteResponse"
        /\ el[s].role = "CANDIDATE"
        /\ PersistCatchUp(s, m.term)
        /\ IF counted.votes # e.votes /\ IsMajority(counted.votes)
             THEN BecomeLeader(s, counted)
             ELSE /\ el' = [el EXCEPT ![s] = counted]
                  /\ UNCHANGED <<next_index, match_index, commit_index, elected>>
        /\ UNCHANGED <<running, log, last_applied, transfer, msgs, applied>>

\* raft_start_pre_vote up to its messages: no new term, no vote, nothing saved.
AskPreVotes(s) ==
    LET e == [el[s] EXCEPT !.role = "PRE_CANDIDATE", !.current_leader = Nil,
                           !.votes = {s}, !.armed = TRUE]
    IN  /\ Spend("prevote")
        /\ el' = [el EXCEPT ![s] = e]
        /\ Send({[type |-> "PreVote", src |-> s, dst |-> p,
                  term |-> e.current_term + 1,
                  last_log_index |-> LastIndex(log[s]),
                  last_log_term |-> LastTerm(log[s])] : p \in Server \ {s}})
        /\ UNCHANGED <<commit_index, next_index, match_index, disk, elected>>

\* raft_start_pre_vote: a single node has its majority and starts the election,
\* which sets again all that the pre-vote has set.
StartPreVote(s) ==
    /\ running[s]
    /\ IF SingleNode THEN Campaign(s) ELSE AskPreVotes(s)
    /\ UNCHANGED <<running, log, last_applied, transfer, applied>>

\* raft_handle_pre_vote: refused by a node that has a leader and whose timer
\* runs; no state changes.
HandlePreVote(s, m) ==
    LET granted == /\ ~(el[s].current_leader # Nil /\ el[s].armed)
                   /\ m.term >= el[s].current_term
                   /\ IsLogUpToDate(log[s], m.last_log_term, m.last_log_index)
    IN  /\ m.dst = s
        /\ m.type = "PreVote"
        /\ Send({[type |-> "PreVoteResponse", src |-> s, dst |-> m.src,
                  term |-> el[s].current_term, vote_granted |-> granted]})
        /\ UNCHANGED <<running, el, log, commit_index, last_applied, next_index,
                       match_index, transfer, disk, used, elected, applied>>

\* raft_handle_pre_vote_response: the majority starts the real election (when
\* the node is running); the term of a granted response is not compared.
HandlePreVoteResponse(s, m) ==
    LET votes == IF m.vote_granted THEN el[s].votes \cup {m.src}
                                   ELSE el[s].votes
    IN  /\ m.dst = s
        /\ m.type = "PreVoteResponse"
        /\ el[s].role = "PRE_CANDIDATE"
        /\ IF m.term > el[s].current_term
             THEN /\ el' = [el EXCEPT ![s] = StepDown(el[s], m.term)]
                  /\ PersistState(s, StepDown(el[s], m.term))
                  /\ UNCHANGED <<next_index, match_index, commit_index, elected,
                                 msgs>>
             ELSE IF votes # el[s].votes /\ IsMajority(votes) /\ running[s]
             THEN Campaign(s)
             ELSE /\ el' = [el EXCEPT ![s].votes = votes]
                  /\ UNCHANGED <<next_index, match_index, commit_index, elected,
                                 msgs, disk, used>>
        /\ UNCHANGED <<running, log, last_applied, transfer, applied>>

-----------------------------------------------------------------------------
(* Leadership transfer. *)

\* raft_transfer_check_progress on a leader: TimeoutNow to a target whose
\* match_index reaches the end of the log; t is the transfer on entry.
TransferProgress(s, t) ==
    IF match_index[s][t.target] >= LastIndex(log[s])
      THEN /\ transfer' = [transfer EXCEPT ![s] = [t EXCEPT !.state = "SENDING"]]
           /\ Send({[type |-> "TimeoutNow", src |-> s, dst |-> t.target,
                     term |-> el[s].current_term]})
      ELSE /\ transfer' = [transfer EXCEPT ![s] = t]
           /\ UNCHANGED msgs

\* raft_transfer_leadership to an explicit target (a target of -1 picks the
\* peer with the highest match_index, one of the same targets).
TransferLeadership(s, target) ==
    /\ running[s]
    /\ el[s].role = "LEADER"
    /\ target # s
    /\ Spend("transfer")
    /\ TransferProgress(s, [state |-> "PENDING", target |-> target])
    /\ UNCHANGED <<running, el, log, commit_index, last_applied, next_index,
                   match_index, disk, elected, applied>>

\* raft_transfer_check_progress called by the application.
TransferCheckProgress(s) ==
    /\ transfer[s].state # "NONE"
    /\ el[s].role = "LEADER"
    /\ transfer[s].target # Nil
    /\ TransferProgress(s, transfer[s])
    /\ UNCHANGED <<running, el, log, commit_index, last_applied, next_index,
                   match_index, disk, used, elected, applied>>

\* raft_transfer_abort, which raft_transfer_check_progress also calls on a node
\* that no longer leads (or has no target).
TransferAbort(s) ==
    /\ transfer[s].state # "NONE"
    /\ transfer' = [transfer EXCEPT ![s] = [state |-> "NONE", target |-> Nil]]
    /\ UNCHANGED <<running, el, log, commit_index, last_applied, next_index,
                   match_index, disk, msgs, used, elected, applied>>

\* raft_handle_timeout_now: the follower of that leader campaigns at once.
HandleTimeoutNow(s, m) ==
    /\ m.dst = s
    /\ m.type = "TimeoutNow"
    /\ running[s]
    /\ el[s].role = "FOLLOWER"
    /\ m.term = el[s].current_term
    /\ m.src = el[s].current_leader
    /\ Campaign(s)
    /\ UNCHANGED <<running, log, last_applied, transfer, applied>>

-----------------------------------------------------------------------------
(* Replication. *)

\* raft_propose: append in the current term; a single node commits at once
\* (and applies nothing), any other replicates.
Propose(s, v) ==
    LET lg == Append(log[s], [term |-> el[s].current_term, value |-> v])
    IN  /\ running[s]
        /\ el[s].role = "LEADER"
        /\ Spend("propose")
        /\ log' = [log EXCEPT ![s] = lg]
        /\ IF SingleNode
             THEN /\ commit_index' = [commit_index EXCEPT ![s] = LastIndex(lg)]
                  /\ UNCHANGED msgs
             ELSE /\ ReplicateLog(s, lg)
                  /\ UNCHANGED commit_index
        /\ UNCHANGED <<running, el, last_applied, next_index, match_index,
                       transfer, disk, elected, applied>>

\* raft_tick_heartbeat when its timer expires: raft_replicate_log.
TickHeartbeat(s) ==
    /\ running[s]
    /\ el[s].role = "LEADER"
    /\ Spend("tick")
    /\ ReplicateLog(s, log[s])
    /\ UNCHANGED <<running, el, log, commit_index, last_applied, next_index,
                   match_index, transfer, disk, elected, applied>>

\* raft_send_heartbeats: an empty AppendEntries at the end of the leader's log,
\* whatever the peer's next_index.
SendHeartbeats(s) ==
    /\ el[s].role = "LEADER"
    /\ Spend("heartbeat")
    /\ Send({[type |-> "AppendEntries", src |-> s, dst |-> p,
              term |-> el[s].current_term,
              prev_log_index |-> LastIndex(log[s]),
              prev_log_term |-> LastTerm(log[s]), entries |-> << >>,
              leader_commit |-> commit_index[s]] : p \in Server \ {s}})
    /\ UNCHANGED <<running, el, log, commit_index, last_applied, next_index,
                   match_index, transfer, disk, elected, applied>>

\* The response of either AppendEntries handler.
Reply(s, m, term, success, match) ==
    Send({[type |-> "AppendEntriesResponse", src |-> s, dst |-> m.src,
           term |-> term, success |-> success, match_index |-> match]})

\* Mutant: AppendEntries of an old term are not rejected.
AcceptsAny(e, m) == TRUE

\* "Reply false if term < currentTerm", after the step-down on a higher one.
Accepts(e, m) == m.term = e.current_term

\* raft_handle_append_entries, reached with no entries: the previous entry is
\* not compared, the node's own last index is acknowledged and the commit
\* index follows the leader's up to that last index; nothing is applied.
HandleHeartbeat(s, m) ==
    LET e == CatchUp(el[s], m.term)
        accepted == Accepts(e, m)
        candidate == e.role \in {"CANDIDATE", "PRE_CANDIDATE"}
        led == [e EXCEPT !.current_leader = m.src, !.armed = TRUE,
                         !.role = IF candidate THEN "FOLLOWER" ELSE @,
                         !.votes = IF candidate THEN {} ELSE @]
    IN  /\ m.dst = s
        /\ m.type = "AppendEntries"
        /\ m.entries = << >>
        /\ PersistCatchUp(s, m.term)
        /\ IF accepted
             THEN /\ el' = [el EXCEPT ![s] = led]
                  /\ commit_index' = [commit_index EXCEPT ![s] =
                       IF m.leader_commit > @
                         THEN Min({m.leader_commit, LastIndex(log[s])}) ELSE @]
                  /\ Reply(s, m, e.current_term, TRUE, LastIndex(log[s]))
             ELSE /\ el' = [el EXCEPT ![s] = e]
                  /\ UNCHANGED commit_index
                  /\ Reply(s, m, e.current_term, FALSE, 0)
        /\ UNCHANGED <<running, log, last_applied, next_index, match_index,
                       transfer, elected, applied>>

\* raft_handle_append_entries_with_log: the consistency check at
\* prev_log_index, the entry loop, the commit index and the apply.
HandleAppendEntries(s, m) ==
    LET e == CatchUp(el[s], m.term)
        accepted == Accepts(e, m)
        led == [e EXCEPT !.current_leader = m.src,
                         !.role = IF @ = "CANDIDATE" THEN "FOLLOWER" ELSE @,
                         !.votes = IF e.role = "CANDIDATE" THEN {} ELSE @]
        prev == m.prev_log_index
        consistent == prev > 0 => /\ TermAt(log[s], prev) # 0
                                  /\ TermAt(log[s], prev) = m.prev_log_term
        lg == MergeEntries(log[s], prev, m.entries)
        commit == IF m.leader_commit > commit_index[s]
                    THEN Min({m.leader_commit, prev + Len(m.entries), Len(lg)})
                    ELSE commit_index[s]
    IN  /\ m.dst = s
        /\ m.type = "AppendEntries"
        /\ m.entries # << >>
        /\ PersistCatchUp(s, m.term)
        /\ el' = [el EXCEPT ![s] = IF accepted THEN led ELSE e]
        /\ IF accepted /\ consistent
             THEN /\ log' = [log EXCEPT ![s] = lg]
                  /\ commit_index' = [commit_index EXCEPT ![s] = commit]
                  /\ IF m.leader_commit > commit_index[s]
                       THEN ApplyCommitted(s, lg, commit)
                       ELSE UNCHANGED <<last_applied, applied>>
                  /\ Reply(s, m, e.current_term, TRUE, LastIndex(lg))
             ELSE /\ UNCHANGED logVars
                  /\ Reply(s, m, e.current_term, FALSE,
                           IF accepted THEN LastIndex(log[s]) ELSE 0)
        /\ UNCHANGED <<running, next_index, match_index, transfer, elected>>

\* raft_handle_append_entries_response, at a leader only: a success raises
\* match_index and next_index and may advance the commit index; a failure
\* moves next_index back by one.
HandleAppendEntriesResponse(s, m) ==
    LET higher == m.term > el[s].current_term
        current == m.term = el[s].current_term
        raised == m.success /\ m.match_index > match_index[s][m.src]
        match == IF raised THEN [match_index[s] EXCEPT ![m.src] = m.match_index]
                           ELSE match_index[s]
        next == IF raised
                  THEN [next_index[s] EXCEPT ![m.src] = m.match_index + 1]
                ELSE IF ~m.success /\ next_index[s][m.src] > 1
                  THEN [next_index[s] EXCEPT ![m.src] = @ - 1]
                ELSE next_index[s]
        commit == IF m.success THEN CommitTo(s, match) ELSE commit_index[s]
    IN  /\ m.dst = s
        /\ m.type = "AppendEntriesResponse"
        /\ el[s].role = "LEADER"
        /\ m.term >= el[s].current_term
        /\ el' = [el EXCEPT ![s] = CatchUp(@, m.term)]
        /\ PersistCatchUp(s, m.term)
        /\ IF current
             THEN /\ match_index' = [match_index EXCEPT ![s] = match]
                  /\ next_index' = [next_index EXCEPT ![s] = next]
                  /\ commit_index' = [commit_index EXCEPT ![s] = commit]
                  /\ IF commit > commit_index[s]
                       THEN ApplyCommitted(s, log[s], commit)
                       ELSE UNCHANGED <<last_applied, applied>>
             ELSE UNCHANGED <<match_index, next_index, commit_index,
                              last_applied, applied>>
        /\ UNCHANGED <<running, log, transfer, msgs, elected>>

-----------------------------------------------------------------------------
(* The specification. *)

Init ==
    /\ running = [s \in Server |-> FALSE]
    /\ el = [s \in Server |->
               [role |-> "FOLLOWER", current_term |-> 0, voted_for |-> Nil,
                current_leader |-> Nil, votes |-> {}, armed |-> FALSE]]
    /\ log = [s \in Server |-> << >>]
    /\ commit_index = [s \in Server |-> 0]
    /\ last_applied = [s \in Server |-> 0]
    /\ next_index = [s \in Server |-> [p \in Server |-> 0]]
    /\ match_index = [s \in Server |-> [p \in Server |-> 0]]
    /\ transfer = [s \in Server |-> [state |-> "NONE", target |-> Nil]]
    /\ disk = [s \in Server |-> [current_term |-> 0, voted_for |-> Nil]]
    /\ msgs = {}
    /\ used \in Spent
    /\ elected = {}
    /\ applied = {}

\* raft_receive_message: one delivered message, dispatched on its type.
Receive(s, m) ==
    \/ CrashAfterStepDown(s, m)
    \/ HandleRequestVote(s, m)
    \/ HandleRequestVoteResponse(s, m)
    \/ HandlePreVote(s, m)
    \/ HandlePreVoteResponse(s, m)
    \/ HandleTimeoutNow(s, m)
    \/ HandleHeartbeat(s, m)
    \/ HandleAppendEntries(s, m)
    \/ HandleAppendEntriesResponse(s, m)

\* The calls the application makes, and the crashes.
Call(s) ==
    \/ Start(s)
    \/ Stop(s)
    \/ Restart(s)
    \/ StartElection(s)
    \/ StartPreVote(s)
    \/ \E target \in Server : TransferLeadership(s, target)
    \/ TransferCheckProgress(s)
    \/ TransferAbort(s)
    \/ \E v \in Value : Propose(s, v)
    \/ TickHeartbeat(s)
    \/ SendHeartbeats(s)

Next ==
    \/ \E s \in Server : Call(s)
    \/ \E m \in msgs : Receive(m.dst, m)

Spec == Init /\ [][Next]_vars

-----------------------------------------------------------------------------
(* Properties. *)

\* Every variable keeps its type, whatever is delivered, lost or restarted.
TypeOK ==
    /\ running \in [Server -> BOOLEAN]
    /\ el \in [Server -> Election]
    /\ log \in [Server -> Seq(Entry)]
    /\ commit_index \in [Server -> Nat]
    /\ last_applied \in [Server -> Nat]
    /\ next_index \in [Server -> [Server -> Nat]]
    /\ match_index \in [Server -> [Server -> Nat]]
    /\ transfer \in [Server -> Transfer]
    /\ disk \in [Server -> [current_term : Nat, voted_for : Server \cup {Nil}]]
    /\ msgs \subseteq Message
    /\ used \in [BudgetKind -> Nat]
    /\ elected \subseteq [term : Nat, server : Server]
    /\ applied \subseteq [index : Nat, entry : Entry]

\* Election Safety: raft_become_leader never runs on two nodes in one term, the
\* elections of nodes that have since crashed included.
ElectionSafety ==
    \A a, b \in elected : a.term = b.term => a.server = b.server

\* What a node believes about its leader (current_leader, the answer of
\* raft_get_leader and the check of raft_handle_timeout_now) is the leader that
\* was elected in the node's own term.
LeaderKnown ==
    \A s \in Server :
        el[s].current_leader # Nil =>
            [term |-> el[s].current_term, server |-> el[s].current_leader]
                \in elected

\* Log Matching: two logs that hold an entry of one term at one index are
\* identical up to that index, through every truncation and merge of
\* raft_handle_append_entries_with_log.
LogMatching ==
    \A s, t \in Server :
        \A i \in DOMAIN log[s] \cap DOMAIN log[t] :
            log[s][i].term = log[t][i].term =>
                SubSeq(log[s], 1, i) = SubSeq(log[t], 1, i)

\* A node's term never decreases, and its vote is not withdrawn or changed
\* within a term, across crashes between raft_storage_save_state and the reply.
VoteStable ==
    [][\A s \in Server :
        /\ el'[s].current_term >= el[s].current_term
        /\ /\ el'[s].current_term = el[s].current_term
           /\ el[s].voted_for # Nil
           => el'[s].voted_for = el[s].voted_for]_vars

\* Leader Append-Only: as long as a node leads a term, its log only grows; no
\* delayed AppendEntries truncates it.
LeaderAppendOnly ==
    [][\A s \in Server :
        /\ el[s].role = "LEADER"
        /\ el'[s].role = "LEADER"
        /\ el'[s].current_term = el[s].current_term
        => /\ Len(log'[s]) >= Len(log[s])
           /\ SubSeq(log'[s], 1, Len(log[s])) = log[s]]_vars

\* Leader Completeness: what a node has committed is in the log of every leader
\* of the same or a later term.
LeaderCompleteness ==
    \A s, l \in Server :
        /\ el[l].role = "LEADER"
        /\ el[l].current_term >= el[s].current_term
        => \A i \in (1 .. commit_index[s]) \cap DOMAIN log[s] :
              i \in DOMAIN log[l] /\ log[l][i] = log[s][i]
=============================================================================
