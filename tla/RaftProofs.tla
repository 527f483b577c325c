----------------------------- MODULE RaftProofs -----------------------------
(***************************************************************************)
(* Proofs about Raft, for any number of nodes, terms, entries and          *)
(* messages: votes and leaders first, then the logs.                       *)
(***************************************************************************)
EXTENDS Raft, FiniteSetTheorems, SequenceTheorems, WellFoundedInduction, TLAPS

-----------------------------------------------------------------------------
(* Extrema of sets of naturals. *)

\* A non-empty set of naturals has a least element, which Min returns: the
\* minimum the commit index and the entry loop are computed from.
LEMMA MinNat ==
    ASSUME NEW T \in SUBSET Nat, T # {}
    PROVE  Min(T) \in T /\ \A y \in T : Min(T) <= y
<1> DEFINE R == {ss \in Nat \X Nat : ss[1] < ss[2]}
<1>1. IsWellFoundedOn(R, Nat)
  BY NatLessThanWellFounded, Zenon DEF OpToRel
<1> HIDE DEF R
<1>2. PICK x \in T : \A y \in T : ~(<<y, x>> \in R)
  BY <1>1, WFMin
<1>3. \A a, b \in Nat : a < b => <<a, b>> \in R
  BY DEF R
<1>4. \A y \in T : x <= y
  <2> TAKE y \in T
  <2>1. x \in Nat /\ y \in Nat
    OBVIOUS
  <2>2. ~(y < x)
    BY <1>2, <1>3, <2>1, Zenon
  <2>3. QED
    BY <2>1, <2>2
<1>5. QED
  BY <1>4 DEF Min

\* A non-empty set of naturals with an upper bound has a greatest element,
\* which Max returns.
LEMMA MaxNat ==
    ASSUME NEW T \in SUBSET Nat, T # {}, NEW b \in Nat, \A x \in T : x <= b
    PROVE  Max(T) \in T /\ \A y \in T : y <= Max(T)
<1> DEFINE D == {b - x : x \in T}
<1>1. D \in SUBSET Nat /\ D # {}
  <2>1. \A x \in T : b - x \in Nat
    OBVIOUS
  <2>2. D \in SUBSET Nat
    BY <2>1, Zenon
  <2>3. D # {}
    BY Zenon
  <2>4. QED
    BY <2>2, <2>3
<1>2. Min(D) \in D /\ \A y \in D : Min(D) <= y
  BY <1>1, MinNat
<1>3. PICK m \in T : Min(D) = b - m
  BY <1>2
<1>4. \A y \in T : y <= m
  <2> TAKE y \in T
  <2>1. b - y \in D
    OBVIOUS
  <2> HIDE DEF D
  <2>2. b - m <= b - y
    BY <1>2, <1>3, <2>1
  <2>3. QED
    BY <2>2
<1>5. QED
  BY <1>4 DEF Max

\* The two-element and three-element cases the handlers use.
LEMMA SmallExtrema ==
    ASSUME NEW a \in Nat, NEW b \in Nat, NEW c \in Nat
    PROVE  /\ Min({a, b}) \in {a, b} /\ Min({a, b}) <= a /\ Min({a, b}) <= b
           /\ Min({a, b, c}) \in {a, b, c}
           /\ Max({a, b}) \in {a, b} /\ a <= Max({a, b})
<1>1. /\ Min({a, b}) \in {a, b}
      /\ \A y \in {a, b} : Min({a, b}) <= y
  BY MinNat, {a, b} \in SUBSET Nat, {a, b} # {}
<1>2. Min({a, b, c}) \in {a, b, c}
  BY MinNat, {a, b, c} \in SUBSET Nat, {a, b, c} # {}
<1>3. /\ Max({a, b}) \in {a, b}
      /\ \A y \in {a, b} : y <= Max({a, b})
  BY MaxNat, {a, b} \in SUBSET Nat, {a, b} # {}, a + b \in Nat,
     \A x \in {a, b} : x <= a + b
<1>4. QED
  BY <1>1, <1>2, <1>3

-----------------------------------------------------------------------------
(* Types of the helpers. *)

\* TypeOK is not inductive by itself: raft_replicate_to_peer reads the log from
\* next_index on, so its entries are entries only if a leader's next_index
\* never falls to 0.
TypeInv ==
    /\ TypeOK
    /\ \A s \in Server : el[s].role = "LEADER" =>
          \A p \in Server : next_index[s][p] >= 1

\* A function changed at one point.
LEMMA OnePoint ==
    ASSUME NEW S, NEW T, NEW g \in [S -> T], NEW x \in S, NEW y
    PROVE  /\ [g EXCEPT ![x] = y][x] = y
           /\ \A z \in S : z # x => [g EXCEPT ![x] = y][z] = g[z]
           /\ y \in T => [g EXCEPT ![x] = y] \in [S -> T]
OBVIOUS

LEMMA StepDownType ==
    ASSUME NEW e, NEW t \in Nat
    PROVE  StepDown(e, t) \in Election
BY DEF StepDown, Election, Role

LEMMA CatchUpType ==
    ASSUME NEW e \in Election, NEW t \in Nat
    PROVE  /\ CatchUp(e, t) \in Election
           /\ CatchUp(e, t).current_term >= e.current_term
           /\ CatchUp(e, t).current_term >= t
           /\ CatchUp(e, t).role = "LEADER" => CatchUp(e, t) = e
BY StepDownType DEF CatchUp, StepDown, Election, Role

LEMMA TermAtType ==
    ASSUME NEW lg \in Seq(Entry), NEW i \in Int
    PROVE  TermAt(lg, i) \in Nat
<1>1. i \in 1 .. Len(lg) => lg[i] \in Entry
  OBVIOUS
<1>2. QED
  BY <1>1 DEF TermAt, Entry

LEMMA LastType ==
    ASSUME NEW lg \in Seq(Entry)
    PROVE  LastIndex(lg) \in Nat /\ LastTerm(lg) \in Nat
BY TermAtType DEF LastIndex, LastTerm

\* What the entry loop of raft_handle_append_entries_with_log leaves is a log.
LEMMA MergeEntriesType ==
    ASSUME NEW lg \in Seq(Entry), NEW entries \in Seq(Entry),
           NEW prev \in 0 .. Len(lg)
    PROVE  MergeEntries(lg, prev, entries) \in Seq(Entry)
<1> DEFINE conflicts == {k \in 1 .. Len(entries) :
                            /\ prev + k <= Len(lg)
                            /\ lg[prev + k].term # entries[k].term}
           T == conflicts \cup {Len(lg) - prev + 1}
           from == Min(T)
<1>1. T \in SUBSET (Nat \ {0}) /\ T # {}
  OBVIOUS
<1>2. from \in T /\ \A y \in T : from <= y
  BY <1>1, MinNat
<1>3. from \in Nat /\ 1 <= from /\ from <= Len(lg) - prev + 1
  BY <1>1, <1>2
<1>4. MergeEntries(lg, prev, entries) =
        SubSeq(lg, 1, prev + from - 1) \o SubSeq(entries, from, Len(entries))
  BY DEF MergeEntries
<1> HIDE DEF conflicts, T, from
<1>5. SubSeq(lg, 1, prev + from - 1) \in Seq(Entry)
  BY <1>3
<1>6. SubSeq(entries, from, Len(entries)) \in Seq(Entry)
  BY <1>3
<1>7. QED
  BY <1>4, <1>5, <1>6

LEMMA PersistStateType ==
    ASSUME TypeOK, NEW s \in Server, NEW e \in Election, PersistState(s, e)
    PROVE  /\ disk' \in [Server -> [current_term : Nat,
                                     voted_for : Server \cup {Nil}]]
           /\ used' \in [BudgetKind -> Nat]
<1> DEFINE d == [current_term |-> e.current_term, voted_for |-> e.voted_for]
<1>1. d \in [current_term : Nat, voted_for : Server \cup {Nil}]
  BY DEF Election
<1>a. /\ disk \in [Server -> [current_term : Nat, voted_for : Server \cup {Nil}]]
      /\ used \in [BudgetKind -> Nat]
  BY DEF TypeOK
<1>2. CASE disk' = [disk EXCEPT ![s] = d] /\ UNCHANGED used
  <2> HIDE DEF d
  <2>1. QED
    BY <1>1, <1>2, <1>a
<1>3. CASE Spend("savefail") /\ UNCHANGED disk
  BY <1>3, <1>a DEF Spend, BudgetKind
<1>4. QED
  BY <1>2, <1>3 DEF PersistState

LEMMA PersistCatchUpType ==
    ASSUME TypeOK, NEW s \in Server, NEW t \in Nat, PersistCatchUp(s, t)
    PROVE  /\ disk' \in [Server -> [current_term : Nat,
                                     voted_for : Server \cup {Nil}]]
           /\ used' \in [BudgetKind -> Nat]
<1>1. CASE t > el[s].current_term
  BY <1>1, PersistStateType, StepDownType DEF PersistCatchUp
<1>2. CASE ~(t > el[s].current_term)
  BY <1>2 DEF PersistCatchUp, TypeOK
<1>3. QED
  BY <1>1, <1>2

LEMMA SpendType ==
    ASSUME TypeOK, NEW k \in BudgetKind, Spend(k)
    PROVE  used' \in [BudgetKind -> Nat]
BY DEF TypeOK, Spend

\* The saves of a vote keep the types of what they touch.
LEMMA PersistVoteType ==
    ASSUME TypeOK, NEW s \in Server, NEW e \in Election, NEW voted \in Election,
           PersistVote(s, e, voted)
    PROVE  /\ disk' \in [Server -> [current_term : Nat, voted_for : Server \cup {Nil}]]
           /\ used' \in [BudgetKind -> Nat]
<1>1. CASE PersistState(s, voted)
  BY <1>1, PersistStateType
<1>2. CASE ~PersistState(s, voted)
  <2>1. /\ Spend("savefail")
        /\ disk' = [disk EXCEPT ![s] = [current_term |-> e.current_term,
                                        voted_for |-> Nil]]
    BY <1>2 DEF PersistVote
  <2>2. used' \in [BudgetKind -> Nat]
    BY <2>1, SpendType DEF BudgetKind
  <2>3. [current_term |-> e.current_term, voted_for |-> Nil]
          \in [current_term : Nat, voted_for : Server \cup {Nil}]
    BY DEF Election
  <2>4. QED
    BY <2>1, <2>2, <2>3 DEF TypeOK
<1>3. QED
  BY <1>1, <1>2


LEMMA BecomeLeaderType ==
    ASSUME TypeInv, NEW s \in Server, NEW e \in Election, BecomeLeader(s, e)
    PROVE  /\ el' \in [Server -> Election]
           /\ next_index' \in [Server -> [Server -> Nat]]
           /\ match_index' \in [Server -> [Server -> Nat]]
           /\ commit_index' \in [Server -> Nat]
           /\ elected' \subseteq [term : Nat, server : Server]
           /\ \A r \in Server : el'[r].role = "LEADER" =>
                \A p \in Server : next_index'[r][p] >= 1
<1>1. LastIndex(log[s]) \in Nat
  BY LastType DEF TypeInv, TypeOK
<1>2. [e EXCEPT !.role = "LEADER", !.current_leader = s] \in Election
  BY DEF Election, Role
<1>3. el' \in [Server -> Election]
  <2>1. PICK f : f = [e EXCEPT !.role = "LEADER", !.current_leader = s]
    OBVIOUS
  <2>2. el' = [el EXCEPT ![s] = f] /\ f \in Election
    BY <1>2, <2>1, Zenon DEF BecomeLeader
  <2>3. QED
    BY <2>2, OnePoint DEF TypeInv, TypeOK
<1>4. next_index' \in [Server -> [Server -> Nat]]
  <2>1. PICK row : row = [p \in Server |-> LastIndex(log[s]) + 1]
    OBVIOUS
  <2>2. row \in [Server -> Nat]
    BY <1>1, <2>1
  <2>3. next_index' = [next_index EXCEPT ![s] = row]
    BY <2>1, Zenon DEF BecomeLeader
  <2>4. QED
    BY <2>2, <2>3, OnePoint DEF TypeInv, TypeOK
<1>5. match_index' \in [Server -> [Server -> Nat]]
  BY DEF BecomeLeader, TypeInv, TypeOK
<1>6. commit_index' \in [Server -> Nat]
  BY <1>1 DEF BecomeLeader, TypeInv, TypeOK
<1>7. elected' \subseteq [term : Nat, server : Server]
  BY SMTT(30) DEF BecomeLeader, TypeInv, TypeOK, Election
<1>8. ASSUME NEW r \in Server, el'[r].role = "LEADER", NEW p \in Server
      PROVE  next_index'[r][p] >= 1
  <2>1. CASE r = s
    BY <1>1, <2>1 DEF BecomeLeader, TypeInv, TypeOK
  <2>2. CASE r # s
    BY <1>8, <2>2 DEF BecomeLeader, TypeInv, TypeOK
  <2>3. QED
    BY <2>1, <2>2
<1>9. QED
  BY <1>3, <1>4, <1>5, <1>6, <1>7, <1>8

LEMMA CampaignType ==
    ASSUME TypeInv, NEW s \in Server, Campaign(s)
    PROVE  /\ el' \in [Server -> Election]
           /\ next_index' \in [Server -> [Server -> Nat]]
           /\ match_index' \in [Server -> [Server -> Nat]]
           /\ commit_index' \in [Server -> Nat]
           /\ elected' \subseteq [term : Nat, server : Server]
           /\ disk' \in [Server -> [current_term : Nat,
                                    voted_for : Server \cup {Nil}]]
           /\ used' \in [BudgetKind -> Nat]
           /\ msgs' \subseteq Message
           /\ \A r \in Server : el'[r].role = "LEADER" =>
                \A p \in Server : next_index'[r][p] >= 1
<1> DEFINE e == [role |-> "CANDIDATE", current_term |-> el[s].current_term + 1,
                 voted_for |-> s, current_leader |-> Nil, votes |-> {s},
                 armed |-> TRUE]
           request(p) == [type |-> "RequestVote", src |-> s, dst |-> p,
                          term |-> e.current_term,
                          last_log_index |-> LastIndex(log[s]),
                          last_log_term |-> LastTerm(log[s])]
<1>1. el[s] \in Election /\ log[s] \in Seq(Entry)
  BY DEF TypeInv, TypeOK
<1>2. e \in Election
  BY <1>1 DEF Election, Role
<1>3. PersistState(s, e)
  BY DEF Campaign
<1>4. /\ disk' \in [Server -> [current_term : Nat,
                               voted_for : Server \cup {Nil}]]
      /\ used' \in [BudgetKind -> Nat]
  BY <1>2, <1>3, PersistStateType DEF TypeInv
<1>5. CASE SingleNode
  <2>1. BecomeLeader(s, e) /\ msgs' = msgs
    BY <1>5 DEF Campaign
  <2>2. QED
    BY <1>2, <1>4, <2>1, BecomeLeaderType DEF TypeInv, TypeOK
<1>6. CASE ~SingleNode
  <2>1. /\ el' = [el EXCEPT ![s] = e]
        /\ msgs' = msgs \cup {request(p) : p \in Server \ {s}}
        /\ UNCHANGED <<next_index, match_index, commit_index, elected>>
    BY <1>6, Zenon DEF Campaign, Send
  <2>2. \A p \in Server : request(p) \in Message
    BY <1>1, <1>2, LastType DEF Message, VoteRequest, Election
  <2>3. msgs' \subseteq Message
    BY <2>1, <2>2 DEF TypeInv, TypeOK
  <2>4. el' \in [Server -> Election]
    BY <1>2, <2>1 DEF TypeInv, TypeOK
  <2>5. \A r \in Server : el'[r].role = "LEADER" =>
                \A p \in Server : next_index'[r][p] >= 1
    BY <2>1 DEF TypeInv, TypeOK
  <2>6. QED
    BY <1>4, <2>1, <2>3, <2>4, <2>5 DEF TypeInv, TypeOK
<1>7. QED
  BY <1>5, <1>6

\* raft_replicate_log sends well-formed messages: this is where a leader's
\* next_index must be positive.
LEMMA ReplicateLogType ==
    ASSUME TypeInv, NEW s \in Server, NEW lg \in Seq(Entry),
           el[s].role = "LEADER", ReplicateLog(s, lg)
    PROVE  msgs' \subseteq Message
<1>1. ASSUME NEW p \in Server PROVE AppendTo(s, p, lg) \in Message
  <2> DEFINE next == next_index[s][p]
             prev == IF next > 1 THEN next - 1 ELSE 0
             last == Min({LastIndex(lg), next + MaxEntriesPerAppend - 1})
  <2>1. next \in Nat /\ next >= 1
    BY DEF TypeInv, TypeOK
  <2>2. prev \in Nat /\ TermAt(lg, prev) \in Nat
    <3>1. prev \in Nat
      BY <2>1
    <3> HIDE DEF prev
    <3>2. QED
      BY <3>1, TermAtType
  <2>3. last \in Nat /\ last <= Len(lg)
    <3>1. Len(lg) \in Nat /\ next + MaxEntriesPerAppend - 1 \in Nat
      BY <2>1, RaftAssumption
    <3> HIDE DEF next
    <3>2. last \in {Len(lg), next + MaxEntriesPerAppend - 1} /\ last <= Len(lg)
      BY <3>1, SmallExtrema DEF LastIndex
    <3>3. QED
      BY <3>1, <3>2
  <2>4. el[s].current_term \in Nat /\ commit_index[s] \in Nat
    BY DEF TypeInv, TypeOK, Election
  <2>5. AppendTo(s, p, lg) =
          [type |-> "AppendEntries", src |-> s, dst |-> p,
           term |-> el[s].current_term,
           prev_log_index |-> prev, prev_log_term |-> TermAt(lg, prev),
           entries |-> SubSeq(lg, next, last),
           leader_commit |-> commit_index[s]]
    BY DEF AppendTo
  <2> HIDE DEF next, prev, last
  <2>6. SubSeq(lg, next, last) \in Seq(Entry)
    BY <2>1, <2>3
  <2>7. AppendTo(s, p, lg) \in AppendEntries
    BY <2>2, <2>4, <2>5, <2>6 DEF AppendEntries
  <2>8. QED
    BY <2>7 DEF Message
<1>2. QED
  BY <1>1 DEF ReplicateLog, Send, TypeInv, TypeOK

LEMMA ApplyCommittedType ==
    ASSUME TypeOK, NEW s \in Server, NEW lg \in Seq(Entry), NEW commit \in Nat,
           ApplyCommitted(s, lg, commit)
    PROVE  /\ last_applied' \in [Server -> Nat]
           /\ applied' \subseteq [index : Nat, entry : Entry]
<1>1. Max({last_applied[s], commit}) \in Nat
  <2>1. last_applied[s] \in Nat
    BY DEF TypeOK
  <2>2. Max({last_applied[s], commit}) \in {last_applied[s], commit}
    BY <2>1, SmallExtrema
  <2>3. QED
    BY <2>1, <2>2
<1>2. last_applied' \in [Server -> Nat]
  BY <1>1 DEF ApplyCommitted, TypeOK
<1>3. \A i \in DOMAIN lg : lg[i] \in Entry /\ i \in Nat
  OBVIOUS
<1>4. applied' \subseteq [index : Nat, entry : Entry]
  BY <1>3 DEF ApplyCommitted, TypeOK
<1>5. QED
  BY <1>2, <1>4

LEMMA ReplyType ==
    ASSUME TypeInv, NEW s \in Server, NEW m, m.src \in Server, NEW t \in Nat,
           NEW ok \in BOOLEAN, NEW match \in Nat, Reply(s, m, t, ok, match)
    PROVE  msgs' \subseteq Message
<1>1. [type |-> "AppendEntriesResponse", src |-> s, dst |-> m.src, term |-> t,
       success |-> ok, match_index |-> match] \in AppendEntriesResponse
  BY DEF AppendEntriesResponse
<1>2. QED
  BY <1>1 DEF Reply, Send, TypeInv, TypeOK, Message

\* raft_advance_commit_index never moves the commit index back.
LEMMA CommitToType ==
    ASSUME TypeOK, NEW s \in Server, NEW match
    PROVE  CommitTo(s, match) \in Nat /\ CommitTo(s, match) >= commit_index[s]
<1> DEFINE T == {commit_index[s]} \cup
        {n \in commit_index[s] + 1 .. LastIndex(log[s]) :
            /\ TermAt(log[s], n) = el[s].current_term
            /\ IsMajority({s} \cup {p \in Server \ {s} : match[p] >= n})}
<1>1. commit_index[s] \in Nat /\ LastIndex(log[s]) \in Nat
  BY LastType DEF TypeOK
<1>2. /\ T \in SUBSET Nat /\ T # {}
      /\ \A x \in T : x <= commit_index[s] + LastIndex(log[s])
  BY <1>1
<1>3. commit_index[s] + LastIndex(log[s]) \in Nat
  BY <1>1
<1>4. CommitTo(s, match) = Max(T) /\ commit_index[s] \in T
  BY DEF CommitTo
<1> HIDE DEF T
<1>5. Max(T) \in T /\ \A y \in T : y <= Max(T)
  BY <1>2, <1>3, MaxNat
<1>6. QED
  BY <1>1, <1>2, <1>4, <1>5

\* A restarted process has well-typed state.
LEMMA RebornType ==
    ASSUME TypeInv, NEW s \in Server,
           NEW d \in [current_term : Nat, voted_for : Server \cup {Nil}],
           Reborn(s, d), used' \in [BudgetKind -> Nat],
           disk' \in [Server -> [current_term : Nat,
                                 voted_for : Server \cup {Nil}]]
    PROVE  TypeInv'
<1>1. [role |-> "FOLLOWER", current_term |-> d.current_term,
       voted_for |-> d.voted_for, current_leader |-> Nil,
       votes |-> {}, armed |-> FALSE] \in Election
  BY DEF Election, Role
<1>2. el' \in [Server -> Election]
  BY <1>1 DEF Reborn, TypeInv, TypeOK
<1>3. log' \in [Server -> Seq(Entry)]
  <2>1. << >> \in Seq(Entry)
    OBVIOUS
  <2>2. log \in [Server -> Seq(Entry)] /\ log' = [log EXCEPT ![s] = << >>]
    BY DEF Reborn, TypeInv, TypeOK
  <2>3. QED
    BY <2>1, <2>2
<1>4. transfer' \in [Server -> Transfer]
  BY DEF Reborn, TypeInv, TypeOK, Transfer
<1>5. \A r \in Server : el'[r].role = "LEADER" =>
         \A p \in Server : next_index'[r][p] >= 1
  BY DEF Reborn, TypeInv, TypeOK
<1>6. QED
  BY <1>2, <1>3, <1>4, <1>5 DEF Reborn, TypeInv, TypeOK

-----------------------------------------------------------------------------
(* The type invariant. *)

LEMMA TypeInit == Init => TypeInv
<1> SUFFICES ASSUME Init PROVE TypeInv
  OBVIOUS
<1>1. el \in [Server -> Election]
  BY DEF Init, Election, Role
<1>2. log \in [Server -> Seq(Entry)]
  BY DEF Init
<1>3. transfer \in [Server -> Transfer]
  BY DEF Init, Transfer
<1>4. disk \in [Server -> [current_term : Nat, voted_for : Server \cup {Nil}]]
  BY DEF Init
<1>5. used \in [BudgetKind -> Nat]
  BY RaftAssumption DEF Init
<1>6. QED
  BY <1>1, <1>2, <1>3, <1>4, <1>5 DEF Init, TypeInv, TypeOK

\* The handlers of a delivered message keep the types.
LEMMA TypeReceive ==
    ASSUME TypeInv, NEW m \in msgs, Receive(m.dst, m)
    PROVE  TypeInv'
<1> DEFINE s == m.dst
<1>1. m \in Message
  BY DEF TypeInv, TypeOK
<1>2. m.src \in Server /\ m.dst \in Server /\ m.term \in Nat
  BY <1>1 DEF Message, VoteRequest, VoteResponse, AppendEntries,
              AppendEntriesResponse, TimeoutNow
<1>3. s \in Server /\ el[s] \in Election /\ log[s] \in Seq(Entry)
  BY <1>2 DEF TypeInv, TypeOK
<1>4. /\ CatchUp(el[s], m.term) \in Election
      /\ CatchUp(el[s], m.term).role = "LEADER" =>
            CatchUp(el[s], m.term) = el[s]
  BY <1>2, <1>3, CatchUpType
<1>5. LastIndex(log[s]) \in Nat /\ LastTerm(log[s]) \in Nat
  BY <1>3, LastType
<1> HIDE DEF s
<1>6. CASE CrashAfterStepDown(s, m)
  <2> DEFINE d == [current_term |-> m.term, voted_for |-> Nil]
  <2>1. /\ Spend("restart") /\ disk' = [disk EXCEPT ![s] = d] /\ Reborn(s, d)
    BY <1>6 DEF CrashAfterStepDown
  <2>2. used' \in [BudgetKind -> Nat]
    BY <2>1, SpendType DEF TypeInv, BudgetKind
  <2>3. d \in [current_term : Nat, voted_for : Server \cup {Nil}]
    BY <1>2
  <2>4. disk' \in [Server -> [current_term : Nat, voted_for : Server \cup {Nil}]]
    BY <2>1, <2>3 DEF TypeInv, TypeOK
  <2>5. QED
    BY <1>3, <2>1, <2>2, <2>3, <2>4, RebornType
<1>7. CASE HandleRequestVote(s, m)
  <2> DEFINE e == CatchUp(el[s], m.term)
             voted == [e EXCEPT !.voted_for = m.src, !.armed = TRUE]
  <2>1. /\ voted \in Election
        /\ voted.role = e.role
    BY <1>2, <1>4 DEF Election
  <2>2. PICK g \in BOOLEAN :
        /\ msgs' = msgs \cup {[type |-> "RequestVoteResponse", src |-> s,
                    dst |-> m.src, term |-> e.current_term, vote_granted |-> g]}
        /\ \/ el' = [el EXCEPT ![s] = voted] /\ PersistVote(s, e, voted)
           \/ el' = [el EXCEPT ![s] = e] /\ PersistCatchUp(s, m.term)
    BY <1>7 DEF HandleRequestVote, Send
  <2>3. UNCHANGED <<running, log, commit_index, last_applied, next_index,
                    match_index, transfer, elected, applied>>
    BY <1>7 DEF HandleRequestVote
  <2>4. /\ disk' \in [Server -> [current_term : Nat, voted_for : Server \cup {Nil}]]
        /\ used' \in [BudgetKind -> Nat]
    BY <1>2, <1>3, <1>4, <2>1, <2>2, PersistVoteType, PersistCatchUpType DEF TypeInv
  <2>5. el' \in [Server -> Election]
    <3>1. e \in Election
      BY <1>4
    <3> HIDE DEF e, voted
    <3>2. PICK f \in Election : el' = [el EXCEPT ![s] = f]
      BY <2>1, <2>2, <3>1
    <3>3. QED
      BY <3>2, OnePoint DEF TypeInv, TypeOK
  <2>6. msgs' \subseteq Message
    <3>1. \A b \in BOOLEAN :
            [type |-> "RequestVoteResponse", src |-> s, dst |-> m.src,
             term |-> e.current_term, vote_granted |-> b]
            \in VoteResponse("RequestVoteResponse")
      BY <1>2, <1>3, <1>4 DEF VoteResponse, Election
    <3>2. QED
      BY <2>2, <3>1 DEF TypeInv, TypeOK, Message
  <2>7. \A r \in Server : el'[r].role = "LEADER" => el[r].role = "LEADER"
    BY <1>3, <1>4, <2>1, <2>2 DEF TypeInv, TypeOK
  <2>8. QED
    BY <2>3, <2>4, <2>5, <2>6, <2>7 DEF TypeInv, TypeOK
<1>8. CASE HandleRequestVoteResponse(s, m)
  <2> DEFINE e == CatchUp(el[s], m.term)
             counted == IF m.term = el[s].current_term /\ m.vote_granted
                          THEN [e EXCEPT !.votes = @ \cup {m.src}] ELSE e
  <2>1. counted \in Election /\ counted.role = e.role
    BY <1>2, <1>4 DEF Election
  <2>2. PersistCatchUp(s, m.term)
    BY <1>8 DEF HandleRequestVoteResponse
  <2>3. /\ disk' \in [Server -> [current_term : Nat, voted_for : Server \cup {Nil}]]
        /\ used' \in [BudgetKind -> Nat]
    BY <1>2, <1>3, <2>2, PersistCatchUpType DEF TypeInv
  <2>4. UNCHANGED <<running, log, last_applied, transfer, msgs, applied>>
    BY <1>8 DEF HandleRequestVoteResponse
  <2>5. CASE BecomeLeader(s, counted)
    BY <1>3, <2>1, <2>3, <2>4, <2>5, BecomeLeaderType DEF TypeInv, TypeOK
  <2>6. CASE /\ el' = [el EXCEPT ![s] = counted]
             /\ UNCHANGED <<next_index, match_index, commit_index, elected>>
    <3>1. el' \in [Server -> Election]
      BY <1>3, <2>1, <2>6 DEF TypeInv, TypeOK
    <3>2. \A r \in Server : el'[r].role = "LEADER" => el[r].role = "LEADER"
      BY <1>3, <1>4, <2>1, <2>6 DEF TypeInv, TypeOK
    <3>3. QED
      BY <2>3, <2>4, <2>6, <3>1, <3>2 DEF TypeInv, TypeOK
  <2>7. QED
    BY <1>8, <2>5, <2>6 DEF HandleRequestVoteResponse
<1>9. CASE HandlePreVote(s, m)
  <2>1. PICK g \in BOOLEAN :
        msgs' = msgs \cup {[type |-> "PreVoteResponse", src |-> s,
              dst |-> m.src, term |-> el[s].current_term, vote_granted |-> g]}
    BY <1>9 DEF HandlePreVote, Send
  <2>2. msgs' \subseteq Message
    <3>1. \A b \in BOOLEAN :
            [type |-> "PreVoteResponse", src |-> s, dst |-> m.src,
             term |-> el[s].current_term, vote_granted |-> b]
            \in VoteResponse("PreVoteResponse")
      BY <1>2, <1>3 DEF VoteResponse, Election
    <3>2. QED
      BY <2>1, <3>1 DEF TypeInv, TypeOK, Message
  <2>3. QED
    BY <1>9, <2>2 DEF HandlePreVote, TypeInv, TypeOK
<1>10. CASE HandlePreVoteResponse(s, m)
  <2> DEFINE votes == IF m.vote_granted THEN el[s].votes \cup {m.src}
                                        ELSE el[s].votes
             down == StepDown(el[s], m.term)
  <2>1. UNCHANGED <<running, log, last_applied, transfer, applied>>
    BY <1>10 DEF HandlePreVoteResponse
  <2>2. CASE /\ el' = [el EXCEPT ![s] = down] /\ PersistState(s, down)
             /\ UNCHANGED <<next_index, match_index, commit_index, elected,
                            msgs>>
    <3>1. down \in Election /\ down.role = "FOLLOWER"
      BY <1>2, StepDownType DEF StepDown
    <3>2. /\ disk' \in [Server -> [current_term : Nat,
                                   voted_for : Server \cup {Nil}]]
          /\ used' \in [BudgetKind -> Nat]
      BY <1>3, <2>2, <3>1, PersistStateType DEF TypeInv
    <3>3. /\ el' \in [Server -> Election]
          /\ \A r \in Server : el'[r].role = "LEADER" => el[r].role = "LEADER"
      BY <1>3, <2>2, <3>1 DEF TypeInv, TypeOK
    <3>4. QED
      BY <2>1, <2>2, <3>2, <3>3 DEF TypeInv, TypeOK
  <2>3. CASE Campaign(s)
    BY <1>3, <2>1, <2>3, CampaignType DEF TypeInv, TypeOK
  <2>4. CASE /\ el' = [el EXCEPT ![s].votes = votes]
             /\ UNCHANGED <<next_index, match_index, commit_index, elected,
                            msgs, disk, used>>
    <3>1. [el[s] EXCEPT !.votes = votes] \in Election
      BY <1>2, <1>3 DEF Election
    <3>2. /\ el' \in [Server -> Election]
          /\ \A r \in Server : el'[r].role = "LEADER" => el[r].role = "LEADER"
      BY <1>3, <2>4, <3>1 DEF TypeInv, TypeOK, Election
    <3>3. QED
      BY <2>1, <2>4, <3>2 DEF TypeInv, TypeOK
  <2>5. QED
    BY <1>10, <2>2, <2>3, <2>4 DEF HandlePreVoteResponse
<1>11. CASE HandleTimeoutNow(s, m)
  BY <1>3, <1>11, CampaignType DEF HandleTimeoutNow, TypeInv, TypeOK
<1>12. CASE HandleHeartbeat(s, m)
  <2> DEFINE e == CatchUp(el[s], m.term)
             candidate == e.role \in {"CANDIDATE", "PRE_CANDIDATE"}
             led == [e EXCEPT !.current_leader = m.src, !.armed = TRUE,
                              !.role = IF candidate THEN "FOLLOWER" ELSE @,
                              !.votes = IF candidate THEN {} ELSE @]
  <2>1. led \in Election /\ (led.role = "LEADER" => e.role = "LEADER")
    BY <1>2, <1>4 DEF Election, Role
  <2>2. PersistCatchUp(s, m.term)
    BY <1>12 DEF HandleHeartbeat
  <2>3. /\ disk' \in [Server -> [current_term : Nat, voted_for : Server \cup {Nil}]]
        /\ used' \in [BudgetKind -> Nat]
    BY <1>2, <1>3, <2>2, PersistCatchUpType DEF TypeInv
  <2>4. UNCHANGED <<running, log, last_applied, next_index, match_index,
                    transfer, elected, applied>>
    BY <1>12 DEF HandleHeartbeat
  <2>5. el' = [el EXCEPT ![s] = led] \/ el' = [el EXCEPT ![s] = e]
    BY <1>12 DEF HandleHeartbeat
  <2>6. /\ el' \in [Server -> Election]
        /\ \A r \in Server : el'[r].role = "LEADER" => el[r].role = "LEADER"
    <3>1. e \in Election /\ (e.role = "LEADER" => e = el[s])
      BY <1>4
    <3> HIDE DEF e, led
    <3>2. QED
      BY <1>3, <2>1, <2>5, <3>1 DEF TypeInv, TypeOK
  <2>7. PICK ok \in BOOLEAN, match \in Nat : Reply(s, m, e.current_term, ok, match)
    BY <1>5, <1>12 DEF HandleHeartbeat
  <2>8. msgs' \subseteq Message
    BY <1>2, <1>3, <1>4, <2>7, ReplyType DEF TypeInv, Election
  <2>9. commit_index' \in [Server -> Nat]
    <3>1. m.leader_commit \in Nat
      BY <1>1, <1>12 DEF HandleHeartbeat, Message, VoteRequest, VoteResponse,
            AppendEntries, AppendEntriesResponse, TimeoutNow
    <3>2. Min({m.leader_commit, LastIndex(log[s])}) \in Nat
      BY <1>5, <3>1, SmallExtrema
    <3>3. \/ UNCHANGED commit_index
          \/ commit_index' = [commit_index EXCEPT ![s] =
                IF m.leader_commit > @
                  THEN Min({m.leader_commit, LastIndex(log[s])}) ELSE @]
      BY <1>12 DEF HandleHeartbeat
    <3>4. QED
      BY <1>3, <3>2, <3>3 DEF TypeInv, TypeOK
  <2>10. QED
    BY <2>3, <2>4, <2>6, <2>8, <2>9 DEF TypeInv, TypeOK
<1>13. CASE HandleAppendEntries(s, m)
  <2> DEFINE e == CatchUp(el[s], m.term)
             accepted == Accepts(e, m)
             led == [e EXCEPT !.current_leader = m.src,
                              !.role = IF @ = "CANDIDATE" THEN "FOLLOWER" ELSE @,
                              !.votes = IF e.role = "CANDIDATE" THEN {} ELSE @]
             prev == m.prev_log_index
             consistent == prev > 0 => /\ TermAt(log[s], prev) # 0
                                       /\ TermAt(log[s], prev) = m.prev_log_term
             lg == MergeEntries(log[s], prev, m.entries)
             commit == IF m.leader_commit > commit_index[s]
                    THEN Min({m.leader_commit, prev + Len(m.entries), Len(lg)})
                    ELSE commit_index[s]
  <2>1. /\ m.leader_commit \in Nat /\ prev \in Nat
        /\ m.entries \in Seq(Entry)
    BY <1>1, <1>13 DEF HandleAppendEntries, Message, VoteRequest, VoteResponse,
            AppendEntries, AppendEntriesResponse, TimeoutNow
  <2>2. led \in Election /\ (led.role = "LEADER" => e.role = "LEADER")
    BY <1>2, <1>4 DEF Election, Role
  <2>3. PersistCatchUp(s, m.term)
    BY <1>13 DEF HandleAppendEntries
  <2>4. /\ disk' \in [Server -> [current_term : Nat, voted_for : Server \cup {Nil}]]
        /\ used' \in [BudgetKind -> Nat]
    BY <1>2, <1>3, <2>3, PersistCatchUpType DEF TypeInv
  <2>5. UNCHANGED <<running, next_index, match_index, transfer, elected>>
    BY <1>13 DEF HandleAppendEntries
  <2>6. el' = [el EXCEPT ![s] = led] \/ el' = [el EXCEPT ![s] = e]
    BY <1>13, Zenon DEF HandleAppendEntries
  <2>7. /\ el' \in [Server -> Election]
        /\ \A r \in Server : el'[r].role = "LEADER" => el[r].role = "LEADER"
    <3>1. e \in Election /\ (e.role = "LEADER" => el[s].role = "LEADER")
      BY <1>4
    <3> HIDE DEF e, led
    <3>2. PICK f \in Election : /\ el' = [el EXCEPT ![s] = f]
                                /\ f.role = "LEADER" => el[s].role = "LEADER"
      BY <2>2, <2>6, <3>1
    <3>3. QED
      BY <1>3, <3>2, OnePoint DEF TypeInv, TypeOK
  <2>8. CASE accepted /\ consistent
    <3>1. /\ log' = [log EXCEPT ![s] = lg]
          /\ commit_index' = [commit_index EXCEPT ![s] = commit]
          /\ \/ ApplyCommitted(s, lg, commit)
             \/ UNCHANGED <<last_applied, applied>>
          /\ Reply(s, m, e.current_term, TRUE, LastIndex(lg))
      BY <1>13, <2>8 DEF HandleAppendEntries
    <3>2. prev \in 0 .. Len(log[s])
      BY <1>3, <2>1, <2>8 DEF TermAt
    <3>3. lg \in Seq(Entry)
      BY <1>3, <2>1, <3>2, MergeEntriesType
    <3> HIDE DEF lg
    <3>4. commit \in Nat
      <4>1. Len(lg) \in Nat /\ commit_index[s] \in Nat
        BY <1>3, <3>3 DEF TypeInv, TypeOK
      <4>2. prev + Len(m.entries) \in Nat
        BY <2>1
      <4> DEFINE sent == prev + Len(m.entries)
      <4> HIDE DEF sent, prev
      <4>3. Min({m.leader_commit, sent, Len(lg)})
              \in {m.leader_commit, sent, Len(lg)}
        BY <2>1, <4>1, <4>2, SmallExtrema, Zenon DEF sent
      <4>4. QED
        BY <2>1, <4>1, <4>2, <4>3 DEF sent
    <3> HIDE DEF commit
    <3>5. /\ last_applied' \in [Server -> Nat]
          /\ applied' \subseteq [index : Nat, entry : Entry]
      BY <1>3, <3>1, <3>3, <3>4, ApplyCommittedType DEF TypeInv, TypeOK
    <3>6. msgs' \subseteq Message
      BY <1>2, <1>3, <1>4, <3>1, <3>3, LastType, ReplyType DEF TypeInv, Election
    <3>7. log' \in [Server -> Seq(Entry)] /\ commit_index' \in [Server -> Nat]
      BY <1>3, <3>1, <3>3, <3>4 DEF TypeInv, TypeOK
    <3>8. QED
      BY <2>4, <2>5, <2>7, <3>5, <3>6, <3>7 DEF TypeInv, TypeOK
  <2>9. CASE ~(accepted /\ consistent)
    <3>1. /\ UNCHANGED <<log, commit_index, last_applied, applied>>
          /\ Reply(s, m, e.current_term, FALSE,
                   IF accepted THEN LastIndex(log[s]) ELSE 0)
      BY <1>13, <2>9 DEF HandleAppendEntries, logVars
    <3>2. msgs' \subseteq Message
      BY <1>2, <1>3, <1>4, <1>5, <3>1, ReplyType DEF TypeInv, Election
    <3>3. QED
      BY <2>4, <2>5, <2>7, <3>1, <3>2 DEF TypeInv, TypeOK
  <2>10. QED
    BY <2>8, <2>9
<1>14. CASE HandleAppendEntriesResponse(s, m)
  <2> DEFINE raised == m.success /\ m.match_index > match_index[s][m.src]
             match == IF raised
                        THEN [match_index[s] EXCEPT ![m.src] = m.match_index]
                        ELSE match_index[s]
             next == IF raised
                       THEN [next_index[s] EXCEPT ![m.src] = m.match_index + 1]
                     ELSE IF ~m.success /\ next_index[s][m.src] > 1
                       THEN [next_index[s] EXCEPT ![m.src] = @ - 1]
                     ELSE next_index[s]
             commit == IF m.success THEN CommitTo(s, match) ELSE commit_index[s]
  <2>1. m.match_index \in Nat
    BY <1>1, <1>14 DEF HandleAppendEntriesResponse, Message, VoteRequest,
            VoteResponse, AppendEntries, AppendEntriesResponse, TimeoutNow
  <2>2. /\ match_index[s] \in [Server -> Nat] /\ next_index[s] \in [Server -> Nat]
        /\ \A p \in Server : next_index[s][p] >= 1
    BY <1>3, <1>14 DEF HandleAppendEntriesResponse, TypeInv, TypeOK
  <2>3. match \in [Server -> Nat]
    BY <1>2, <2>1, <2>2
  <2>4. next \in [Server -> Nat] /\ \A p \in Server : next[p] >= 1
    BY <1>2, <2>1, <2>2
  <2>5. commit \in Nat
    BY <1>3, CommitToType DEF TypeInv, TypeOK
  <2>6. /\ el' = [el EXCEPT ![s] = CatchUp(el[s], m.term)]
        /\ PersistCatchUp(s, m.term)
        /\ UNCHANGED <<running, log, transfer, msgs, elected>>
    BY <1>14 DEF HandleAppendEntriesResponse
  <2>7. /\ disk' \in [Server -> [current_term : Nat, voted_for : Server \cup {Nil}]]
        /\ used' \in [BudgetKind -> Nat]
    BY <1>2, <1>3, <2>6, PersistCatchUpType DEF TypeInv
  <2>8. /\ el' \in [Server -> Election]
        /\ \A r \in Server : el'[r].role = "LEADER" => el[r].role = "LEADER"
    BY <1>3, <1>4, <2>6 DEF TypeInv, TypeOK
  <2>9. CASE m.term = el[s].current_term
    <3>1. /\ match_index' = [match_index EXCEPT ![s] = match]
          /\ next_index' = [next_index EXCEPT ![s] = next]
          /\ commit_index' = [commit_index EXCEPT ![s] = commit]
          /\ \/ ApplyCommitted(s, log[s], commit)
             \/ UNCHANGED <<last_applied, applied>>
      BY <1>14, <2>9 DEF HandleAppendEntriesResponse
    <3> HIDE DEF match, next, commit
    <3>2. /\ last_applied' \in [Server -> Nat]
          /\ applied' \subseteq [index : Nat, entry : Entry]
      BY <1>3, <2>5, <3>1, ApplyCommittedType DEF TypeInv, TypeOK
    <3>3. /\ match_index' \in [Server -> [Server -> Nat]]
          /\ next_index' \in [Server -> [Server -> Nat]]
          /\ commit_index' \in [Server -> Nat]
      BY <1>3, <2>3, <2>4, <2>5, <3>1 DEF TypeInv, TypeOK
    <3>4. \A r \in Server : el'[r].role = "LEADER" =>
             \A p \in Server : next_index'[r][p] >= 1
      BY <1>3, <2>4, <2>8, <3>1 DEF TypeInv, TypeOK
    <3>5. QED
      BY <2>6, <2>7, <2>8, <3>2, <3>3, <3>4 DEF TypeInv, TypeOK
  <2>10. CASE m.term # el[s].current_term
    <3>1. UNCHANGED <<match_index, next_index, commit_index, last_applied, applied>>
      BY <1>14, <2>10 DEF HandleAppendEntriesResponse
    <3>2. QED
      BY <2>6, <2>7, <2>8, <3>1 DEF TypeInv, TypeOK
  <2>11. QED
    BY <2>9, <2>10
<1>15. QED
  BY <1>6, <1>7, <1>8, <1>9, <1>10, <1>11, <1>12, <1>13, <1>14
     DEF Receive, s

\* The API calls, the ticks and the restarts keep the types.
LEMMA TypeCall ==
    ASSUME TypeInv, NEW s \in Server, Call(s)
    PROVE  TypeInv'
<1>1. /\ el[s] \in Election /\ log[s] \in Seq(Entry)
      /\ LastIndex(log[s]) \in Nat /\ LastTerm(log[s]) \in Nat
      /\ el[s].current_term \in Nat
  BY LastType DEF TypeInv, TypeOK, Election
<1>2. CASE Start(s)
  <2>1. CASE SingleNode
    <3>1. BecomeLeader(s, el[s])
      BY <1>2, <2>1 DEF Start
    <3>2. running' \in [Server -> BOOLEAN]
      BY <1>2 DEF Start, TypeInv, TypeOK
    <3>3. QED
      BY <1>1, <1>2, <3>1, <3>2, BecomeLeaderType DEF Start, TypeInv, TypeOK
  <2>2. CASE ~SingleNode
    BY <1>2, <2>2 DEF Start, TypeInv, TypeOK
  <2>3. QED
    BY <2>1, <2>2
<1>3. CASE Stop(s)
  <2>1. used' \in [BudgetKind -> Nat]
    BY <1>3, SpendType DEF Stop, TypeInv, BudgetKind
  <2>2. QED
    BY <1>3, <2>1 DEF Stop, TypeInv, TypeOK
<1>4. CASE Restart(s)
  <2>1. used' \in [BudgetKind -> Nat]
    BY <1>4, SpendType DEF Restart, TypeInv, BudgetKind
  <2>2. QED
    BY <1>4, <2>1, RebornType DEF Restart, TypeInv, TypeOK
<1>5. CASE StartElection(s)
  BY <1>5, CampaignType DEF StartElection, TypeInv, TypeOK
<1>6. CASE StartPreVote(s)
  <2> DEFINE e == [el[s] EXCEPT !.role = "PRE_CANDIDATE", !.current_leader = Nil,
                                !.votes = {s}, !.armed = TRUE]
             request(p) == [type |-> "PreVote", src |-> s, dst |-> p,
                            term |-> e.current_term + 1,
                            last_log_index |-> LastIndex(log[s]),
                            last_log_term |-> LastTerm(log[s])]
  <2> SUFFICES ASSUME ~SingleNode PROVE TypeInv'
    BY <1>6, CampaignType DEF StartPreVote, TypeInv, TypeOK
  <2>0. ~SingleNode
    OBVIOUS
  <2>1. e \in Election /\ e.role = "PRE_CANDIDATE"
    BY <1>1 DEF Election, Role
  <2>2. /\ Spend("prevote")
        /\ el' = [el EXCEPT ![s] = e]
        /\ msgs' = msgs \cup {request(p) : p \in Server \ {s}}
        /\ UNCHANGED <<running, log, commit_index, last_applied, next_index,
                       match_index, transfer, disk, elected, applied>>
    BY <1>6, <2>0, Zenon DEF StartPreVote, AskPreVotes, Send
  <2>3. \A p \in Server : request(p) \in VoteRequest("PreVote")
    BY <1>1, <2>1 DEF VoteRequest, Election
  <2> HIDE DEF request
  <2>4. msgs' \subseteq Message
    BY <2>2, <2>3 DEF TypeInv, TypeOK, Message
  <2> HIDE DEF e
  <2>5. /\ el' \in [Server -> Election]
        /\ \A r \in Server : el'[r].role = "LEADER" => el[r].role = "LEADER"
    BY <2>1, <2>2 DEF TypeInv, TypeOK
  <2>6. used' \in [BudgetKind -> Nat]
    BY <2>2, SpendType DEF TypeInv, BudgetKind
  <2>7. QED
    BY <2>2, <2>4, <2>5, <2>6 DEF TypeInv, TypeOK
<1>7. ASSUME NEW t \in Transfer, t.target \in Server, TransferProgress(s, t)
      PROVE  transfer' \in [Server -> Transfer] /\ msgs' \subseteq Message
  <2> DEFINE m == [type |-> "TimeoutNow", src |-> s, dst |-> t.target,
                   term |-> el[s].current_term]
  <2>1. [t EXCEPT !.state = "SENDING"] \in Transfer
    BY DEF Transfer
  <2>2. m \in Message
    BY <1>1, <1>7 DEF Message, TimeoutNow
  <2>3. CASE match_index[s][t.target] >= LastIndex(log[s])
    <3>1. PICK u \in Transfer : transfer' = [transfer EXCEPT ![s] = u]
      BY <1>7, <2>1, <2>3 DEF TransferProgress
    <3>2. msgs' = msgs \cup {m}
      BY <1>7, <2>3 DEF TransferProgress, Send
    <3> HIDE DEF m
    <3>3. transfer \in [Server -> Transfer] /\ msgs \subseteq Message
      BY DEF TypeInv, TypeOK
    <3>4. QED
      BY <2>2, <3>1, <3>2, <3>3
  <2>4. CASE ~(match_index[s][t.target] >= LastIndex(log[s]))
    <3>1. transfer' = [transfer EXCEPT ![s] = t] /\ msgs' = msgs
      BY <1>7, <2>4 DEF TransferProgress
    <3>2. transfer \in [Server -> Transfer] /\ msgs \subseteq Message
      BY DEF TypeInv, TypeOK
    <3>3. QED
      BY <3>1, <3>2
  <2>5. QED
    BY <2>3, <2>4
<1>8. ASSUME NEW target \in Server, TransferLeadership(s, target)
      PROVE  TypeInv'
  <2> DEFINE t == [state |-> "PENDING", target |-> target]
  <2>1. t \in Transfer /\ t.target \in Server
    BY DEF Transfer
  <2>2. TransferProgress(s, t) /\ Spend("transfer")
    BY <1>8 DEF TransferLeadership
  <2>3. transfer' \in [Server -> Transfer] /\ msgs' \subseteq Message
    BY <1>7, <2>1, <2>2
  <2>4. used' \in [BudgetKind -> Nat]
    BY <2>2, SpendType DEF TypeInv, BudgetKind
  <2>5. QED
    BY <1>8, <2>3, <2>4 DEF TransferLeadership, TypeInv, TypeOK
<1>9. CASE TransferCheckProgress(s)
  <2>1. transfer[s] \in Transfer /\ transfer[s].target \in Server
    BY <1>9 DEF TransferCheckProgress, TypeInv, TypeOK, Transfer
  <2>2. transfer' \in [Server -> Transfer] /\ msgs' \subseteq Message
    BY <1>7, <1>9, <2>1 DEF TransferCheckProgress
  <2>3. QED
    BY <1>9, <2>2 DEF TransferCheckProgress, TypeInv, TypeOK
<1>10. CASE TransferAbort(s)
  <2>1. transfer' \in [Server -> Transfer]
    BY <1>10 DEF TransferAbort, TypeInv, TypeOK, Transfer
  <2>2. QED
    BY <1>10, <2>1 DEF TransferAbort, TypeInv, TypeOK
<1>11. ASSUME NEW v \in Value, Propose(s, v)
       PROVE  TypeInv'
  <2> DEFINE lg == Append(log[s], [term |-> el[s].current_term, value |-> v])
  <2>1. lg \in Seq(Entry) /\ LastIndex(lg) \in Nat
    BY <1>1 DEF Entry, LastIndex
  <2>2. log' \in [Server -> Seq(Entry)]
    BY <1>11, <2>1 DEF Propose, TypeInv, TypeOK
  <2>3. used' \in [BudgetKind -> Nat]
    BY <1>11, SpendType DEF Propose, TypeInv, BudgetKind
  <2>4. CASE SingleNode
    <3>1. commit_index' = [commit_index EXCEPT ![s] = LastIndex(lg)]
      BY <1>11, <2>4 DEF Propose
    <3>2. msgs' = msgs
      BY <1>11, <2>4 DEF Propose
    <3> HIDE DEF lg
    <3>3. commit_index' \in [Server -> Nat]
      BY <2>1, <3>1 DEF TypeInv, TypeOK
    <3>4. QED
      BY <1>11, <2>2, <2>3, <3>2, <3>3 DEF Propose, TypeInv, TypeOK
  <2>5. CASE ~SingleNode
    <3>1. el[s].role = "LEADER" /\ ReplicateLog(s, lg) /\ UNCHANGED commit_index
      BY <1>11, <2>5 DEF Propose
    <3>2. msgs' \subseteq Message
      BY <2>1, <3>1, ReplicateLogType
    <3>3. QED
      BY <1>11, <2>2, <2>3, <3>1, <3>2 DEF Propose, TypeInv, TypeOK
  <2>6. QED
    BY <2>4, <2>5
<1>12. CASE TickHeartbeat(s)
  <2>1. msgs' \subseteq Message
    BY <1>1, <1>12, ReplicateLogType DEF TickHeartbeat
  <2>2. used' \in [BudgetKind -> Nat]
    BY <1>12, SpendType DEF TickHeartbeat, TypeInv, BudgetKind
  <2>3. QED
    BY <1>12, <2>1, <2>2 DEF TickHeartbeat, TypeInv, TypeOK
<1>13. CASE SendHeartbeats(s)
  <2> DEFINE beat(p) == [type |-> "AppendEntries", src |-> s, dst |-> p,
              term |-> el[s].current_term,
              prev_log_index |-> LastIndex(log[s]),
              prev_log_term |-> LastTerm(log[s]), entries |-> << >>,
              leader_commit |-> commit_index[s]]
  <2>1. << >> \in Seq(Entry) /\ commit_index[s] \in Nat
    BY DEF TypeInv, TypeOK
  <2>2. \A p \in Server : beat(p) \in AppendEntries
    BY <1>1, <2>1 DEF AppendEntries
  <2>3. msgs' = msgs \cup {beat(p) : p \in Server \ {s}}
    BY <1>13, Zenon DEF SendHeartbeats, Send
  <2> HIDE DEF beat
  <2>4. msgs' \subseteq Message
    BY <2>2, <2>3 DEF TypeInv, TypeOK, Message
  <2>5. used' \in [BudgetKind -> Nat]
    BY <1>13, SpendType DEF SendHeartbeats, TypeInv, BudgetKind
  <2>6. QED
    BY <1>13, <2>4, <2>5 DEF SendHeartbeats, TypeInv, TypeOK
<1>14. QED
  BY <1>2, <1>3, <1>4, <1>5, <1>6, <1>8, <1>9, <1>10, <1>11, <1>12, <1>13
     DEF Call

\* The type invariant is inductive.
LEMMA TypeStep == TypeInv /\ [Next]_vars => TypeInv'
<1> SUFFICES ASSUME TypeInv, [Next]_vars PROVE TypeInv'
  OBVIOUS
<1>1. ASSUME NEW s \in Server, Call(s) PROVE TypeInv'
  BY <1>1, TypeCall
<1>2. ASSUME NEW m \in msgs, Receive(m.dst, m) PROVE TypeInv'
  BY <1>2, TypeReceive
<1>3. CASE UNCHANGED vars
  BY <1>3 DEF vars, TypeInv, TypeOK
<1>4. QED
  BY <1>1, <1>2, <1>3 DEF Next

LEMMA TypeInvariant == Spec => []TypeInv
BY TypeInit, TypeStep, PTL DEF Spec

\* Every state the library can reach, under any delivery order, loss,
\* duplication, crash or failed save, is well typed.
THEOREM TypeCorrect == Spec => []TypeOK
<1>1. TypeInv => TypeOK
  BY DEF TypeInv
<1>2. QED
  BY <1>1, TypeInvariant, PTL

-----------------------------------------------------------------------------
(* Election Safety.                                                        *)
(*                                                                         *)
(* A vote is a message: a granted RequestVoteResponse, or, for a           *)
(* candidate's own vote, the RequestVote it sent.  The term and vote a     *)
(* node holds, which are also the ones in its state.dat, never go back on  *)
(* a vote it sent; so a voter has one vote in a term, and two majorities   *)
(* of one term share a voter.                                              *)

\* v has voted for c in term t.
Voted(v, c, t) ==
    \/ /\ v = c
       /\ \E m \in msgs : m.type = "RequestVote" /\ m.src = c /\ m.term = t
    \/ \E m \in msgs : /\ m.type = "RequestVoteResponse" /\ m.vote_granted
                       /\ m.src = v /\ m.dst = c /\ m.term = t

\* No save is lost: the environment's budget has no failing saves.
SavesSucceed == Budget["savefail"] = 0

DiskAgrees ==
    \A s \in Server : /\ disk[s].current_term = el[s].current_term
                      /\ disk[s].voted_for = el[s].voted_for

VoteKept ==
    \A v, c \in Server, t \in Nat :
        Voted(v, c, t) => \/ t < el[v].current_term
                          \/ t = el[v].current_term /\ el[v].voted_for = c

VoteUnique ==
    \A v, c, d \in Server, t \in Nat :
        Voted(v, c, t) /\ Voted(v, d, t) => c = d

VotesCounted ==
    \A s \in Server :
        el[s].role = "CANDIDATE" =>
            \A v \in el[s].votes : Voted(v, s, el[s].current_term)

ElectedByMajority ==
    ~SingleNode =>
        \A e \in elected : \E Q \in SUBSET Server :
            IsMajority(Q) /\ \A v \in Q : Voted(v, e.server, e.term)

VoteInv ==
    DiskAgrees /\ VoteKept /\ VoteUnique /\ VotesCounted /\ ElectedByMajority

\* What VoteStable says of one step.
Stable ==
    \A s \in Server :
        /\ el'[s].current_term >= el[s].current_term
        /\ /\ el'[s].current_term = el[s].current_term
           /\ el[s].voted_for # Nil
           => el'[s].voted_for = el[s].voted_for

\* Two majorities of the cluster have a common member.
LEMMA MajoritiesMeet ==
    ASSUME NEW P \in SUBSET Server, NEW Q \in SUBSET Server,
           IsMajority(P), IsMajority(Q)
    PROVE  P \cap Q # {}
<1>1. IsFiniteSet(Server) /\ Cardinality(Server) \in Nat
  BY RaftAssumption, FS_CardinalityType
<1>2. Cardinality(P) \in Nat /\ Cardinality(Q) \in Nat
  BY <1>1, FS_Subset, FS_CardinalityType
<1>3. Cardinality(P) + Cardinality(Q) > Cardinality(Server)
  BY <1>1, <1>2 DEF IsMajority
<1>4. QED
  BY <1>1, <1>3, FS_MajoritiesIntersect

\* Election Safety follows from the invariant.
LEMMA VoteInvSafe == TypeInv /\ VoteInv => ElectionSafety
<1> SUFFICES ASSUME TypeInv, VoteInv, NEW a \in elected, NEW b \in elected,
                    a.term = b.term
             PROVE  a.server = b.server
  BY DEF ElectionSafety
<1>1. a.server \in Server /\ b.server \in Server /\ a.term \in Nat
  BY DEF TypeInv, TypeOK
<1>2. CASE SingleNode
  <2>1. PICK x : Server = {x}
    BY <1>2, RaftAssumption, FS_Singleton DEF SingleNode
  <2>2. QED
    BY <1>1, <2>1
<1>3. CASE ~SingleNode
  <2>1. PICK P \in SUBSET Server :
          IsMajority(P) /\ \A v \in P : Voted(v, a.server, a.term)
    BY <1>3 DEF VoteInv, ElectedByMajority
  <2>2. PICK Q \in SUBSET Server :
          IsMajority(Q) /\ \A v \in Q : Voted(v, b.server, b.term)
    BY <1>3 DEF VoteInv, ElectedByMajority
  <2>3. PICK v \in Server : v \in P /\ v \in Q
    BY <2>1, <2>2, MajoritiesMeet
  <2>4. Voted(v, a.server, a.term) /\ Voted(v, b.server, a.term)
    BY <2>1, <2>2, <2>3
  <2>5. QED
    BY <1>1, <2>4 DEF VoteInv, VoteUnique
<1>4. QED
  BY <1>2, <1>3

\* A step that keeps every node's word keeps the votes: new votes are the ones
\* the voter now holds.
LEMMA VotesKept ==
    ASSUME TypeInv, VoteInv, Stable,
           \A v, c \in Server, t \in Nat :
              Voted(v, c, t)' =>
                \/ Voted(v, c, t)
                \/ t = el'[v].current_term /\ el'[v].voted_for = c,
           el' \in [Server -> Election]
    PROVE  VoteKept' /\ VoteUnique'
<1>1. VoteKept'
  <2> SUFFICES ASSUME NEW v \in Server, NEW c \in Server, NEW t \in Nat,
                      Voted(v, c, t)'
               PROVE  \/ t < el'[v].current_term
                      \/ t = el'[v].current_term /\ el'[v].voted_for = c
    BY DEF VoteKept
  <2>1. c # Nil /\ el[v].current_term \in Nat /\ el'[v].current_term \in Nat
    BY RaftAssumption DEF TypeInv, TypeOK, Election
  <2>2. CASE Voted(v, c, t)
    BY <2>1, <2>2 DEF VoteInv, VoteKept, Stable
  <2>3. QED
    BY <2>2
<1>2. VoteUnique'
  <2> SUFFICES ASSUME NEW v \in Server, NEW c \in Server, NEW d \in Server,
                      NEW t \in Nat, Voted(v, c, t)', Voted(v, d, t)'
               PROVE  c = d
    BY DEF VoteUnique
  <2>1. el'[v].current_term \in Nat
    BY DEF Election
  <2>2. CASE Voted(v, c, t) /\ Voted(v, d, t)
    BY <2>2 DEF VoteInv, VoteUnique
  <2>3. CASE ~Voted(v, c, t) \/ ~Voted(v, d, t)
    BY <1>1, <2>1, <2>3 DEF VoteKept
  <2>4. QED
    BY <2>2, <2>3
<1>3. QED
  BY <1>1, <1>2

\* A step sends no vote.
NoNewVote ==
    /\ msgs \subseteq msgs'
    /\ \A m \in msgs' \ msgs :
          /\ m.type # "RequestVote"
          /\ ~(m.type = "RequestVoteResponse" /\ m.vote_granted)

\* A node that at most learns a higher term, or stops being a candidate.
Quiet(s) ==
    /\ el'[s].current_term >= el[s].current_term
    /\ el'[s].current_term = el[s].current_term =>
          el'[s].voted_for = el[s].voted_for
    /\ el'[s].role = "CANDIDATE" =>
          /\ el[s].role = "CANDIDATE"
          /\ el'[s].current_term = el[s].current_term
          /\ el'[s].votes = el[s].votes

LEMMA NoNewVoted ==
    ASSUME NoNewVote
    PROVE  \A v, c, t : Voted(v, c, t)' <=> Voted(v, c, t)
BY DEF NoNewVote, Voted

\* A step that sends no vote, counts none and elects nobody.
LEMMA QuietStep ==
    ASSUME TypeInv, TypeInv', VoteInv, NoNewVote, \A s \in Server : Quiet(s),
           DiskAgrees', elected' = elected
    PROVE  VoteInv' /\ Stable
<1>1. Stable
  BY DEF Stable, Quiet
<1>2. \A v, c, t : Voted(v, c, t)' <=> Voted(v, c, t)
  BY NoNewVoted
<1>3. VoteKept' /\ VoteUnique'
  BY <1>1, <1>2, VotesKept DEF TypeInv, TypeOK
<1>4. VotesCounted'
  BY <1>2 DEF VoteInv, VotesCounted, Quiet
<1>5. ElectedByMajority'
  BY <1>2 DEF VoteInv, ElectedByMajority, SingleNode, IsMajority
<1>6. QED
  BY <1>1, <1>3, <1>4, <1>5 DEF VoteInv

\* With saves that succeed, state.dat follows the node.
LEMMA SaveAgrees ==
    ASSUME TypeOK, SavesSucceed, DiskAgrees, NEW s \in Server, NEW e,
           NEW f, f.current_term = e.current_term, f.voted_for = e.voted_for,
           PersistState(s, e), el' = [el EXCEPT ![s] = f]
    PROVE  DiskAgrees'
<1>1. ~Spend("savefail")
  BY DEF Spend, SavesSucceed, TypeOK, BudgetKind
<1>2. disk' = [disk EXCEPT ![s] = [current_term |-> e.current_term,
                                   voted_for |-> e.voted_for]]
  BY <1>1 DEF PersistState
<1>3. QED
  BY <1>2 DEF DiskAgrees, TypeOK

\* One node changes, without voting or becoming a candidate.
LEMMA OneNodeQuiet ==
    ASSUME TypeOK, NEW s \in Server, NEW f, el' = [el EXCEPT ![s] = f],
           f.current_term \in Nat, f.role # "CANDIDATE",
           \/ f.current_term > el[s].current_term
           \/ /\ f.current_term = el[s].current_term
              /\ f.voted_for = el[s].voted_for
    PROVE  \A r \in Server : Quiet(r)
<1> SUFFICES ASSUME NEW r \in Server PROVE Quiet(r)
  OBVIOUS
<1>1. el[r].current_term \in Nat
  BY DEF TypeOK, Election
<1>2. CASE r = s
  <2>1. el'[r] = f
    BY <1>2 DEF TypeOK
  <2>2. QED
    BY <1>1, <1>2, <2>1 DEF Quiet
<1>3. CASE r # s
  <2>1. el'[r] = el[r]
    BY <1>3 DEF TypeOK
  <2>2. QED
    BY <1>1, <2>1 DEF Quiet
<1>4. QED
  BY <1>2, <1>3

\* The common handler: step down on a higher term and save, then change neither
\* the term nor the vote, nor become a candidate.
LEMMA CatchUpQuiet ==
    ASSUME TypeOK, SavesSucceed, DiskAgrees, NEW s \in Server, NEW t \in Nat,
           PersistCatchUp(s, t), NEW f, el' = [el EXCEPT ![s] = f],
           f.current_term = CatchUp(el[s], t).current_term,
           f.voted_for = CatchUp(el[s], t).voted_for,
           f.role = "CANDIDATE" => /\ CatchUp(el[s], t).role = "CANDIDATE"
                                   /\ f.votes = CatchUp(el[s], t).votes
    PROVE  DiskAgrees' /\ \A r \in Server : Quiet(r)
<1>1. el[s] \in Election
  BY DEF TypeOK
<1>2. el[s].current_term \in Nat
  BY <1>1 DEF Election
<1>3. CASE t > el[s].current_term
  <2>1. PersistState(s, StepDown(el[s], t)) /\ CatchUp(el[s], t) = StepDown(el[s], t)
    BY <1>3 DEF PersistCatchUp, CatchUp
  <2>2. DiskAgrees'
    BY <2>1, SaveAgrees
  <2>3. \A r \in Server : Quiet(r)
    <3>1. /\ f.current_term = t /\ f.role # "CANDIDATE"
      BY <2>1 DEF StepDown
    <3>2. QED
      BY <1>3, <3>1, OneNodeQuiet
  <2>4. QED
    BY <2>2, <2>3
<1>4. CASE ~(t > el[s].current_term)
  <2>1. UNCHANGED disk /\ CatchUp(el[s], t) = el[s]
    BY <1>4 DEF PersistCatchUp, CatchUp
  <2>2. DiskAgrees'
    BY <2>1 DEF DiskAgrees, TypeOK
  <2>3. \A r \in Server : Quiet(r)
    <3> TAKE r \in Server
    <3>1. el[r].current_term \in Nat
      BY DEF TypeOK, Election
    <3>2. CASE r = s
      <4>1. el'[r] = f
        BY <3>2 DEF TypeOK
      <4>2. QED
        BY <2>1, <3>1, <3>2, <4>1 DEF Quiet
    <3>3. CASE r # s
      <4>1. el'[r] = el[r]
        BY <3>3 DEF TypeOK
      <4>2. QED
        BY <3>1, <4>1 DEF Quiet
    <3>4. QED
      BY <3>2, <3>3
  <2>4. QED
    BY <2>2, <2>3
<1>5. QED
  BY <1>3, <1>4

\* raft_become_leader on a majority of counted votes, or on a single node.
LEMMA BecomeLeaderVotes ==
    ASSUME TypeInv, TypeInv', VoteInv, NEW s \in Server, NEW e \in Election,
           BecomeLeader(s, e), Stable, DiskAgrees', VoteKept', VoteUnique',
           \A v, c, t : Voted(v, c, t) => Voted(v, c, t)',
           ~SingleNode => /\ IsMajority(e.votes)
                          /\ \A v \in e.votes : Voted(v, s, e.current_term)'
    PROVE  VoteInv'
<1>1. VotesCounted'
  <2> SUFFICES ASSUME NEW r \in Server, el'[r].role = "CANDIDATE",
                      NEW v \in el'[r].votes, NEW t, t = el'[r].current_term
               PROVE  Voted(v, r, t)'
    BY DEF VotesCounted
  <2>1. PICK f : f = [e EXCEPT !.role = "LEADER", !.current_leader = s]
    OBVIOUS
  <2>2. el' = [el EXCEPT ![s] = f] /\ f.role = "LEADER"
    BY <2>1 DEF BecomeLeader, Election
  <2>3. el'[r] = el[r]
    BY <2>2 DEF TypeInv, TypeOK
  <2>4. QED
    BY <2>3 DEF VoteInv, VotesCounted
<1>2. ElectedByMajority'
  <2> SUFFICES ASSUME ~SingleNode, NEW w \in elected'
               PROVE  \E Q \in SUBSET Server :
                        IsMajority(Q) /\ \A v \in Q : Voted(v, w.server, w.term)'
    BY DEF ElectedByMajority, SingleNode, IsMajority
  <2>1. CASE w \in elected
    BY <2>1 DEF VoteInv, ElectedByMajority
  <2>2. CASE w = [term |-> e.current_term, server |-> s]
    BY <2>2 DEF Election
  <2>3. QED
    BY <2>1, <2>2 DEF BecomeLeader
<1>3. QED
  BY <1>1, <1>2 DEF VoteInv

\* A step that takes one node to a higher term, or keeps its term and any vote
\* it holds, and leaves the other nodes alone.
LEMMA OneNodeStable ==
    ASSUME TypeOK, NEW s \in Server, NEW f, f.current_term \in Nat,
           el' = [el EXCEPT ![s] = f],
           \/ f.current_term > el[s].current_term
           \/ /\ f.current_term = el[s].current_term
              /\ el[s].voted_for # Nil => f.voted_for = el[s].voted_for
    PROVE  Stable
<1> SUFFICES ASSUME NEW r \in Server
             PROVE  /\ el'[r].current_term >= el[r].current_term
                    /\ /\ el'[r].current_term = el[r].current_term
                       /\ el[r].voted_for # Nil
                       => el'[r].voted_for = el[r].voted_for
  BY DEF Stable
<1>1. el[r].current_term \in Nat
  BY DEF TypeOK, Election
<1>2. CASE r = s
  <2>1. el'[r] = f
    BY <1>2 DEF TypeOK
  <2>2. QED
    BY <1>1, <1>2, <2>1
<1>3. CASE r # s
  <2>1. el'[r] = el[r]
    BY <1>3 DEF TypeOK
  <2>2. QED
    BY <1>1, <2>1
<1>4. QED
  BY <1>2, <1>3

\* raft_start_election: the candidate's own vote is in a term above all it has
\* voted in.
LEMMA CampaignVotes ==
    ASSUME TypeInv, TypeInv', VoteInv, SavesSucceed, NEW s \in Server, Campaign(s)
    PROVE  VoteInv' /\ Stable
<1>0. PICK e : e = [role |-> "CANDIDATE",
                    current_term |-> el[s].current_term + 1,
                    voted_for |-> s, current_leader |-> Nil, votes |-> {s},
                    armed |-> TRUE]
  OBVIOUS
<1> DEFINE lead == [e EXCEPT !.role = "LEADER", !.current_leader = s]
           request(p) == [type |-> "RequestVote", src |-> s, dst |-> p,
                          term |-> e.current_term,
                          last_log_index |-> LastIndex(log[s]),
                          last_log_term |-> LastTerm(log[s])]
<1>1. el[s] \in Election /\ el[s].current_term \in Nat
  BY DEF TypeInv, TypeOK, Election
<1>2. PersistState(s, e) /\ e \in Election
  BY <1>0, <1>1 DEF Campaign, Election, Role
<1>3. /\ SingleNode => BecomeLeader(s, e) /\ msgs' = msgs
      /\ ~SingleNode => /\ el' = [el EXCEPT ![s] = e]
                        /\ msgs' = msgs \cup {request(p) : p \in Server \ {s}}
                        /\ elected' = elected
  BY <1>0, Zenon DEF Campaign, Send
<1>4. /\ e.current_term = el[s].current_term + 1 /\ e.voted_for = s
      /\ e.role = "CANDIDATE" /\ e.votes = {s}
  BY <1>0
<1>5. /\ lead.current_term = e.current_term /\ lead.voted_for = s
      /\ lead.role = "LEADER"
  BY <1>0
<1>6. \A p : /\ request(p).type = "RequestVote" /\ request(p).src = s
             /\ request(p).term = e.current_term
  OBVIOUS
<1>7. SingleNode => el' = [el EXCEPT ![s] = lead]
  BY <1>3 DEF BecomeLeader
<1> HIDE DEF lead, request
<1>8. CASE SingleNode
  <2>1. DiskAgrees'
    BY <1>2, <1>4, <1>5, <1>7, <1>8, SaveAgrees DEF TypeInv, VoteInv
  <2>2. Stable
    BY <1>1, <1>4, <1>5, <1>7, <1>8, OneNodeStable DEF TypeInv
  <2>3. \A v, c, t : Voted(v, c, t)' <=> Voted(v, c, t)
    BY <1>3, <1>8 DEF Voted
  <2>4. VoteKept' /\ VoteUnique'
    BY <2>2, <2>3, VotesKept DEF TypeInv, TypeOK
  <2>5. QED
    BY <1>2, <1>3, <1>8, <2>1, <2>2, <2>3, <2>4, BecomeLeaderVotes
<1>9. CASE ~SingleNode
  <2>1. DiskAgrees'
    BY <1>2, <1>3, <1>9, SaveAgrees DEF TypeInv, VoteInv
  <2>2. Stable
    BY <1>1, <1>3, <1>4, <1>9, OneNodeStable DEF TypeInv
  <2>3. \A v, c, t : Voted(v, c, t) => Voted(v, c, t)'
    BY <1>3, <1>9 DEF Voted
  <2>4. \A v, c, t : Voted(v, c, t)' =>
            Voted(v, c, t) \/ (v = s /\ c = s /\ t = e.current_term)
    BY <1>3, <1>6, <1>9 DEF Voted
  <2>5. \A v, c \in Server, t \in Nat : Voted(v, c, t)' =>
            \/ Voted(v, c, t)
            \/ t = el'[v].current_term /\ el'[v].voted_for = c
    BY <1>3, <1>4, <1>9, <2>4 DEF TypeInv, TypeOK
  <2>6. VoteKept' /\ VoteUnique'
    BY <2>2, <2>5, VotesKept DEF TypeInv, TypeOK
  <2>7. Voted(s, s, e.current_term)'
    <3>1. Server # {s}
      BY <1>9, FS_Singleton, RaftAssumption DEF SingleNode
    <3>2. PICK p \in Server \ {s} : TRUE
      BY <3>1
    <3>3. request(p) \in msgs'
      BY <1>3, <1>9, <3>2
    <3>4. QED
      BY <1>6, <3>3 DEF Voted
  <2>8. VotesCounted'
    <3> SUFFICES ASSUME NEW r \in Server, el'[r].role = "CANDIDATE",
                        NEW v \in el'[r].votes, NEW t, t = el'[r].current_term
                 PROVE  Voted(v, r, t)'
      BY DEF VotesCounted
    <3>1. CASE r = s
      BY <1>3, <1>4, <1>9, <2>7, <3>1 DEF TypeInv, TypeOK
    <3>2. CASE r # s
      <4>1. el'[r] = el[r]
        BY <1>3, <1>9, <3>2 DEF TypeInv, TypeOK
      <4>2. QED
        BY <2>3, <4>1 DEF VoteInv, VotesCounted
    <3>3. QED
      BY <3>1, <3>2
  <2>9. ElectedByMajority'
    BY <1>3, <1>9, <2>3 DEF VoteInv, ElectedByMajority, SingleNode, IsMajority
  <2>10. QED
    BY <2>1, <2>2, <2>6, <2>8, <2>9 DEF VoteInv
<1>10. QED
  BY <1>8, <1>9


\* raft_handle_request_vote: the vote given is one the voter still has to give,
\* and it is saved before the response leaves.
LEMMA RequestVoteVotes ==
    ASSUME TypeInv, TypeInv', VoteInv, SavesSucceed, NEW s \in Server,
           NEW m \in msgs, HandleRequestVote(s, m)
    PROVE  VoteInv' /\ Stable
<1>1. m.src \in Server /\ m.term \in Nat /\ m \in Message
  BY DEF HandleRequestVote, TypeInv, TypeOK, Message, VoteRequest, VoteResponse,
         AppendEntries, AppendEntriesResponse, TimeoutNow
<1>2. el[s] \in Election /\ el[s].current_term \in Nat
  BY DEF TypeInv, TypeOK, Election
<1>3. PICK e : e = CatchUp(el[s], m.term)
  OBVIOUS
<1>4. e \in Election /\ e.current_term \in Nat
  BY <1>1, <1>2, <1>3, CatchUpType DEF Election
<1>5. PICK granted : granted =
         (/\ m.term = e.current_term
          /\ e.voted_for \in {Nil, m.src}
          /\ IsLogUpToDate(log[s], m.last_log_term, m.last_log_index))
  OBVIOUS
<1>6. PICK voted : voted = [e EXCEPT !.voted_for = m.src, !.armed = TRUE]
  OBVIOUS
<1>7. PICK reply : reply = [type |-> "RequestVoteResponse", src |-> s,
                            dst |-> m.src, term |-> e.current_term,
                            vote_granted |-> granted]
  OBVIOUS
<1>8. /\ IF granted THEN /\ el' = [el EXCEPT ![s] = voted]
                         /\ PersistVote(s, e, voted)
                    ELSE /\ el' = [el EXCEPT ![s] = e]
                         /\ PersistCatchUp(s, m.term)
      /\ msgs' = msgs \cup {reply}
      /\ elected' = elected
  BY <1>3, <1>5, <1>6, <1>7, Zenon DEF HandleRequestVote, Send
<1>9. CASE ~granted
  <2>1. DiskAgrees' /\ \A r \in Server : Quiet(r)
    BY <1>1, <1>3, <1>8, <1>9, CatchUpQuiet DEF TypeInv, VoteInv
  <2>2. NoNewVote
    BY <1>7, <1>8, <1>9 DEF NoNewVote
  <2>3. QED
    BY <1>8, <2>1, <2>2, QuietStep
<1>10. CASE granted
  <2>1. /\ voted.voted_for = m.src /\ voted.current_term = e.current_term
        /\ voted.role = e.role /\ voted.votes = e.votes
        /\ el' = [el EXCEPT ![s] = voted] /\ PersistState(s, voted)
    <3>1. ~Spend("savefail")
      BY DEF Spend, SavesSucceed, TypeInv, TypeOK, BudgetKind
    <3>2. PersistState(s, voted)
      BY <1>8, <1>10, <3>1 DEF PersistVote
    <3>3. QED
      BY <1>4, <1>6, <1>8, <1>10, <3>2 DEF Election
  <2>2. /\ reply.type = "RequestVoteResponse" /\ reply.src = s
        /\ reply.dst = m.src /\ reply.term = e.current_term /\ reply.vote_granted
    BY <1>7, <1>10
  <2>3. /\ e.current_term = m.term /\ e.voted_for \in {Nil, m.src}
    BY <1>5, <1>10
  <2>4. \/ e.current_term > el[s].current_term /\ e.role = "FOLLOWER"
        \/ e = el[s]
    BY <1>1, <1>2, <1>3 DEF CatchUp, StepDown
  <2>5. DiskAgrees'
    BY <2>1, SaveAgrees DEF TypeInv, VoteInv
  <2>6. Stable
    BY <1>2, <1>4, <2>1, <2>3, <2>4, OneNodeStable DEF TypeInv
  <2>7. \A v, c, t : Voted(v, c, t) => Voted(v, c, t)'
    BY <1>8 DEF Voted
  <2>8. \A v, c, t : Voted(v, c, t)' =>
            Voted(v, c, t) \/ (v = s /\ c = m.src /\ t = e.current_term)
    BY <1>8, <2>2 DEF Voted
  <2>9. \A v, c \in Server, t \in Nat : Voted(v, c, t)' =>
            \/ Voted(v, c, t)
            \/ t = el'[v].current_term /\ el'[v].voted_for = c
    BY <2>1, <2>8 DEF TypeInv, TypeOK
  <2>10. VoteKept' /\ VoteUnique'
    BY <2>6, <2>9, VotesKept DEF TypeInv, TypeOK
  <2>11. VotesCounted'
    <3> SUFFICES ASSUME NEW r \in Server, el'[r].role = "CANDIDATE",
                        NEW v \in el'[r].votes, NEW t, t = el'[r].current_term
                 PROVE  Voted(v, r, t)'
      BY DEF VotesCounted
    <3>1. /\ el'[r].role = el[r].role /\ el'[r].votes = el[r].votes
          /\ el'[r].current_term = el[r].current_term
      <4>1. CASE r = s
        <5>1. el'[r] = voted
          BY <2>1, <4>1 DEF TypeInv, TypeOK
        <5>2. QED
          BY <2>1, <2>4, <4>1, <5>1
      <4>2. CASE r # s
        BY <2>1, <4>2 DEF TypeInv, TypeOK
      <4>3. QED
        BY <4>1, <4>2
    <3>2. QED
      BY <2>7, <3>1 DEF VoteInv, VotesCounted
  <2>12. ElectedByMajority'
    BY <1>8, <2>7 DEF VoteInv, ElectedByMajority, SingleNode, IsMajority
  <2>13. QED
    BY <2>5, <2>6, <2>10, <2>11, <2>12 DEF VoteInv
<1>11. QED
  BY <1>9, <1>10


\* raft_handle_request_vote_response: the votes a candidate counts were given.
LEMMA VoteResponseVotes ==
    ASSUME TypeInv, TypeInv', VoteInv, SavesSucceed, NEW s \in Server,
           NEW m \in msgs, HandleRequestVoteResponse(s, m)
    PROVE  VoteInv' /\ Stable
<1>1. m.src \in Server /\ m.term \in Nat /\ m.dst = s
      /\ m.type = "RequestVoteResponse"
  BY DEF HandleRequestVoteResponse, TypeInv, TypeOK, Message, VoteRequest,
         VoteResponse, AppendEntries, AppendEntriesResponse, TimeoutNow
<1>2. el[s] \in Election /\ el[s].current_term \in Nat
  BY DEF TypeInv, TypeOK, Election
<1>3. PICK e : e = CatchUp(el[s], m.term)
  OBVIOUS
<1>4. e \in Election /\ e.current_term \in Nat /\ e.votes \in SUBSET Server
  BY <1>1, <1>2, <1>3, CatchUpType DEF Election
<1>5. PICK counts : counts = (m.term = el[s].current_term /\ m.vote_granted)
  OBVIOUS
<1>6. PICK counted : counted = IF counts THEN [e EXCEPT !.votes = @ \cup {m.src}]
                                         ELSE e
  OBVIOUS
<1>7. /\ el[s].role = "CANDIDATE"
      /\ PersistCatchUp(s, m.term)
      /\ IF counted.votes # e.votes /\ IsMajority(counted.votes)
           THEN BecomeLeader(s, counted)
           ELSE /\ el' = [el EXCEPT ![s] = counted]
                /\ elected' = elected
      /\ msgs' = msgs
  BY <1>3, <1>5, <1>6, Zenon DEF HandleRequestVoteResponse
<1>8. NoNewVote /\ \A v, c, t : Voted(v, c, t)' <=> Voted(v, c, t)
  BY <1>7 DEF NoNewVote, Voted
<1>9. CASE ~counts
  <2>1. counted = e /\ el' = [el EXCEPT ![s] = e] /\ elected' = elected
    BY <1>6, <1>7, <1>9
  <2>2. DiskAgrees' /\ \A r \in Server : Quiet(r)
    BY <1>1, <1>3, <1>7, <2>1, CatchUpQuiet DEF TypeInv, VoteInv
  <2>3. QED
    BY <1>8, <2>1, <2>2, QuietStep
<1>10. CASE counts
  <2>1. e = el[s] /\ m.vote_granted /\ m.term = e.current_term
    <3>1. m.term = el[s].current_term /\ m.vote_granted
      BY <1>5, <1>10, Zenon
    <3>2. e = el[s]
      BY <1>2, <1>3, <3>1 DEF CatchUp
    <3>3. QED
      BY <3>1, <3>2
  <2>2. /\ counted \in Election /\ counted.current_term = e.current_term
        /\ counted.voted_for = e.voted_for /\ counted.role = "CANDIDATE"
        /\ counted.votes = e.votes \cup {m.src}
    BY <1>1, <1>4, <1>6, <1>7, <1>10, <2>1 DEF Election
  <2>3. disk' = disk
    BY <1>1, <1>2, <1>7, <2>1 DEF PersistCatchUp
  <2>4. \A v \in counted.votes : Voted(v, s, e.current_term)
    <3>1. Voted(m.src, s, e.current_term)
      BY <1>1, <2>1 DEF Voted
    <3>2. \A v \in e.votes : Voted(v, s, e.current_term)
      BY <1>7, <2>1 DEF VoteInv, VotesCounted
    <3>3. QED
      BY <2>2, <3>1, <3>2
  <2>5. PICK f : /\ el' = [el EXCEPT ![s] = f]
                 /\ f.current_term = e.current_term
                 /\ f.voted_for = e.voted_for
                 /\ f.role = "LEADER" \/ f = counted
    <3>1. CASE counted.votes # e.votes /\ IsMajority(counted.votes)
      <4>1. PICK f : f = [counted EXCEPT !.role = "LEADER", !.current_leader = s]
        OBVIOUS
      <4>2. el' = [el EXCEPT ![s] = f]
        BY <1>7, <3>1, <4>1 DEF BecomeLeader
      <4>3. /\ f.current_term = e.current_term /\ f.voted_for = e.voted_for
            /\ f.role = "LEADER"
        BY <2>2, <4>1 DEF Election
      <4>4. QED
        BY <4>2, <4>3
    <3>2. CASE ~(counted.votes # e.votes /\ IsMajority(counted.votes))
      BY <1>7, <2>2, <3>2
    <3>3. QED
      BY <3>1, <3>2
  <2>6. el'[s] = f /\ \A r \in Server : r # s => el'[r] = el[r]
    BY <2>5 DEF TypeInv, TypeOK
  <2>7. DiskAgrees'
    BY <2>1, <2>3, <2>5, <2>6 DEF DiskAgrees, VoteInv
  <2>8. Stable
    BY <1>4, <2>1, <2>5, OneNodeStable DEF TypeInv
  <2>9. VoteKept' /\ VoteUnique'
    BY <1>8, <2>8, VotesKept DEF TypeInv, TypeOK
  <2>10. CASE counted.votes # e.votes /\ IsMajority(counted.votes)
    BY <1>7, <1>8, <2>2, <2>4, <2>7, <2>8, <2>9, <2>10, BecomeLeaderVotes
  <2>11. CASE ~(counted.votes # e.votes /\ IsMajority(counted.votes))
    <3>1. el' = [el EXCEPT ![s] = counted] /\ elected' = elected
      BY <1>7, <2>11
    <3>2. VotesCounted'
      <4> SUFFICES ASSUME NEW r \in Server, el'[r].role = "CANDIDATE",
                          NEW v \in el'[r].votes, NEW t, t = el'[r].current_term
                   PROVE  Voted(v, r, t)
        BY <1>8 DEF VotesCounted
      <4>1. CASE r = s
        <5>1. el'[r] = counted
          BY <3>1, <4>1 DEF TypeInv, TypeOK
        <5>2. QED
          BY <2>2, <2>4, <4>1, <5>1
      <4>2. CASE r # s
        BY <2>6, <4>2 DEF VoteInv, VotesCounted
      <4>3. QED
        BY <4>1, <4>2
    <3>3. ElectedByMajority'
      BY <1>8, <3>1 DEF VoteInv, ElectedByMajority, SingleNode, IsMajority
    <3>4. QED
      BY <2>7, <2>8, <2>9, <3>2, <3>3 DEF VoteInv
  <2>12. QED
    BY <2>8, <2>10, <2>11
<1>11. QED
  BY <1>9, <1>10


\* A step that touches no node's term, vote or role.
LEMMA StillStep ==
    ASSUME TypeInv, TypeInv', VoteInv, UNCHANGED <<el, disk, elected>>, NoNewVote
    PROVE  VoteInv' /\ Stable
<1>1. \A s \in Server : Quiet(s)
  BY DEF Quiet, TypeInv, TypeOK, Election
<1>2. DiskAgrees'
  BY DEF VoteInv, DiskAgrees
<1>3. QED
  BY <1>1, <1>2, QuietStep

\* Restarts: the node comes back with the term and vote of state.dat.
LEMMA RebornVotes ==
    ASSUME TypeInv, TypeInv', VoteInv, NEW s \in Server, NEW d,
           Reborn(s, d), disk' = [disk EXCEPT ![s] = d], d.current_term \in Nat,
           \/ d.current_term > el[s].current_term
           \/ /\ d.current_term = el[s].current_term
              /\ d.voted_for = el[s].voted_for
    PROVE  VoteInv' /\ Stable
<1>1. PICK f : f = [role |-> "FOLLOWER", current_term |-> d.current_term,
                    voted_for |-> d.voted_for, current_leader |-> Nil,
                    votes |-> {}, armed |-> FALSE]
  OBVIOUS
<1>2. el' = [el EXCEPT ![s] = f] /\ msgs' = msgs /\ elected' = elected
  BY <1>1 DEF Reborn
<1>3. /\ f.current_term = d.current_term /\ f.voted_for = d.voted_for
      /\ f.role = "FOLLOWER"
  BY <1>1
<1>4. \A r \in Server : Quiet(r)
  BY <1>2, <1>3, OneNodeQuiet DEF TypeInv
<1>5. DiskAgrees'
  BY <1>2, <1>3 DEF VoteInv, DiskAgrees, TypeInv, TypeOK
<1>6. NoNewVote
  BY <1>2 DEF NoNewVote
<1>7. QED
  BY <1>2, <1>4, <1>5, <1>6, QuietStep

\* The messages of a receive step have their fields.
LEMMA MessageFields ==
    ASSUME TypeInv, NEW m \in msgs
    PROVE  m.src \in Server /\ m.dst \in Server /\ m.term \in Nat
BY DEF TypeInv, TypeOK, Message, VoteRequest, VoteResponse, AppendEntries,
       AppendEntriesResponse, TimeoutNow


\* raft_replicate_log sends AppendEntries only.
LEMMA ReplicateQuiet ==
    ASSUME NEW s, NEW lg, ReplicateLog(s, lg)
    PROVE  NoNewVote
<1>1. \A p : AppendTo(s, p, lg).type = "AppendEntries"
  BY DEF AppendTo
<1>2. QED
  BY <1>1 DEF ReplicateLog, Send, NoNewVote

\* The calls of the application, and the crashes.
LEMMA VotesCall ==
    ASSUME TypeInv, TypeInv', VoteInv, SavesSucceed, NEW s \in Server, Call(s)
    PROVE  VoteInv' /\ Stable
<1>1. CASE Start(s)
  <2>1. /\ disk' = disk /\ msgs' = msgs /\ el[s] \in Election
        /\ IF SingleNode THEN BecomeLeader(s, el[s])
                         ELSE UNCHANGED <<el, elected>>
    BY <1>1 DEF Start, TypeInv, TypeOK
  <2>2. NoNewVote /\ \A v, c, t : Voted(v, c, t)' <=> Voted(v, c, t)
    BY <2>1 DEF NoNewVote, Voted
  <2>3. CASE ~SingleNode
    BY <2>1, <2>2, <2>3, StillStep
  <2>4. CASE SingleNode
    <3>1. PICK e : e = el[s]
      OBVIOUS
    <3>2. PICK f : f = [e EXCEPT !.role = "LEADER", !.current_leader = s]
      OBVIOUS
    <3>3. f.current_term = e.current_term /\ f.voted_for = e.voted_for
          /\ e.current_term \in Nat
      BY <2>1, <3>1, <3>2 DEF Election
    <3>4. el' = [el EXCEPT ![s] = f]
      BY <2>1, <2>4, <3>1, <3>2 DEF BecomeLeader
    <3>5. Stable
      BY <3>1, <3>3, <3>4, OneNodeStable DEF TypeInv
    <3>6. DiskAgrees'
      BY <2>1, <3>1, <3>3, <3>4 DEF VoteInv, DiskAgrees, TypeInv, TypeOK
    <3>7. VoteKept' /\ VoteUnique'
      BY <2>2, <3>5, VotesKept DEF TypeInv, TypeOK
    <3>8. QED
      BY <2>1, <2>2, <2>4, <3>1, <3>5, <3>6, <3>7, BecomeLeaderVotes
  <2>5. QED
    BY <2>3, <2>4
<1>2. CASE Stop(s)
  BY <1>2, StillStep DEF Stop, NoNewVote
<1>3. CASE Restart(s)
  <2>1. /\ disk[s].current_term = el[s].current_term
        /\ disk[s].voted_for = el[s].voted_for /\ disk[s].current_term \in Nat
    BY DEF VoteInv, DiskAgrees, TypeInv, TypeOK
  <2>2. Reborn(s, disk[s]) /\ disk' = [disk EXCEPT ![s] = disk[s]]
    BY <1>3 DEF Restart, TypeInv, TypeOK
  <2>3. QED
    BY <2>1, <2>2, RebornVotes
<1>4. CASE StartElection(s)
  BY <1>4, CampaignVotes DEF StartElection
<1>5. CASE StartPreVote(s)
  <2> SUFFICES ASSUME AskPreVotes(s) PROVE VoteInv' /\ Stable
    BY <1>5, CampaignVotes DEF StartPreVote
  <2>1. PICK f : f = [el[s] EXCEPT !.role = "PRE_CANDIDATE",
                        !.current_leader = Nil, !.votes = {s}, !.armed = TRUE]
    OBVIOUS
  <2>2. el' = [el EXCEPT ![s] = f] /\ disk' = disk /\ elected' = elected
    BY <2>1 DEF AskPreVotes
  <2>3. /\ f.current_term = el[s].current_term /\ f.voted_for = el[s].voted_for
        /\ f.role = "PRE_CANDIDATE" /\ f.current_term \in Nat
    BY <2>1 DEF TypeInv, TypeOK, Election
  <2>4. \A r \in Server : Quiet(r)
    BY <2>2, <2>3, OneNodeQuiet DEF TypeInv
  <2>5. DiskAgrees'
    BY <2>2, <2>3 DEF VoteInv, DiskAgrees, TypeInv, TypeOK
  <2>6. NoNewVote
    BY DEF AskPreVotes, Send, NoNewVote
  <2>7. QED
    BY <2>2, <2>4, <2>5, <2>6, QuietStep
<1>6. ASSUME NEW target \in Server, TransferLeadership(s, target)
      PROVE  VoteInv' /\ Stable
  BY <1>6, StillStep DEF TransferLeadership, TransferProgress, Send, NoNewVote
<1>7. CASE TransferCheckProgress(s)
  BY <1>7, StillStep DEF TransferCheckProgress, TransferProgress, Send, NoNewVote
<1>8. CASE TransferAbort(s)
  BY <1>8, StillStep DEF TransferAbort, NoNewVote
<1>9. ASSUME NEW v \in Value, Propose(s, v) PROVE VoteInv' /\ Stable
  <2>1. UNCHANGED <<el, disk, elected>>
    BY <1>9 DEF Propose
  <2>2. PICK lg : msgs' = msgs \/ ReplicateLog(s, lg)
    BY <1>9 DEF Propose
  <2>3. NoNewVote
    BY <2>2, ReplicateQuiet DEF NoNewVote
  <2>4. QED
    BY <2>1, <2>3, StillStep
<1>10. CASE TickHeartbeat(s)
  BY <1>10, StillStep, ReplicateQuiet DEF TickHeartbeat
<1>11. CASE SendHeartbeats(s)
  BY <1>11, StillStep DEF SendHeartbeats, Send, NoNewVote
<1>12. QED
  BY <1>1, <1>2, <1>3, <1>4, <1>5, <1>6, <1>7, <1>8, <1>9, <1>10, <1>11 DEF Call


\* raft_receive_message.
LEMMA VotesReceive ==
    ASSUME TypeInv, TypeInv', VoteInv, SavesSucceed, NEW m \in msgs,
           NEW s \in Server, Receive(s, m)
    PROVE  VoteInv' /\ Stable
<1>1. m.src \in Server /\ m.term \in Nat
  BY MessageFields
<1>2. el[s] \in Election /\ el[s].current_term \in Nat
  BY DEF TypeInv, TypeOK, Election
<1>3. PICK e : e = CatchUp(el[s], m.term)
  OBVIOUS
<1>4. e \in Election /\ e.current_term \in Nat
  BY <1>1, <1>2, <1>3, CatchUpType DEF Election
<1>5. CASE CrashAfterStepDown(s, m)
  <2>1. PICK d : d = [current_term |-> m.term, voted_for |-> Nil]
    OBVIOUS
  <2>2. /\ Reborn(s, d) /\ disk' = [disk EXCEPT ![s] = d]
        /\ m.term > el[s].current_term
    BY <1>5, <2>1 DEF CrashAfterStepDown
  <2>3. d.current_term = m.term
    BY <2>1
  <2>4. QED
    BY <1>1, <2>2, <2>3, RebornVotes
<1>6. CASE HandleRequestVote(s, m)
  BY <1>6, RequestVoteVotes
<1>7. CASE HandleRequestVoteResponse(s, m)
  BY <1>7, VoteResponseVotes
<1>8. CASE HandlePreVote(s, m)
  BY <1>8, StillStep DEF HandlePreVote, Send, NoNewVote
<1>9. CASE HandlePreVoteResponse(s, m)
  <2>1. CASE m.term > el[s].current_term
    <3>1. /\ el' = [el EXCEPT ![s] = e] /\ PersistCatchUp(s, m.term)
          /\ msgs' = msgs /\ elected' = elected
      BY <1>3, <1>9, <2>1
         DEF HandlePreVoteResponse, CatchUp, PersistCatchUp
    <3>2. DiskAgrees' /\ \A r \in Server : Quiet(r)
      BY <1>1, <1>3, <3>1, CatchUpQuiet DEF TypeInv, VoteInv
    <3>3. QED
      BY <3>1, <3>2, QuietStep DEF NoNewVote
  <2>2. CASE Campaign(s)
    BY <2>2, CampaignVotes
  <2>3. CASE ~(m.term > el[s].current_term) /\ ~Campaign(s)
    <3>1. PICK votes : el' = [el EXCEPT ![s].votes = votes]
      BY <1>9, <2>3 DEF HandlePreVoteResponse
    <3>2. /\ disk' = disk /\ msgs' = msgs /\ elected' = elected
          /\ el[s].role = "PRE_CANDIDATE"
      BY <1>9, <2>3 DEF HandlePreVoteResponse
    <3>3. PICK f : f = [el[s] EXCEPT !.votes = votes]
      OBVIOUS
    <3>4. /\ f.current_term = el[s].current_term
          /\ f.voted_for = el[s].voted_for /\ f.role = "PRE_CANDIDATE"
      BY <1>2, <3>2, <3>3 DEF Election
    <3>5. el' = [el EXCEPT ![s] = f]
      BY <3>1, <3>3
    <3>6. \A r \in Server : Quiet(r)
      BY <1>2, <3>4, <3>5, OneNodeQuiet DEF TypeInv
    <3>7. DiskAgrees'
      BY <3>2, <3>4, <3>5 DEF VoteInv, DiskAgrees, TypeInv, TypeOK
    <3>8. QED
      BY <3>2, <3>6, <3>7, QuietStep DEF NoNewVote
  <2>4. QED
    BY <2>1, <2>2, <2>3
<1>10. CASE HandleTimeoutNow(s, m)
  BY <1>10, CampaignVotes DEF HandleTimeoutNow
<1>11. ASSUME PersistCatchUp(s, m.term), NEW f, el' = [el EXCEPT ![s] = f],
              f.current_term = e.current_term, f.voted_for = e.voted_for,
              f.role = "CANDIDATE" => e.role = "CANDIDATE" /\ f.votes = e.votes,
              elected' = elected, NoNewVote
       PROVE  VoteInv' /\ Stable
  <2>1. DiskAgrees' /\ \A r \in Server : Quiet(r)
    BY <1>1, <1>3, <1>11, CatchUpQuiet DEF TypeInv, VoteInv
  <2>2. QED
    BY <1>11, <2>1, QuietStep
<1>12. ASSUME NEW t, NEW success, NEW match, Reply(s, m, t, success, match)
       PROVE  NoNewVote
  BY <1>12 DEF Reply, Send, NoNewVote
<1>13. CASE HandleHeartbeat(s, m)
  <2>1. PICK candidate : candidate = (e.role \in {"CANDIDATE", "PRE_CANDIDATE"})
    OBVIOUS
  <2>2. PICK led :
          led = [e EXCEPT !.current_leader = m.src, !.armed = TRUE,
                          !.role = IF candidate THEN "FOLLOWER" ELSE @,
                          !.votes = IF candidate THEN {} ELSE @]
    OBVIOUS
  <2>3. /\ led.current_term = e.current_term /\ led.voted_for = e.voted_for
        /\ led.role # "CANDIDATE"
    BY <1>4, <2>1, <2>2 DEF Election
  <2>4. PersistCatchUp(s, m.term) /\ elected' = elected
    BY <1>13 DEF HandleHeartbeat
  <2>5. el' = [el EXCEPT ![s] = led] \/ el' = [el EXCEPT ![s] = e]
    BY <1>3, <1>13, <2>1, <2>2, Zenon DEF HandleHeartbeat
  <2>6. NoNewVote
    BY <1>12, <1>13 DEF HandleHeartbeat
  <2>7. QED
    BY <1>11, <2>3, <2>4, <2>5, <2>6
<1>14. CASE HandleAppendEntries(s, m)
  <2>1. PICK led :
          led = [e EXCEPT !.current_leader = m.src,
                          !.role = IF @ = "CANDIDATE" THEN "FOLLOWER" ELSE @,
                          !.votes = IF e.role = "CANDIDATE" THEN {} ELSE @]
    OBVIOUS
  <2>2. /\ led.current_term = e.current_term /\ led.voted_for = e.voted_for
        /\ led.role # "CANDIDATE"
    BY <1>4, <2>1 DEF Election
  <2>3. PersistCatchUp(s, m.term) /\ elected' = elected
    BY <1>14 DEF HandleAppendEntries
  <2>4. el' = [el EXCEPT ![s] = led] \/ el' = [el EXCEPT ![s] = e]
    BY <1>3, <1>14, <2>1, Zenon DEF HandleAppendEntries
  <2>5. NoNewVote
    BY <1>12, <1>14 DEF HandleAppendEntries
  <2>6. QED
    BY <1>11, <2>2, <2>3, <2>4, <2>5
<1>15. CASE HandleAppendEntriesResponse(s, m)
  <2>1. /\ PersistCatchUp(s, m.term) /\ elected' = elected /\ msgs' = msgs
        /\ el' = [el EXCEPT ![s] = CatchUp(@, m.term)]
    BY <1>15 DEF HandleAppendEntriesResponse
  <2>2. el' = [el EXCEPT ![s] = e] /\ NoNewVote
    BY <1>3, <2>1 DEF NoNewVote
  <2>3. QED
    BY <1>11, <2>1, <2>2
<1>16. QED
  BY <1>5, <1>6, <1>7, <1>8, <1>9, <1>10, <1>13, <1>14, <1>15 DEF Receive


LEMMA VoteInit == Init => VoteInv
<1> SUFFICES ASSUME Init PROVE VoteInv
  OBVIOUS
<1>1. \A v, c, t : ~Voted(v, c, t)
  BY DEF Init, Voted
<1>2. QED
  BY <1>1 DEF Init, VoteInv, DiskAgrees, VoteKept, VoteUnique, VotesCounted,
              ElectedByMajority

\* The vote invariant is inductive together with the type invariant, and every
\* step keeps terms and votes.
LEMMA VoteStep ==
    ASSUME SavesSucceed
    PROVE  TypeInv /\ VoteInv /\ [Next]_vars => VoteInv' /\ Stable
<1> SUFFICES ASSUME TypeInv, VoteInv, [Next]_vars PROVE VoteInv' /\ Stable
  OBVIOUS
<1>1. TypeInv'
  BY TypeStep
<1>2. ASSUME NEW s \in Server, Call(s) PROVE VoteInv' /\ Stable
  BY <1>1, <1>2, VotesCall
<1>3. ASSUME NEW m \in msgs, Receive(m.dst, m) PROVE VoteInv' /\ Stable
  BY <1>1, <1>3, MessageFields, VotesReceive
<1>4. CASE UNCHANGED vars
  BY <1>1, <1>4, StillStep DEF vars, NoNewVote
<1>5. QED
  BY <1>2, <1>3, <1>4 DEF Next

\* Election Safety for every cluster size, every number of crashes and every
\* order of delivery: as long as the saves of state.dat succeed,
\* raft_become_leader runs on at most one node in a term.
THEOREM ElectionSafe == SavesSucceed => (Spec => []ElectionSafety)
<1> SUFFICES ASSUME SavesSucceed PROVE Spec => []ElectionSafety
  OBVIOUS
<1>1. TypeInv /\ VoteInv /\ [Next]_vars => TypeInv' /\ VoteInv'
  BY TypeStep, VoteStep
<1>2. Init => TypeInv /\ VoteInv
  BY TypeInit, VoteInit
<1>3. TypeInv /\ VoteInv => ElectionSafety
  BY VoteInvSafe
<1>4. QED
  BY <1>1, <1>2, <1>3, PTL DEF Spec

\* Under the same assumption no step of a node, a crash and recovery included,
\* takes its term back or changes a vote it has given in the term.
THEOREM VotesStable == SavesSucceed => (Spec => VoteStable)
<1> SUFFICES ASSUME SavesSucceed PROVE Spec => VoteStable
  OBVIOUS
<1>1. TypeInv /\ VoteInv /\ [Next]_vars => TypeInv' /\ VoteInv'
  BY TypeStep, VoteStep
<1>2. Init => TypeInv /\ VoteInv
  BY TypeInit, VoteInit
<1>3. TypeInv /\ VoteInv /\ [Next]_vars => [Stable]_vars
  BY VoteStep
<1>4. (Spec => [][Stable]_vars) <=> (Spec => VoteStable)
  BY DEF Stable, VoteStable
<1>5. QED
  BY <1>1, <1>2, <1>3, <1>4, PTL DEF Spec

-----------------------------------------------------------------------------
(* The logs: the inductive invariants. *)

\* Whoever leads a term was elected in it, and only it sends AppendEntries.
KnownInv ==
    /\ LeaderKnown
    /\ \A s \in Server :
          el[s].role = "LEADER" => [term |-> el[s].current_term, server |-> s] \in elected
    /\ \A m \in msgs :
          m.type = "AppendEntries" =>
              [term |-> m.term, server |-> m.src] \in elected /\ m.src # m.dst

\* The entries of a log, or of a message whose first entry follows (prev, prevTerm),
\* each with its index and with the term of the entry before it.
LinkAt(entries, prev, prevTerm, k) ==
    [index |-> prev + k, entry |-> entries[k],
     before |-> IF k = 1 THEN prevTerm ELSE entries[k - 1].term]

LinksOf(entries, prev, prevTerm) ==
    {LinkAt(entries, prev, prevTerm, k) : k \in DOMAIN entries}

MessageLinks(m) == LinksOf(m.entries, m.prev_log_index, m.prev_log_term)

\* The links of the logs and of the messages that carry entries.
LinkSet(logs, ms) ==
    (UNION {LinksOf(logs[s], 0, 0) : s \in Server})
    \cup (UNION {MessageLinks(m) : m \in {n \in ms : n.type = "AppendEntries"}})

Links == LinkSet(log, msgs)

\* A node is a candidate only in a term it has not led, and a leader was elected
\* in no later term than its own.
FreshCandidate ==
    /\ \A s \in Server :
          el[s].role = "CANDIDATE" => [term |-> el[s].current_term, server |-> s] \notin elected
    /\ \A x \in elected : x.term <= el[x.server].current_term

\* Two entries of one term at one index are the same entry, after entries of the
\* same term.
LinksAgree ==
    \A x, y \in Links :
        x.index = y.index /\ x.entry.term = y.entry.term => x = y

\* An entry was made by the leader of its term ...
LinksElected == \A x \in Links : \E w \in elected : w.term = x.entry.term

\* ... which, as long as it leads, has it in its log.
LeaderHolds ==
    \A s \in Server : el[s].role = "LEADER" =>
        \A x \in Links : x.entry.term = el[s].current_term => x.index <= Len(log[s])

\* A message that starts at the first entry follows nothing.
FromStart ==
    \A m \in msgs : m.type = "AppendEntries" /\ m.prev_log_index = 0 => m.prev_log_term = 0

LogInv == FreshCandidate /\ LinksAgree /\ LinksElected /\ LeaderHolds

-----------------------------------------------------------------------------
(* Leaders. *)

\* A step in which one node comes to f: whom it then follows was elected, and it
\* leads a term only if it did so before, or as the candidate of the term.
LeadStep(s, f) ==
    /\ f.current_leader # Nil =>
          [term |-> f.current_term, server |-> f.current_leader] \in elected'
    /\ f.role = "LEADER" =>
          /\ [term |-> f.current_term, server |-> s] \in elected'
          /\ ~SingleNode => /\ f.current_term = el[s].current_term
                            /\ el[s].role \in {"LEADER", "CANDIDATE"}
    /\ f.role = "CANDIDATE" =>
          \/ f.current_term > el[s].current_term
          \/ f.current_term = el[s].current_term /\ el[s].role = "CANDIDATE"
    /\ \/ elected' = elected
       \/ /\ elected' = elected \cup {[term |-> f.current_term, server |-> s]}
          /\ f.role = "LEADER"
          /\ ~SingleNode => el[s].role = "CANDIDATE"

\* What every step does to the roles, in a cluster of several nodes.
RoleStep ==
    /\ elected \subseteq elected'
    /\ \A r \in Server : el'[r].role = "LEADER" =>
          /\ el'[r].current_term = el[r].current_term
          /\ el[r].role \in {"LEADER", "CANDIDATE"}
    /\ \A r \in Server : el'[r].role = "CANDIDATE" =>
          \/ el'[r].current_term > el[r].current_term
          \/ el'[r].current_term = el[r].current_term /\ el[r].role = "CANDIDATE"
    /\ \A x \in elected' : x \in elected \/ (/\ x.server \in Server
                                            /\ el'[x.server].role = "LEADER"
                                            /\ el'[x.server].current_term = x.term)

LeadsKept == KnownInv' /\ (~SingleNode => RoleStep)

NoNewAppend == \A m \in msgs' : m.type = "AppendEntries" => m \in msgs

\* Such a step keeps what is known of the leaders.
LEMMA OneNodeLeads ==
    ASSUME TypeOK, KnownInv, NEW s \in Server, NEW f, el' = [el EXCEPT ![s] = f],
           LeadStep(s, f), NoNewAppend
    PROVE  LeadsKept
<1>1. el'[s] = f /\ \A r \in Server : r # s => el'[r] = el[r]
  BY DEF TypeOK
<1>2. elected \subseteq elected'
  BY DEF LeadStep
<1>3. LeaderKnown'
  BY <1>1, <1>2 DEF KnownInv, LeaderKnown, LeadStep
<1>4. \A r \in Server : el'[r].role = "LEADER" =>
                          [term |-> el'[r].current_term, server |-> r] \in elected'
  BY <1>1, <1>2 DEF KnownInv, LeadStep
<1>5. \A m \in msgs' : m.type = "AppendEntries" =>
                          [term |-> m.term, server |-> m.src] \in elected' /\ m.src # m.dst
  BY <1>2 DEF KnownInv, NoNewAppend
<1>6. ASSUME ~SingleNode PROVE RoleStep
  <2>1. \A r \in Server : el'[r].role = "LEADER" =>
          /\ el'[r].current_term = el[r].current_term
          /\ el[r].role \in {"LEADER", "CANDIDATE"}
    BY <1>1, <1>6 DEF LeadStep
  <2>2. \A r \in Server : el'[r].role = "CANDIDATE" =>
          \/ el'[r].current_term > el[r].current_term
          \/ el'[r].current_term = el[r].current_term /\ el[r].role = "CANDIDATE"
    BY <1>1, <1>6 DEF LeadStep
  <2>3. \A x \in elected' : x \in elected \/ (/\ x.server \in Server
                                            /\ el'[x.server].role = "LEADER"
                                            /\ el'[x.server].current_term = x.term)
    BY <1>1, <1>6 DEF LeadStep
  <2>4. QED
    BY <1>2, <2>1, <2>2, <2>3 DEF RoleStep
<1>7. QED
  BY <1>3, <1>4, <1>5, <1>6 DEF KnownInv, LeadsKept

\* A step that touches no node's role, term or leader.
LEMMA StillLeads ==
    ASSUME KnownInv, UNCHANGED <<el, elected>>, NoNewAppend
    PROVE  LeadsKept
BY DEF KnownInv, LeaderKnown, NoNewAppend, RoleStep, LeadsKept

\* raft_become_leader.
LEMMA BecomeLeaderLeads ==
    ASSUME NEW s \in Server, NEW e \in Election, BecomeLeader(s, e),
           ~SingleNode => /\ e.current_term = el[s].current_term
                          /\ el[s].role = "CANDIDATE"
    PROVE  \E f : el' = [el EXCEPT ![s] = f] /\ LeadStep(s, f)
<1>1. PICK f : f = [e EXCEPT !.role = "LEADER", !.current_leader = s]
  OBVIOUS
<1>2. f.role = "LEADER" /\ f.current_leader = s /\ f.current_term = e.current_term
  BY <1>1 DEF Election
<1>3. elected' = elected \cup {[term |-> f.current_term, server |-> s]}
  BY <1>2 DEF BecomeLeader
<1>4. LeadStep(s, f)
  BY <1>2, <1>3 DEF LeadStep
<1>5. QED
  BY <1>1, <1>4 DEF BecomeLeader

\* raft_start_election.
LEMMA CampaignLeads ==
    ASSUME TypeOK, NEW s \in Server, Campaign(s)
    PROVE  NoNewAppend /\ \E f : el' = [el EXCEPT ![s] = f] /\ LeadStep(s, f)
<1>1. PICK e : e = [role |-> "CANDIDATE", current_term |-> el[s].current_term + 1,
                    voted_for |-> s, current_leader |-> Nil, votes |-> {s},
                    armed |-> TRUE]
  OBVIOUS
<1>2. el[s].current_term \in Nat
  BY DEF TypeOK, Election
<1>3. e \in Election
  BY <1>1, <1>2 DEF Election, Role
<1>4. CASE SingleNode
  <2>1. BecomeLeader(s, e) /\ msgs' = msgs
    BY <1>1, <1>4 DEF Campaign
  <2>2. QED
    BY <1>3, <1>4, <2>1, BecomeLeaderLeads DEF NoNewAppend
<1>5. CASE ~SingleNode
  <2>1. el' = [el EXCEPT ![s] = e] /\ elected' = elected
    BY <1>1, <1>5 DEF Campaign
  <2>2. NoNewAppend
    BY <1>5 DEF Campaign, Send, NoNewAppend
  <2>3. e.role = "CANDIDATE" /\ e.current_term = el[s].current_term + 1 /\ e.current_leader = Nil
    BY <1>1
  <2>4. LeadStep(s, e)
    BY <1>2, <2>1, <2>3 DEF LeadStep
  <2>5. QED
    BY <2>1, <2>2, <2>4
<1>6. QED
  BY <1>4, <1>5

\* The common handler: step down on a higher term, then follow the same leader, or
\* one that was elected, and lead or stand only as before.
LEMMA CatchUpLeads ==
    ASSUME TypeOK, KnownInv, NEW s \in Server, NEW t \in Nat, NEW f,
           elected' = elected,
           f.current_term = CatchUp(el[s], t).current_term,
           f.role \in {"LEADER", "CANDIDATE"} => f.role = CatchUp(el[s], t).role,
           \/ f.current_leader = CatchUp(el[s], t).current_leader
           \/ [term |-> f.current_term, server |-> f.current_leader] \in elected
    PROVE  LeadStep(s, f)
<1>1. CASE t > el[s].current_term
  <2>1. CatchUp(el[s], t) = StepDown(el[s], t)
    BY <1>1 DEF CatchUp
  <2>2. f.role \notin {"LEADER", "CANDIDATE"}
    BY <2>1 DEF StepDown
  <2>3. CatchUp(el[s], t).current_leader = Nil
    BY <2>1 DEF StepDown
  <2>4. QED
    BY <2>2, <2>3 DEF LeadStep
<1>2. CASE ~(t > el[s].current_term)
  <2>1. CatchUp(el[s], t) = el[s]
    BY <1>2 DEF CatchUp
  <2>2. QED
    BY <2>1 DEF LeadStep, KnownInv, LeaderKnown
<1>3. QED
  BY <1>1, <1>2

\* A leader's AppendEntries.
LEMMA LeaderSends ==
    ASSUME KnownInv, UNCHANGED <<el, elected>>, NEW s \in Server, el[s].role = "LEADER",
           \A m \in msgs' :
              \/ m \in msgs
              \/ m.src = s /\ m.dst # s /\ m.term = el[s].current_term
    PROVE  LeadsKept
<1>1. LeaderKnown' /\ RoleStep
  BY DEF KnownInv, LeaderKnown, RoleStep
<1>2. \A m \in msgs' : m.type = "AppendEntries" =>
                          [term |-> m.term, server |-> m.src] \in elected /\ m.src # m.dst
  BY DEF KnownInv
<1>3. QED
  BY <1>1, <1>2 DEF KnownInv, LeadsKept

LEMMA ReplicateSends ==
    ASSUME NEW s \in Server, NEW lg, ReplicateLog(s, lg), NEW m \in msgs'
    PROVE  m \in msgs \/ (m.src = s /\ m.dst # s /\ m.term = el[s].current_term)
<1>1. \A p : LET a == AppendTo(s, p, lg)
            IN  a.src = s /\ a.dst = p /\ a.term = el[s].current_term
  BY DEF AppendTo
<1>2. QED
  BY <1>1 DEF ReplicateLog, Send

LEMMA LeadsCall ==
    ASSUME TypeInv, KnownInv, NEW s \in Server, Call(s)
    PROVE  LeadsKept
<1>0. TypeOK /\ el[s] \in Election
  BY DEF TypeInv, TypeOK
<1>1. CASE Start(s)
  <2>1. msgs' = msgs /\ NoNewAppend
    BY <1>1 DEF Start, NoNewAppend
  <2>2. CASE SingleNode
    <3>1. BecomeLeader(s, el[s])
      BY <1>1, <2>2 DEF Start
    <3>2. QED
      BY <1>0, <2>1, <2>2, <3>1, BecomeLeaderLeads, OneNodeLeads
  <2>3. CASE ~SingleNode
    BY <1>1, <2>1, <2>3, StillLeads DEF Start
  <2>4. QED
    BY <2>2, <2>3
<1>2. CASE Stop(s)
  BY <1>2, StillLeads DEF Stop, NoNewAppend
<1>3. CASE Restart(s)
  <2>1. PICK f : /\ f = [role |-> "FOLLOWER", current_term |-> disk[s].current_term,
                         voted_for |-> disk[s].voted_for, current_leader |-> Nil,
                         votes |-> {}, armed |-> FALSE]
                 /\ el' = [el EXCEPT ![s] = f]
    BY <1>3 DEF Restart, Reborn
  <2>2. NoNewAppend /\ LeadStep(s, f)
    BY <1>3, <2>1 DEF Restart, Reborn, NoNewAppend, LeadStep
  <2>3. QED
    BY <1>0, <2>1, <2>2, OneNodeLeads
<1>4. CASE StartElection(s)
  BY <1>0, <1>4, CampaignLeads, OneNodeLeads DEF StartElection
<1>5. CASE StartPreVote(s)
  <2> SUFFICES ASSUME AskPreVotes(s) PROVE LeadsKept
    BY <1>0, <1>5, CampaignLeads, OneNodeLeads DEF StartPreVote
  <2>1. PICK f : f = [el[s] EXCEPT !.role = "PRE_CANDIDATE",
                        !.current_leader = Nil, !.votes = {s}, !.armed = TRUE]
    OBVIOUS
  <2>2. el' = [el EXCEPT ![s] = f] /\ elected' = elected
    BY <2>1 DEF AskPreVotes
  <2>3. f.role = "PRE_CANDIDATE" /\ f.current_leader = Nil
    BY <1>0, <2>1 DEF Election
  <2>4. NoNewAppend
    BY DEF AskPreVotes, Send, NoNewAppend
  <2>5. LeadStep(s, f)
    BY <2>2, <2>3 DEF LeadStep
  <2>6. QED
    BY <1>0, <2>2, <2>4, <2>5, OneNodeLeads
<1>6. ASSUME NEW target \in Server, TransferLeadership(s, target) PROVE LeadsKept
  BY <1>6, StillLeads DEF TransferLeadership, TransferProgress, Send, NoNewAppend
<1>7. CASE TransferCheckProgress(s)
  BY <1>7, StillLeads DEF TransferCheckProgress, TransferProgress, Send, NoNewAppend
<1>8. CASE TransferAbort(s)
  BY <1>8, StillLeads DEF TransferAbort, NoNewAppend
<1>9. ASSUME NEW v \in Value, Propose(s, v) PROVE LeadsKept
  <2>1. UNCHANGED <<el, elected>> /\ el[s].role = "LEADER"
    BY <1>9 DEF Propose
  <2>2. PICK lg : msgs' = msgs \/ ReplicateLog(s, lg)
    BY <1>9 DEF Propose
  <2>3. QED
    BY <2>1, <2>2, ReplicateSends, LeaderSends
<1>10. CASE TickHeartbeat(s)
  BY <1>10, ReplicateSends, LeaderSends DEF TickHeartbeat
<1>11. CASE SendHeartbeats(s)
  BY <1>11, LeaderSends DEF SendHeartbeats, Send
<1>12. QED
  BY <1>1, <1>2, <1>3, <1>4, <1>5, <1>6, <1>7, <1>8, <1>9, <1>10, <1>11 DEF Call

LEMMA LeadsReceive ==
    ASSUME TypeInv, KnownInv, NEW m \in msgs, NEW s \in Server, Receive(s, m)
    PROVE  LeadsKept
<1>1. m.src \in Server /\ m.term \in Nat
  BY MessageFields
<1>2. TypeOK /\ el[s] \in Election /\ el[s].current_term \in Nat
  BY DEF TypeInv, TypeOK, Election
<1>3. PICK e : e = CatchUp(el[s], m.term)
  OBVIOUS
<1>4. e \in Election
  BY <1>1, <1>2, <1>3, CatchUpType
<1>5. ASSUME NEW f, el' = [el EXCEPT ![s] = f], elected' = elected, NoNewAppend,
             f.current_term = e.current_term,
             f.role \in {"LEADER", "CANDIDATE"} => f.role = e.role,
             \/ f.current_leader = e.current_leader
             \/ [term |-> f.current_term, server |-> f.current_leader] \in elected
      PROVE  LeadsKept
  <2>1. LeadStep(s, f)
    BY <1>1, <1>2, <1>3, <1>5, CatchUpLeads
  <2>2. QED
    BY <1>2, <1>5, <2>1, OneNodeLeads
<1>6. ASSUME NEW t, NEW success, NEW match, Reply(s, m, t, success, match)
      PROVE  NoNewAppend
  BY <1>6 DEF Reply, Send, NoNewAppend
<1>7. CASE CrashAfterStepDown(s, m)
  <2>1. PICK f : /\ f = [role |-> "FOLLOWER", current_term |-> m.term,
                         voted_for |-> Nil, current_leader |-> Nil,
                         votes |-> {}, armed |-> FALSE]
                 /\ el' = [el EXCEPT ![s] = f]
    BY <1>7 DEF CrashAfterStepDown, Reborn
  <2>2. NoNewAppend /\ LeadStep(s, f)
    BY <1>7, <2>1 DEF CrashAfterStepDown, Reborn, NoNewAppend, LeadStep
  <2>3. QED
    BY <1>2, <2>1, <2>2, OneNodeLeads
<1>8. CASE HandleRequestVote(s, m)
  <2>1. PICK voted : voted = [e EXCEPT !.voted_for = m.src, !.armed = TRUE]
    OBVIOUS
  <2>2. /\ voted.current_term = e.current_term /\ voted.role = e.role
        /\ voted.current_leader = e.current_leader
    BY <1>4, <2>1 DEF Election
  <2>3. /\ el' = [el EXCEPT ![s] = voted] \/ el' = [el EXCEPT ![s] = e]
        /\ elected' = elected
    BY <1>3, <1>8, <2>1, Zenon DEF HandleRequestVote
  <2>4. NoNewAppend
    BY <1>8 DEF HandleRequestVote, Send, NoNewAppend
  <2>5. QED
    BY <1>5, <2>2, <2>3, <2>4
<1>9. CASE HandleRequestVoteResponse(s, m)
  <2>1. PICK counted : counted = IF m.term = el[s].current_term /\ m.vote_granted
                                   THEN [e EXCEPT !.votes = @ \cup {m.src}] ELSE e
    OBVIOUS
  <2>2. /\ counted \in Election
        /\ counted.current_term = e.current_term /\ counted.role = e.role
        /\ counted.current_leader = e.current_leader
        /\ counted.votes # e.votes => m.term = el[s].current_term
    BY <1>1, <1>4, <2>1 DEF Election
  <2>3. NoNewAppend /\ el[s].role = "CANDIDATE"
    BY <1>9 DEF HandleRequestVoteResponse, NoNewAppend
  <2>4. CASE BecomeLeader(s, counted) /\ counted.votes # e.votes
    <3>1. counted.current_term = el[s].current_term
      BY <1>2, <1>3, <2>2, <2>4 DEF CatchUp
    <3>2. QED
      BY <1>2, <2>2, <2>3, <2>4, <3>1, BecomeLeaderLeads, OneNodeLeads
  <2>5. CASE el' = [el EXCEPT ![s] = counted] /\ elected' = elected
    BY <1>5, <2>2, <2>3, <2>5
  <2>6. QED
    BY <1>3, <1>9, <2>1, <2>4, <2>5, Zenon DEF HandleRequestVoteResponse
<1>10. CASE HandlePreVote(s, m)
  BY <1>10, StillLeads DEF HandlePreVote, Send, NoNewAppend
<1>11. CASE HandlePreVoteResponse(s, m)
  <2>1. CASE m.term > el[s].current_term
    <3>1. el' = [el EXCEPT ![s] = e] /\ msgs' = msgs /\ elected' = elected
      BY <1>3, <1>11, <2>1 DEF HandlePreVoteResponse, CatchUp
    <3>2. QED
      BY <1>5, <3>1 DEF NoNewAppend
  <2>2. CASE Campaign(s)
    BY <1>2, <2>2, CampaignLeads, OneNodeLeads
  <2>3. CASE ~(m.term > el[s].current_term) /\ ~Campaign(s)
    <3>1. PICK votes : el' = [el EXCEPT ![s].votes = votes]
      BY <1>11, <2>3 DEF HandlePreVoteResponse
    <3>2. msgs' = msgs /\ elected' = elected
      BY <1>11, <2>3 DEF HandlePreVoteResponse
    <3>3. PICK f : f = [el[s] EXCEPT !.votes = votes]
      OBVIOUS
    <3>4. /\ f.current_term = el[s].current_term /\ f.role = el[s].role
          /\ f.current_leader = el[s].current_leader
      BY <1>2, <3>3 DEF Election
    <3>5. el' = [el EXCEPT ![s] = f] /\ e = el[s]
      BY <1>3, <2>3, <3>1, <3>3 DEF CatchUp
    <3>6. QED
      BY <1>5, <3>2, <3>4, <3>5 DEF NoNewAppend
  <2>4. QED
    BY <2>1, <2>2, <2>3
<1>12. CASE HandleTimeoutNow(s, m)
  BY <1>2, <1>12, CampaignLeads, OneNodeLeads DEF HandleTimeoutNow
<1>13. ASSUME m.type = "AppendEntries", m.term = e.current_term
       PROVE  [term |-> e.current_term, server |-> m.src] \in elected
  BY <1>13 DEF KnownInv
<1>14. CASE HandleHeartbeat(s, m)
  <2>1. PICK candidate : candidate = (e.role \in {"CANDIDATE", "PRE_CANDIDATE"})
    OBVIOUS
  <2>2. PICK led :
          led = [e EXCEPT !.current_leader = m.src, !.armed = TRUE,
                          !.role = IF candidate THEN "FOLLOWER" ELSE @,
                          !.votes = IF candidate THEN {} ELSE @]
    OBVIOUS
  <2>3. /\ led.current_term = e.current_term /\ led.current_leader = m.src
        /\ led.role \in {"LEADER", "CANDIDATE"} => led.role = e.role
    BY <1>4, <2>1, <2>2 DEF Election
  <2>4. /\ elected' = elected /\ m.type = "AppendEntries"
        /\ \/ el' = [el EXCEPT ![s] = led] /\ Accepts(e, m)
           \/ el' = [el EXCEPT ![s] = e]
    BY <1>3, <1>14, <2>1, <2>2, Zenon DEF HandleHeartbeat
  <2>5. NoNewAppend
    BY <1>6, <1>14 DEF HandleHeartbeat
  <2>6. QED
    BY <1>5, <1>13, <2>3, <2>4, <2>5 DEF Accepts
<1>15. CASE HandleAppendEntries(s, m)
  <2>1. PICK led :
          led = [e EXCEPT !.current_leader = m.src,
                          !.role = IF @ = "CANDIDATE" THEN "FOLLOWER" ELSE @,
                          !.votes = IF e.role = "CANDIDATE" THEN {} ELSE @]
    OBVIOUS
  <2>2. /\ led.current_term = e.current_term /\ led.current_leader = m.src
        /\ led.role \in {"LEADER", "CANDIDATE"} => led.role = e.role
    BY <1>4, <2>1 DEF Election
  <2>3. /\ elected' = elected /\ m.type = "AppendEntries"
        /\ \/ el' = [el EXCEPT ![s] = led] /\ Accepts(e, m)
           \/ el' = [el EXCEPT ![s] = e]
    BY <1>3, <1>15, <2>1, Zenon DEF HandleAppendEntries
  <2>4. NoNewAppend
    BY <1>6, <1>15 DEF HandleAppendEntries
  <2>5. QED
    BY <1>5, <1>13, <2>2, <2>3, <2>4 DEF Accepts
<1>16. CASE HandleAppendEntriesResponse(s, m)
  <2>1. el' = [el EXCEPT ![s] = e] /\ elected' = elected /\ NoNewAppend
    BY <1>3, <1>16 DEF HandleAppendEntriesResponse, NoNewAppend
  <2>2. QED
    BY <1>5, <2>1
<1>17. QED
  BY <1>7, <1>8, <1>9, <1>10, <1>11, <1>12, <1>14, <1>15, <1>16 DEF Receive

LEMMA LeadsStep == TypeInv /\ KnownInv /\ [Next]_vars => LeadsKept
<1> SUFFICES ASSUME TypeInv, KnownInv, [Next]_vars PROVE LeadsKept
  OBVIOUS
<1>1. ASSUME NEW m \in msgs, Receive(m.dst, m) PROVE LeadsKept
  BY <1>1, MessageFields, LeadsReceive
<1>2. CASE UNCHANGED vars
  BY <1>2, StillLeads DEF vars, NoNewAppend
<1>3. QED
  BY <1>1, <1>2, LeadsCall DEF Next

LEMMA KnownInit == Init => KnownInv
BY DEF Init, KnownInv, LeaderKnown

\* Whom a node takes for its leader was elected in the node's own term: nobody
\* redirects a client, or obeys a TimeoutNow, on the word of a node that never won,
\* whatever is delivered late or twice, and even when saves of state.dat fail.
THEOREM LeadersKnown == Spec => []LeaderKnown
<1>1. Init => TypeInv /\ KnownInv
  BY TypeInit, KnownInit
<1>2. TypeInv /\ KnownInv /\ [Next]_vars => TypeInv' /\ KnownInv'
  BY TypeStep, LeadsStep DEF LeadsKept
<1>3. KnownInv => LeaderKnown
  BY DEF KnownInv
<1>4. QED
  BY <1>1, <1>2, <1>3, PTL DEF Spec

-----------------------------------------------------------------------------
(* Logs. *)

\* What raft_replicate_to_peer sends is a stretch of the leader's log, with the
\* entry before it.
LEMMA AppendToLinks ==
    ASSUME TypeInv, NEW s \in Server, NEW p \in Server, NEW lg \in Seq(Entry),
           el[s].role = "LEADER"
    PROVE  /\ MessageLinks(AppendTo(s, p, lg)) \subseteq LinksOf(lg, 0, 0)
           /\ AppendTo(s, p, lg).prev_log_index = 0 => AppendTo(s, p, lg).prev_log_term = 0
<1> DEFINE next == next_index[s][p]
           last == Min({LastIndex(lg), next + MaxEntriesPerAppend - 1})
<1>1. next \in Nat /\ next >= 1
  BY DEF TypeInv, TypeOK
<1>2. last \in Nat /\ last <= Len(lg)
  <2>1. Len(lg) \in Nat /\ next + MaxEntriesPerAppend - 1 \in Nat
    BY <1>1, RaftAssumption
  <2> HIDE DEF next
  <2>2. last \in {Len(lg), next + MaxEntriesPerAppend - 1} /\ last <= Len(lg)
    BY <2>1, SmallExtrema DEF LastIndex
  <2>3. QED
    BY <2>1, <2>2
<1>3. PICK m : m = AppendTo(s, p, lg)
  OBVIOUS
<1>4. /\ m.prev_log_index = next - 1 /\ m.prev_log_term = TermAt(lg, next - 1)
      /\ m.entries = SubSeq(lg, next, last)
  <2>1. (IF next > 1 THEN next - 1 ELSE 0) = next - 1
    BY <1>1
  <2>2. QED
    BY <1>3, <2>1 DEF AppendTo
<1> HIDE DEF next, last
<1>5. \A i \in next .. last : lg[i] \in Entry
  BY <1>1, <1>2
<1>6. /\ Len(m.entries) = IF next <= last THEN last - next + 1 ELSE 0
      /\ \A i \in 1 .. last - next + 1 : m.entries[i] = lg[next + i - 1]
      /\ m.entries \in Seq(Entry)
  BY <1>1, <1>2, <1>4, <1>5, SubSeqProperties
<1>7. ASSUME NEW k \in DOMAIN m.entries
      PROVE  LinkAt(m.entries, m.prev_log_index, m.prev_log_term, k) \in LinksOf(lg, 0, 0)
  <2>1. k \in 1 .. last - next + 1 /\ next <= last
    BY <1>1, <1>2, <1>6
  <2>2. PICK j : j = next + k - 1
    OBVIOUS
  <2>3. j \in 1 .. Len(lg) /\ m.entries[k] = lg[j] /\ m.prev_log_index + k = 0 + j
    BY <1>1, <1>2, <1>4, <1>6, <2>1, <2>2, SMTT(30)
  <2>4. CASE k = 1
    <3>1. m.prev_log_term = IF j = 1 THEN 0 ELSE lg[j - 1].term
      BY <1>1, <1>4, <2>2, <2>3, <2>4 DEF TermAt
    <3>2. LinkAt(m.entries, m.prev_log_index, m.prev_log_term, k) = LinkAt(lg, 0, 0, j)
      BY <2>3, <2>4, <3>1 DEF LinkAt
    <3>3. QED
      BY <2>3, <3>2 DEF LinksOf
  <2>5. CASE k # 1
    <3>1. m.entries[k - 1] = lg[j - 1] /\ j # 1
      BY <1>1, <1>2, <1>6, <2>1, <2>2, <2>5, SMTT(30)
    <3>2. LinkAt(m.entries, m.prev_log_index, m.prev_log_term, k) = LinkAt(lg, 0, 0, j)
      BY <2>3, <2>5, <3>1 DEF LinkAt
    <3>3. QED
      BY <2>3, <3>2 DEF LinksOf
  <2>6. QED
    BY <2>4, <2>5
<1>8. m.prev_log_index = 0 => m.prev_log_term = 0
  BY <1>1, <1>4 DEF TermAt
<1>9. MessageLinks(m) \subseteq LinksOf(lg, 0, 0)
  BY <1>7 DEF MessageLinks, LinksOf
<1>10. QED
  BY <1>3, <1>8, <1>9

\* The entry loop of raft_handle_append_entries_with_log makes no new link: each
\* entry of the merged log follows what it followed in the log or in the message.
LEMMA MergeLinks ==
    ASSUME NEW lg \in Seq(Entry), NEW entries \in Seq(Entry), NEW prev \in Nat,
           NEW prevTerm,
           prev > 0 => TermAt(lg, prev) # 0 /\ TermAt(lg, prev) = prevTerm,
           prev = 0 => prevTerm = 0
    PROVE  LinksOf(MergeEntries(lg, prev, entries), 0, 0)
             \subseteq LinksOf(lg, 0, 0) \cup LinksOf(entries, prev, prevTerm)
<1> DEFINE conflicts == {k \in 1 .. Len(entries) :
                            /\ prev + k <= Len(lg)
                            /\ lg[prev + k].term # entries[k].term}
           T == conflicts \cup {Len(lg) - prev + 1}
           from == Min(T)
           merged == MergeEntries(lg, prev, entries)
<1>1. prev \in 0 .. Len(lg)
  BY DEF TermAt
<1>2. T \in SUBSET (Nat \ {0}) /\ T # {}
  BY <1>1
<1>3. from \in T /\ \A y \in T : from <= y
  BY <1>2, MinNat
<1>4. from \in Nat /\ 1 <= from /\ from <= Len(lg) - prev + 1
  BY <1>1, <1>2, <1>3
<1>5. \A k \in 1 .. Len(entries) : k < from => lg[prev + k].term = entries[k].term
  <2> TAKE k \in 1 .. Len(entries)
  <2> HAVE k < from
  <2>1. k \notin conflicts
    <3>1. conflicts \subseteq T
      OBVIOUS
    <3> HIDE DEF conflicts, T, from
    <3>2. QED
      BY <1>3, <1>4, <3>1
  <2>2. prev + k <= Len(lg)
    BY <1>1, <1>4
  <2>3. QED
    BY <2>1, <2>2
<1>6. merged = SubSeq(lg, 1, prev + from - 1) \o SubSeq(entries, from, Len(entries))
  BY DEF MergeEntries
<1> HIDE DEF conflicts, T, from, merged
<1> DEFINE head == SubSeq(lg, 1, prev + from - 1)
           tail == SubSeq(entries, from, Len(entries))
           n == prev + from - 1
<1>7. n \in 0 .. Len(lg)
  BY <1>1, <1>4
<1>8. head \in Seq(Entry) /\ Len(head) = n /\ \A i \in 1 .. n : head[i] = lg[i]
  <2>1. \A i \in 1 .. n : lg[i] \in Entry
    BY <1>7
  <2>2. /\ head \in Seq(Entry)
        /\ Len(head) = IF 1 <= n THEN n - 1 + 1 ELSE 0
        /\ \A i \in 1 .. n - 1 + 1 : head[i] = lg[1 + i - 1]
    BY <1>4, <1>7, <2>1, SubSeqProperties
  <2>3. QED
    BY <1>7, <2>2
<1>9. /\ tail \in Seq(Entry)
      /\ Len(tail) = IF from <= Len(entries) THEN Len(entries) - from + 1 ELSE 0
      /\ \A i \in 1 .. Len(entries) - from + 1 : tail[i] = entries[from + i - 1]
  <2>1. \A i \in from .. Len(entries) : entries[i] \in Entry
    BY <1>4
  <2>2. QED
    BY <1>4, <2>1, SubSeqProperties
<1> HIDE DEF head, tail
<1>10. /\ merged \in Seq(Entry) /\ Len(merged) = Len(head) + Len(tail)
       /\ \A i \in 1 .. Len(head) + Len(tail) :
             merged[i] = IF i <= Len(head) THEN head[i] ELSE tail[i - Len(head)]
  BY <1>6, <1>8, <1>9, ConcatProperties DEF head, tail
<1>11. \A i \in 1 .. n : merged[i] = lg[i]
  BY <1>7, <1>8, <1>9, <1>10
<1>12. ASSUME NEW i \in DOMAIN merged, i > n
       PROVE  /\ i - prev \in from .. Len(entries) /\ merged[i] = entries[i - prev]
  <2>1. i \in 1 .. n + Len(tail) /\ Len(tail) \in Nat
    BY <1>8, <1>9, <1>10
  <2>2. from <= Len(entries) /\ i - n \in 1 .. Len(entries) - from + 1
    BY <1>4, <1>7, <1>9, <1>12, <2>1, SMTT(30)
  <2>3. merged[i] = tail[i - n]
    BY <1>7, <1>8, <1>10, <1>12, <2>1
  <2>4. tail[i - n] = entries[from + (i - n) - 1]
    BY <1>9, <2>2
  <2>5. from + (i - n) - 1 = i - prev
    BY <1>1, <1>4, <2>1
  <2>6. QED
    BY <1>1, <1>4, <2>1, <2>2, <2>3, <2>4, <2>5, SMTT(30)
<1>13. ASSUME NEW i \in DOMAIN merged
       PROVE  LinkAt(merged, 0, 0, i) \in LinksOf(lg, 0, 0) \cup LinksOf(entries, prev, prevTerm)
  <2>0. i \in Nat /\ i >= 1 /\ n \in Nat
    BY <1>7, <1>10
  <2>1. CASE i <= n
    <3>1. i \in DOMAIN lg /\ merged[i] = lg[i] /\ (i # 1 => merged[i - 1] = lg[i - 1])
      BY <1>7, <1>11, <2>0, <2>1
    <3>2. LinkAt(merged, 0, 0, i) = LinkAt(lg, 0, 0, i)
      BY <3>1 DEF LinkAt
    <3>3. QED
      BY <3>1, <3>2 DEF LinksOf
  <2>2. CASE i > n
    <3>1. PICK k : k = i - prev
      OBVIOUS
    <3>2. /\ k \in from .. Len(entries) /\ merged[i] = entries[k] /\ k \in DOMAIN entries
          /\ prev + k = 0 + i
      BY <1>1, <1>4, <1>12, <2>0, <2>2, <3>1
    <3>3. (IF i = 1 THEN 0 ELSE merged[i - 1].term)
            = (IF k = 1 THEN prevTerm ELSE entries[k - 1].term)
      <4>1. CASE i = n + 1
        <5>1. k = from
          BY <1>1, <1>4, <3>1, <4>1
        <5>2. CASE from = 1
          <6>1. CASE prev = 0
            BY <3>1, <4>1, <5>1, <5>2, <6>1
          <6>2. CASE prev > 0
            <7>1. i - 1 = prev /\ i # 1 /\ merged[prev] = lg[prev] /\ prev \in 1 .. Len(lg)
              BY <1>1, <1>11, <4>1, <5>2, <6>2
            <7>2. QED
              BY <5>1, <5>2, <6>2, <7>1 DEF TermAt
          <6>3. QED
            BY <1>1, <6>1, <6>2
        <5>3. CASE from > 1
          <6>1. k - 1 \in 1 .. Len(entries) /\ k - 1 < from /\ prev + (k - 1) = i - 1
                /\ i - 1 \in 1 .. n
            BY <1>1, <1>4, <2>0, <3>2, <4>1, <5>1, <5>3, SMTT(30)
          <6>2. merged[i - 1] = lg[i - 1] /\ lg[i - 1].term = entries[k - 1].term
            BY <1>5, <1>11, <6>1
          <6>3. QED
            BY <2>0, <5>1, <5>3, <6>1, <6>2
        <5>4. QED
          BY <1>4, <5>2, <5>3
      <4>2. CASE i > n + 1
        <5>1. i - 1 \in DOMAIN merged /\ i - 1 > n
          BY <1>10, <2>0, <4>2
        <5>2. merged[i - 1] = entries[(i - 1) - prev]
          BY <1>12, <5>1
        <5>3. (i - 1) - prev = k - 1 /\ k # 1 /\ i # 1
          BY <1>1, <1>4, <2>0, <3>1, <4>2
        <5>4. QED
          BY <5>2, <5>3
      <4>3. QED
        BY <2>0, <2>2, <4>1, <4>2
    <3>4. LinkAt(merged, 0, 0, i) = LinkAt(entries, prev, prevTerm, k)
      BY <3>2, <3>3 DEF LinkAt
    <3>5. QED
      BY <3>2, <3>4 DEF LinksOf
  <2>3. QED
    BY <2>0, <2>1, <2>2
<1>14. LinksOf(merged, 0, 0) \subseteq LinksOf(lg, 0, 0) \cup LinksOf(entries, prev, prevTerm)
  BY <1>13 DEF LinksOf
<1>15. QED
  BY <1>14 DEF merged

LEMMA LinkCases ==
    ASSUME NEW logs, NEW ms, NEW x
    PROVE  x \in LinkSet(logs, ms) <=>
              \/ \E s \in Server : x \in LinksOf(logs[s], 0, 0)
              \/ \E m \in ms : m.type = "AppendEntries" /\ x \in MessageLinks(m)
<1> DEFINE A == UNION {LinksOf(logs[s], 0, 0) : s \in Server}
           ns == {n \in ms : n.type = "AppendEntries"}
           B == UNION {MessageLinks(m) : m \in ns}
<1>1. x \in A <=> \E s \in Server : x \in LinksOf(logs[s], 0, 0)
  BY Zenon
<1>2. x \in B <=> \E m \in ns : x \in MessageLinks(m)
  BY Zenon
<1>3. (\E m \in ns : x \in MessageLinks(m)) <=>
        \E m \in ms : m.type = "AppendEntries" /\ x \in MessageLinks(m)
  BY Zenon
<1>4. QED
  BY <1>1, <1>2, <1>3, Zenon DEF LinkSet

LEMMA AppendFields ==
    ASSUME TypeOK, NEW m \in msgs, m.type = "AppendEntries"
    PROVE  /\ m.entries \in Seq(Entry) /\ m.prev_log_index \in Nat
           /\ m.prev_log_term \in Nat /\ m.term \in Nat /\ m.src \in Server
BY DEF TypeOK, Message, VoteRequest, VoteResponse, AppendEntries, AppendEntriesResponse,
       TimeoutNow

LEMMA LinkType ==
    ASSUME TypeOK, NEW x \in Links
    PROVE  x.index \in Nat /\ x.entry \in Entry /\ x.entry.term \in Nat
<1>1. ASSUME NEW entries \in Seq(Entry), NEW prev \in Nat, NEW t,
             x \in LinksOf(entries, prev, t)
      PROVE  x.index \in Nat /\ x.entry \in Entry /\ x.entry.term \in Nat
  <2>1. PICK k \in DOMAIN entries : x = LinkAt(entries, prev, t, k)
    BY <1>1 DEF LinksOf
  <2>2. x.index = prev + k /\ x.entry = entries[k]
    BY <2>1 DEF LinkAt
  <2>3. entries[k] \in Entry /\ k \in Nat
    OBVIOUS
  <2>4. QED
    BY <2>2, <2>3 DEF Entry
<1>2. CASE \E s \in Server : x \in LinksOf(log[s], 0, 0)
  BY <1>1, <1>2 DEF TypeOK
<1>3. CASE \E m \in msgs : m.type = "AppendEntries" /\ x \in MessageLinks(m)
  BY <1>1, <1>3, AppendFields DEF MessageLinks
<1>4. QED
  BY <1>2, <1>3, LinkCases DEF Links

\* Log Matching follows: from an index at which two logs agree on the term, the
\* links lead back along equal entries; the last index below at which the logs
\* differ would be followed by equal links.
LEMMA LogInvMatches == TypeInv /\ LinksAgree => LogMatching
<1> SUFFICES ASSUME TypeOK, LinksAgree, NEW s \in Server, NEW t \in Server,
                    NEW i \in DOMAIN log[s] \cap DOMAIN log[t],
                    log[s][i].term = log[t][i].term
             PROVE  SubSeq(log[s], 1, i) = SubSeq(log[t], 1, i)
  BY DEF LogMatching, TypeInv
<1>1. log[s] \in Seq(Entry) /\ log[t] \in Seq(Entry)
  BY DEF TypeOK
<1>2. i \in Nat /\ i >= 1 /\ i <= Len(log[s]) /\ i <= Len(log[t])
  BY <1>1
<1>3. ASSUME NEW j \in 1 .. i, log[s][j].term = log[t][j].term
      PROVE  LinkAt(log[s], 0, 0, j) = LinkAt(log[t], 0, 0, j)
  <2>1. /\ LinkAt(log[s], 0, 0, j) \in LinksOf(log[s], 0, 0)
        /\ LinkAt(log[t], 0, 0, j) \in LinksOf(log[t], 0, 0)
    BY <1>1, <1>2 DEF LinksOf
  <2>2. LinkAt(log[s], 0, 0, j) \in Links /\ LinkAt(log[t], 0, 0, j) \in Links
    BY <2>1, LinkCases DEF Links
  <2>3. /\ LinkAt(log[s], 0, 0, j).index = LinkAt(log[t], 0, 0, j).index
        /\ LinkAt(log[s], 0, 0, j).entry.term = LinkAt(log[t], 0, 0, j).entry.term
    BY <1>3 DEF LinkAt
  <2>4. QED
    BY <2>2, <2>3 DEF LinksAgree
<1> DEFINE differ == {j \in 1 .. i : log[s][j] # log[t][j]}
<1>4. differ = {}
  <2> SUFFICES ASSUME differ # {} PROVE FALSE
    OBVIOUS
  <2>1. differ \in SUBSET Nat /\ \A x \in differ : x <= i
    BY <1>2
  <2> DEFINE j == Max(differ)
  <2>2. j \in differ /\ \A y \in differ : y <= j
    <3> HIDE DEF differ
    <3>1. QED
      BY <1>2, <2>1, MaxNat
  <2> HIDE DEF j
  <2>3. j \in 1 .. i /\ log[s][j] # log[t][j]
    BY <2>2
  <2>4. log[s][j].term # log[t][j].term
    BY <1>3, <2>3 DEF LinkAt
  <2>5. j < i
    BY <1>2, <2>3, <2>4
  <2>6. j + 1 \in 1 .. i /\ j + 1 \notin differ /\ j + 1 # 1 /\ (j + 1) - 1 = j
    <3>1. j + 1 \in 1 .. i /\ j \in Nat
      BY <1>2, <2>3, <2>5
    <3> HIDE DEF differ
    <3>2. QED
      BY <2>2, <2>3, <3>1
  <2>7. log[s][j + 1] = log[t][j + 1]
    BY <2>6
  <2>8. LinkAt(log[s], 0, 0, j + 1) = LinkAt(log[t], 0, 0, j + 1)
    BY <1>3, <2>6, <2>7
  <2>9. /\ LinkAt(log[s], 0, 0, j + 1).before = log[s][j].term
        /\ LinkAt(log[t], 0, 0, j + 1).before = log[t][j].term
    BY <2>6 DEF LinkAt
  <2>10. QED
    BY <2>4, <2>8, <2>9
<1>5. \A j \in 1 .. i : log[s][j] = log[t][j]
  BY <1>4
<1>6. QED
  BY <1>1, <1>2, <1>5

\* What every step but a proposal does to the logs: no entry comes into being, and
\* a leader's log only grows.
AppendOnly ==
    \A s \in Server :
        /\ el[s].role = "LEADER"
        /\ el'[s].role = "LEADER"
        /\ el'[s].current_term = el[s].current_term
        => /\ Len(log'[s]) >= Len(log[s])
           /\ SubSeq(log'[s], 1, Len(log[s])) = log[s]

LogsKept == LinkSet(log', msgs') \subseteq Links /\ AppendOnly /\ FromStart'

\* The cluster's logs through a step that makes no entry.
LEMMA LogFrame ==
    ASSUME TypeInv, TypeInv', KnownInv', VoteInv', LogInv, RoleStep, Stable, LogsKept
    PROVE  LogInv'
<1>1. TypeOK /\ TypeOK' /\ ElectionSafety'
  BY VoteInvSafe, PTL DEF TypeInv
<1>2. \A r \in Server : /\ el[r].current_term \in Nat /\ el'[r].current_term \in Nat
                        /\ el'[r].current_term >= el[r].current_term
                        /\ Len(log[r]) \in Nat /\ Len(log'[r]) \in Nat
  BY <1>1 DEF TypeOK, Election, Stable
<1>3. \A x \in elected' : x.term \in Nat /\ x.server \in Server
  BY <1>1 DEF TypeOK
<1>4. Links' \subseteq Links /\ \A x \in Links : x.index \in Nat
  BY <1>1, LinkType DEF LogsKept, Links
<1>5. FreshCandidate'
  <2>1. ASSUME NEW s \in Server, el'[s].role = "CANDIDATE"
        PROVE  [term |-> el'[s].current_term, server |-> s] \notin elected'
    <3> SUFFICES ASSUME [term |-> el'[s].current_term, server |-> s] \in elected'
                 PROVE  FALSE
      OBVIOUS
    <3>1. [term |-> el'[s].current_term, server |-> s] \in elected
      BY <2>1 DEF RoleStep
    <3>2. el'[s].current_term <= el[s].current_term
      BY <3>1 DEF LogInv, FreshCandidate
    <3>3. el'[s].current_term = el[s].current_term /\ el[s].role = "CANDIDATE"
      BY <1>2, <2>1, <3>2 DEF RoleStep
    <3>4. QED
      BY <3>1, <3>3 DEF LogInv, FreshCandidate
  <2>2. ASSUME NEW x \in elected' PROVE x.term <= el'[x.server].current_term
    <3>1. CASE x \in elected
      <4>1. x.term <= el[x.server].current_term
        BY <3>1 DEF LogInv, FreshCandidate
      <4>2. QED
        BY <1>2, <1>3, <4>1
    <3>2. CASE x \notin elected
      BY <1>2, <1>3, <3>2 DEF RoleStep
    <3>3. QED
      BY <3>1, <3>2
  <2>3. QED
    BY <2>1, <2>2 DEF FreshCandidate
<1>6. LinksAgree'
  BY <1>4 DEF LogInv, LinksAgree
<1>7. LinksElected'
  BY <1>4 DEF LogInv, LinksElected, RoleStep
<1>8. LeaderHolds'
  <2> SUFFICES ASSUME NEW s \in Server, el'[s].role = "LEADER", NEW x \in Links',
                      x.entry.term = el'[s].current_term
               PROVE  x.index <= Len(log'[s])
    BY DEF LeaderHolds
  <2>1. x \in Links /\ x.index \in Nat /\ el'[s].current_term = el[s].current_term
    BY <1>4 DEF RoleStep
  <2>2. CASE el[s].role = "LEADER"
    <3>1. x.index <= Len(log[s])
      BY <2>1, <2>2 DEF LogInv, LeaderHolds
    <3>2. Len(log'[s]) >= Len(log[s])
      BY <2>1, <2>2 DEF LogsKept, AppendOnly
    <3>3. QED
      BY <1>2, <2>1, <3>1, <3>2
  <2>3. CASE el[s].role = "CANDIDATE"
    <3>1. PICK w \in elected : w.term = x.entry.term
      BY <2>1 DEF LogInv, LinksElected
    <3>2. [term |-> el'[s].current_term, server |-> s] \in elected'
      BY DEF KnownInv
    <3>3. w.server = s
      BY <1>1, <3>1, <3>2 DEF ElectionSafety, RoleStep
    <3>4. w = [term |-> el[s].current_term, server |-> s]
      BY <1>1, <2>1, <3>1, <3>3 DEF TypeOK
    <3>5. QED
      BY <2>3, <3>1, <3>4 DEF LogInv, FreshCandidate
  <2>4. QED
    BY <2>2, <2>3 DEF RoleStep
<1>9. QED
  BY <1>5, <1>6, <1>7, <1>8 DEF LogInv

\* A step that leaves the logs alone and sends no AppendEntries.
LEMMA StillLogs ==
    ASSUME TypeOK, FromStart, log' = log, NoNewAppend
    PROVE  LogsKept
<1>1. LinkSet(log', msgs') \subseteq Links
  BY LinkCases DEF Links, NoNewAppend
<1>2. AppendOnly
  <2>1. \A r \in Server : log[r] \in Seq(Entry)
    BY DEF TypeOK
  <2>2. QED
    BY <2>1 DEF AppendOnly
<1>3. QED
  BY <1>1, <1>2 DEF LogsKept, FromStart, NoNewAppend

\* A leader that sends stretches of its log, or nothing of it.
LEMMA SendLogs ==
    ASSUME TypeOK, FromStart, log' = log, NEW s \in Server,
           \A m \in msgs' :
              \/ m \in msgs
              \/ /\ MessageLinks(m) \subseteq LinksOf(log[s], 0, 0)
                 /\ m.prev_log_index = 0 => m.prev_log_term = 0
    PROVE  LogsKept
<1>1. ASSUME NEW x \in LinkSet(log', msgs') PROVE x \in Links
  <2>1. CASE \E r \in Server : x \in LinksOf(log[r], 0, 0)
    BY <2>1, LinkCases DEF Links
  <2>2. CASE \E m \in msgs' : m.type = "AppendEntries" /\ x \in MessageLinks(m)
    BY <2>2, LinkCases DEF Links
  <2>3. QED
    BY <2>1, <2>2, LinkCases
<1>2. AppendOnly
  <2>1. \A r \in Server : log[r] \in Seq(Entry)
    BY DEF TypeOK
  <2>2. QED
    BY <2>1 DEF AppendOnly
<1>3. QED
  BY <1>1, <1>2 DEF LogsKept, FromStart

LEMMA ReplicateLinks ==
    ASSUME TypeInv, NEW s \in Server, NEW lg \in Seq(Entry), el[s].role = "LEADER",
           ReplicateLog(s, lg), NEW m \in msgs'
    PROVE  \/ m \in msgs
           \/ /\ MessageLinks(m) \subseteq LinksOf(lg, 0, 0)
              /\ m.prev_log_index = 0 => m.prev_log_term = 0
BY AppendToLinks DEF ReplicateLog, Send

\* A node that comes back with an empty log.
LEMMA RebornLogs ==
    ASSUME TypeOK, FromStart, NEW s \in Server, NEW d, Reborn(s, d)
    PROVE  LogsKept
<1>1. /\ log' = [log EXCEPT ![s] = << >>] /\ msgs' = msgs
      /\ el'[s].role = "FOLLOWER" /\ log'[s] = << >>
      /\ \A r \in Server : r # s => log'[r] = log[r]
  BY DEF Reborn, TypeOK
<1>2. LinksOf(log'[s], 0, 0) = {}
  BY <1>1 DEF LinksOf
<1>3. LinkSet(log', msgs') \subseteq Links
  <2> SUFFICES ASSUME NEW x \in LinkSet(log', msgs') PROVE x \in Links
    OBVIOUS
  <2>1. CASE \E r \in Server : x \in LinksOf(log'[r], 0, 0)
    BY <1>1, <1>2, <2>1, LinkCases DEF Links
  <2>2. CASE \E m \in msgs : m.type = "AppendEntries" /\ x \in MessageLinks(m)
    BY <2>2, LinkCases DEF Links
  <2>3. QED
    BY <1>1, <2>1, <2>2, LinkCases
<1>4. AppendOnly
  <2>1. \A r \in Server : log[r] \in Seq(Entry)
    BY DEF TypeOK
  <2>2. QED
    BY <1>1, <2>1 DEF AppendOnly
<1>5. QED
  BY <1>1, <1>3, <1>4 DEF LogsKept, FromStart

\* raft_handle_append_entries_with_log never truncates the log of the leader of the
\* term, and leaves no entry that was not in the log or in the message.
LEMMA AppendEntriesLogs ==
    ASSUME TypeInv, KnownInv, VoteInv, FromStart, NEW m \in msgs, NEW s \in Server,
           HandleAppendEntries(s, m)
    PROVE  LogsKept
<1>0. TypeOK /\ ElectionSafety
  BY VoteInvSafe DEF TypeInv
<1>1. NoNewAppend /\ m.type = "AppendEntries" /\ m.dst = s
  BY DEF HandleAppendEntries, Reply, Send, NoNewAppend
<1>2. FromStart'
  BY <1>1 DEF FromStart, NoNewAppend
<1>3. CASE log' = log
  BY <1>0, <1>1, <1>3, StillLogs
<1>4. CASE log' # log
  <2>1. /\ log' = [log EXCEPT ![s] = MergeEntries(log[s], m.prev_log_index, m.entries)]
        /\ Accepts(CatchUp(el[s], m.term), m)
        /\ m.prev_log_index > 0 => /\ TermAt(log[s], m.prev_log_index) # 0
                                   /\ TermAt(log[s], m.prev_log_index) = m.prev_log_term
    BY <1>4 DEF HandleAppendEntries, logVars
  <2>2. /\ log'[s] = MergeEntries(log[s], m.prev_log_index, m.entries)
        /\ \A r \in Server : r # s => log'[r] = log[r]
        /\ log[s] \in Seq(Entry)
    BY <1>0, <2>1 DEF TypeOK
  <2>3. LinksOf(log'[s], 0, 0) \subseteq LinksOf(log[s], 0, 0) \cup MessageLinks(m)
    <3>1. m.entries \in Seq(Entry) /\ m.prev_log_index \in Nat
      BY <1>0, <1>1, AppendFields
    <3>2. m.prev_log_index = 0 => m.prev_log_term = 0
      BY <1>1 DEF FromStart
    <3>3. QED
      BY <2>1, <2>2, <3>1, <3>2, MergeLinks DEF MessageLinks
  <2>4. ASSUME NEW x \in LinkSet(log', msgs') PROVE x \in Links
    <3>1. CASE \E r \in Server : x \in LinksOf(log'[r], 0, 0)
      BY <1>1, <2>2, <2>3, <3>1, LinkCases DEF Links
    <3>2. CASE \E n \in msgs' : n.type = "AppendEntries" /\ x \in MessageLinks(n)
      BY <1>1, <3>2, LinkCases DEF Links, NoNewAppend
    <3>3. QED
      BY <3>1, <3>2, LinkCases
  <2>5. ASSUME el[s].role = "LEADER", el'[s].current_term = el[s].current_term
        PROVE  FALSE
    <3>1. [term |-> m.term, server |-> m.src] \in elected /\ m.src # s
      BY <1>1 DEF KnownInv
    <3>2. [term |-> el[s].current_term, server |-> s] \in elected
      BY <2>5 DEF KnownInv
    <3>3. CatchUp(el[s], m.term).current_term = el[s].current_term
      <4>1. el[s] \in Election /\ m.term \in Nat
        BY <1>0, MessageFields DEF TypeOK
      <4>2. PICK e : e = CatchUp(el[s], m.term)
        OBVIOUS
      <4>3. e \in Election
        BY <4>1, <4>2, CatchUpType
      <4>4. PICK led :
              led = [e EXCEPT !.current_leader = m.src,
                              !.role = IF @ = "CANDIDATE" THEN "FOLLOWER" ELSE @,
                              !.votes = IF e.role = "CANDIDATE" THEN {} ELSE @]
        OBVIOUS
      <4>5. led.current_term = e.current_term
        BY <4>3, <4>4 DEF Election
      <4>6. el' = [el EXCEPT ![s] = led] \/ el' = [el EXCEPT ![s] = e]
        BY <4>2, <4>4, Zenon DEF HandleAppendEntries
      <4>7. QED
        BY <1>0, <2>5, <4>2, <4>5, <4>6 DEF TypeOK
    <3>4. m.term = el[s].current_term
      BY <2>1, <3>3 DEF Accepts
    <3>5. QED
      BY <1>0, <3>1, <3>2, <3>4 DEF ElectionSafety
  <2>6. AppendOnly
    <3>1. \A r \in Server : log[r] \in Seq(Entry)
      BY <1>0 DEF TypeOK
    <3>2. QED
      BY <2>2, <2>5, <3>1 DEF AppendOnly
  <2>7. QED
    BY <1>2, <2>4, <2>6 DEF LogsKept
<1>5. QED
  BY <1>3, <1>4

LEMMA LogsCall ==
    ASSUME TypeInv, FromStart, NEW s \in Server, Call(s)
    PROVE  LogsKept \/ \E v \in Value : Propose(s, v)
<1>0. TypeOK /\ log[s] \in Seq(Entry)
  BY DEF TypeInv, TypeOK
<1>1. CASE Start(s)
  BY <1>0, <1>1, StillLogs DEF Start, NoNewAppend
<1>2. CASE Stop(s)
  BY <1>0, <1>2, StillLogs DEF Stop, NoNewAppend
<1>3. CASE Restart(s)
  BY <1>0, <1>3, RebornLogs DEF Restart
<1>4. CASE StartElection(s)
  BY <1>0, <1>4, CampaignLeads, StillLogs DEF StartElection
<1>5. CASE StartPreVote(s)
  <2>1. NoNewAppend /\ log' = log
    BY <1>0, <1>5, CampaignLeads DEF StartPreVote, AskPreVotes, Send, NoNewAppend
  <2>2. QED
    BY <1>0, <1>5, <2>1, StillLogs DEF StartPreVote, AskPreVotes, Campaign
<1>6. ASSUME NEW target \in Server, TransferLeadership(s, target) PROVE LogsKept
  BY <1>0, <1>6, StillLogs DEF TransferLeadership, TransferProgress, Send, NoNewAppend
<1>7. CASE TransferCheckProgress(s)
  BY <1>0, <1>7, StillLogs DEF TransferCheckProgress, TransferProgress, Send, NoNewAppend
<1>8. CASE TransferAbort(s)
  BY <1>0, <1>8, StillLogs DEF TransferAbort, NoNewAppend
<1>9. CASE TickHeartbeat(s)
  BY <1>0, <1>9, ReplicateLinks, SendLogs DEF TickHeartbeat
<1>10. CASE SendHeartbeats(s)
  <2>1. log' = log
    BY <1>10 DEF SendHeartbeats
  <2>2. ASSUME NEW m \in msgs', m \notin msgs
        PROVE  m.entries = << >> /\ m.prev_log_index = Len(log[s])
               /\ m.prev_log_term = TermAt(log[s], Len(log[s]))
    BY <1>10, <2>2 DEF SendHeartbeats, Send, LastIndex, LastTerm
  <2>3. ASSUME NEW m \in msgs', m \notin msgs
        PROVE  /\ MessageLinks(m) \subseteq LinksOf(log[s], 0, 0)
               /\ m.prev_log_index = 0 => m.prev_log_term = 0
    BY <2>2, <2>3 DEF MessageLinks, LinksOf, TermAt
  <2>4. QED
    BY <1>0, <2>1, <2>3, SendLogs
<1>11. QED
  BY <1>1, <1>2, <1>3, <1>4, <1>5, <1>6, <1>7, <1>8, <1>9, <1>10 DEF Call

LEMMA LogsReceive ==
    ASSUME TypeInv, KnownInv, VoteInv, FromStart, NEW m \in msgs, NEW s \in Server,
           Receive(s, m)
    PROVE  LogsKept
<1>0. TypeOK
  BY DEF TypeInv
<1>1. CASE CrashAfterStepDown(s, m)
  BY <1>0, <1>1, RebornLogs DEF CrashAfterStepDown
<1>2. CASE HandleRequestVote(s, m)
  BY <1>0, <1>2, StillLogs DEF HandleRequestVote, Send, NoNewAppend
<1>3. CASE HandleRequestVoteResponse(s, m)
  BY <1>0, <1>3, StillLogs DEF HandleRequestVoteResponse, NoNewAppend
<1>4. CASE HandlePreVote(s, m)
  BY <1>0, <1>4, StillLogs DEF HandlePreVote, Send, NoNewAppend
<1>5. CASE HandlePreVoteResponse(s, m)
  <2>1. log' = log /\ (msgs' = msgs \/ Campaign(s))
    BY <1>5 DEF HandlePreVoteResponse
  <2>2. QED
    BY <1>0, <2>1, CampaignLeads, StillLogs DEF NoNewAppend
<1>6. CASE HandleTimeoutNow(s, m)
  BY <1>0, <1>6, CampaignLeads, StillLogs DEF HandleTimeoutNow
<1>7. CASE HandleHeartbeat(s, m)
  BY <1>0, <1>7, StillLogs DEF HandleHeartbeat, Reply, Send, NoNewAppend
<1>8. CASE HandleAppendEntries(s, m)
  BY <1>8, AppendEntriesLogs
<1>9. CASE HandleAppendEntriesResponse(s, m)
  BY <1>0, <1>9, StillLogs DEF HandleAppendEntriesResponse, NoNewAppend
<1>10. QED
  BY <1>1, <1>2, <1>3, <1>4, <1>5, <1>6, <1>7, <1>8, <1>9 DEF Receive

\* raft_propose makes one entry, at the end of the leader's log.
LEMMA ProposeLogs ==
    ASSUME TypeInv, FromStart, NEW s \in Server, NEW v \in Value, Propose(s, v)
    PROVE  /\ AppendOnly /\ FromStart'
           /\ Len(log'[s]) = Len(log[s]) + 1
           /\ \A r \in Server : r # s => log'[r] = log[r]
           /\ \A x \in LinkSet(log', msgs') :
                 \/ x \in Links
                 \/ x = LinkAt(log'[s], 0, 0, Len(log[s]) + 1)
           /\ log'[s][Len(log[s]) + 1].term = el[s].current_term
<1> DEFINE entry == [term |-> el[s].current_term, value |-> v]
           lg == Append(log[s], entry)
           n == Len(log[s])
           new == LinkAt(lg, 0, 0, n + 1)
<1>0. TypeOK /\ \A r \in Server : log[r] \in Seq(Entry)
  BY DEF TypeInv, TypeOK
<1>1. el[s].role = "LEADER" /\ el' = el /\ (msgs' = msgs \/ ReplicateLog(s, lg))
      /\ log' = [log EXCEPT ![s] = lg]
  BY DEF Propose
<1>2. log'[s] = lg /\ \A r \in Server : r # s => log'[r] = log[r]
  BY <1>0, <1>1 DEF TypeOK
<1>3. entry \in Entry /\ entry.term = el[s].current_term
  BY <1>0 DEF TypeOK, Election, Entry
<1> HIDE DEF entry
<1>4. /\ lg \in Seq(Entry) /\ Len(lg) = n + 1 /\ n \in Nat
      /\ \A i \in 1 .. n : lg[i] = log[s][i]
      /\ lg[n + 1] = entry
  BY <1>0, <1>3, AppendProperties
<1>5. SubSeq(lg, 1, n) = log[s]
  BY <1>0, <1>4
<1> HIDE DEF lg, n
<1>6. AppendOnly
  BY <1>0, <1>2, <1>4, <1>5 DEF AppendOnly, n
<1>7. ASSUME NEW x \in LinksOf(lg, 0, 0) PROVE x \in LinksOf(log[s], 0, 0) \/ x = new
  <2>1. PICK k \in DOMAIN lg : x = LinkAt(lg, 0, 0, k)
    BY DEF LinksOf
  <2>2. CASE k = n + 1
    BY <2>1, <2>2
  <2>3. CASE k # n + 1
    <3>1. /\ k \in 1 .. n /\ k \in DOMAIN log[s] /\ lg[k] = log[s][k]
          /\ k # 1 => lg[k - 1] = log[s][k - 1]
      BY <1>0, <1>4, <2>3, SMTT(30) DEF n
    <3>2. x = LinkAt(log[s], 0, 0, k)
      BY <2>1, <3>1 DEF LinkAt
    <3>3. QED
      BY <3>1, <3>2 DEF LinksOf
  <2>4. QED
    BY <2>2, <2>3
<1>8. \A m \in msgs' : \/ m \in msgs
                      \/ /\ MessageLinks(m) \subseteq LinksOf(lg, 0, 0)
                         /\ m.prev_log_index = 0 => m.prev_log_term = 0
  BY <1>1, <1>4, ReplicateLinks
<1>9. FromStart'
  BY <1>8 DEF FromStart
<1> HIDE DEF new
<1>10. ASSUME NEW x \in LinkSet(log', msgs') PROVE x \in Links \/ x = new
  <2>1. CASE \E r \in Server : x \in LinksOf(log'[r], 0, 0)
    BY <1>2, <1>7, <2>1, LinkCases DEF Links
  <2>2. CASE \E m \in msgs' : m.type = "AppendEntries" /\ x \in MessageLinks(m)
    BY <1>7, <1>8, <2>2, LinkCases DEF Links
  <2>3. QED
    BY <2>1, <2>2, LinkCases
<1>11. QED
  BY <1>2, <1>3, <1>4, <1>6, <1>9, <1>10 DEF n, new

LEMMA ProposeInv ==
    ASSUME TypeInv, KnownInv, VoteInv, FromStart, LogInv,
           NEW s \in Server, NEW v \in Value, Propose(s, v)
    PROVE  LogInv'
<1>0. TypeOK /\ ElectionSafety
  BY VoteInvSafe DEF TypeInv
<1> DEFINE n == Len(log[s])
           new == LinkAt(log'[s], 0, 0, n + 1)
<1>1. UNCHANGED <<el, elected>> /\ el[s].role = "LEADER"
  BY DEF Propose
<1>2. n \in Nat /\ Len(log'[s]) = n + 1 /\ \A r \in Server : r # s => log'[r] = log[r]
  BY <1>0, ProposeLogs DEF TypeOK
<1>3. \A x \in Links' : x \in Links \/ x = new
  BY ProposeLogs DEF Links
<1>4. new.index = n + 1 /\ new.entry.term = el[s].current_term
  <2>1. 0 + (n + 1) = n + 1
    BY <1>2
  <2>2. QED
    BY <2>1, ProposeLogs DEF LinkAt
<1> HIDE DEF n, new
<1>5. \A x \in Links : /\ x.index \in Nat
                       /\ x.entry.term = el[s].current_term => x.index <= n
  BY <1>0, <1>1, LinkType DEF LogInv, LeaderHolds, n
<1>6. FreshCandidate'
  BY <1>1 DEF LogInv, FreshCandidate
<1>7. LinksAgree'
  <2> SUFFICES ASSUME NEW x \in Links', NEW y \in Links', x.index = y.index,
                      x.entry.term = y.entry.term
               PROVE  x = y
    BY DEF LinksAgree
  <2>1. CASE x \in Links /\ y \in Links
    BY <2>1 DEF LogInv, LinksAgree
  <2>2. CASE x = new /\ y \in Links
    BY <1>2, <1>4, <1>5, <2>2
  <2>3. CASE x \in Links /\ y = new
    BY <1>2, <1>4, <1>5, <2>3
  <2>4. QED
    BY <1>3, <2>1, <2>2, <2>3
<1>8. [term |-> el[s].current_term, server |-> s] \in elected
  BY <1>1 DEF KnownInv
<1>9. LinksElected'
  BY <1>1, <1>3, <1>4, <1>8 DEF LogInv, LinksElected
<1>10. LeaderHolds'
  <2> SUFFICES ASSUME NEW r \in Server, el[r].role = "LEADER", NEW x \in Links',
                      x.entry.term = el[r].current_term
               PROVE  x.index <= Len(log'[r])
    BY <1>1 DEF LeaderHolds
  <2>1. CASE x \in Links
    <3>1. x.index <= Len(log[r]) /\ x.index \in Nat
      BY <1>5, <2>1 DEF LogInv, LeaderHolds
    <3>2. CASE r = s
      BY <1>2, <3>1, <3>2 DEF n
    <3>3. CASE r # s
      BY <1>2, <3>1, <3>3
    <3>4. QED
      BY <3>2, <3>3
  <2>2. CASE x = new
    <3>1. [term |-> el[r].current_term, server |-> r] \in elected
      BY DEF KnownInv
    <3>2. r = s
      BY <1>0, <1>4, <1>8, <2>2, <3>1 DEF ElectionSafety
    <3>3. QED
      BY <1>2, <1>4, <2>2, <3>2
  <2>3. QED
    BY <1>3, <2>1, <2>2
<1>11. QED
  BY <1>6, <1>7, <1>9, <1>10 DEF LogInv

\* The whole invariant; the links are those of a cluster, since a node that is alone
\* leads again in the term of its last start, with an empty log.
RaftInv ==
    /\ TypeInv /\ VoteInv /\ KnownInv /\ FromStart
    /\ ~SingleNode => LogInv

LEMMA RaftInit == Init => RaftInv
<1> SUFFICES ASSUME Init PROVE RaftInv
  OBVIOUS
<1>1. TypeInv /\ VoteInv /\ KnownInv
  BY TypeInit, VoteInit, KnownInit
<1>2. FromStart
  BY DEF Init, FromStart
<1>3. LogInv
  <2>1. \A s \in Server : LinksOf(log[s], 0, 0) = {}
    BY DEF Init, LinksOf
  <2>2. \A x : x \notin Links
    BY <2>1, LinkCases DEF Init, Links
  <2>3. FreshCandidate
    BY DEF Init, FreshCandidate
  <2>4. QED
    BY <2>2, <2>3 DEF LogInv, LinksAgree, LinksElected, LeaderHolds
<1>4. QED
  BY <1>1, <1>2, <1>3 DEF RaftInv

LEMMA RaftStep ==
    ASSUME SavesSucceed
    PROVE  RaftInv /\ [Next]_vars => RaftInv' /\ AppendOnly
<1> SUFFICES ASSUME RaftInv, [Next]_vars PROVE RaftInv' /\ AppendOnly
  OBVIOUS
<1>1. TypeInv /\ VoteInv /\ KnownInv /\ FromStart /\ (~SingleNode => LogInv)
  BY DEF RaftInv
<1>2. TypeInv' /\ VoteInv' /\ Stable /\ LeadsKept
  BY <1>1, TypeStep, VoteStep, LeadsStep
<1>3. KnownInv' /\ (~SingleNode => RoleStep)
  BY <1>2 DEF LeadsKept
<1>4. CASE LogsKept
  <2>1. FromStart' /\ AppendOnly
    BY <1>4 DEF LogsKept
  <2>2. ASSUME ~SingleNode PROVE LogInv'
    BY <1>1, <1>2, <1>3, <1>4, <2>2, LogFrame
  <2>3. QED
    BY <1>2, <1>3, <2>1, <2>2 DEF RaftInv, SingleNode
<1>5. ASSUME NEW s \in Server, NEW v \in Value, Propose(s, v)
      PROVE  RaftInv' /\ AppendOnly
  <2>1. FromStart' /\ AppendOnly
    BY <1>1, <1>5, ProposeLogs
  <2>2. ASSUME ~SingleNode PROVE LogInv'
    BY <1>1, <1>5, <2>2, ProposeInv
  <2>3. QED
    BY <1>2, <1>3, <2>1, <2>2 DEF RaftInv, SingleNode
<1>6. ASSUME NEW s \in Server, Call(s)
      PROVE  LogsKept \/ \E v \in Value : Propose(s, v)
  BY <1>1, <1>6, LogsCall
<1>7. ASSUME NEW m \in msgs, Receive(m.dst, m) PROVE LogsKept
  BY <1>1, <1>7, MessageFields, LogsReceive
<1>8. CASE UNCHANGED vars
  <2>1. LogsKept
    BY <1>1, <1>8, StillLogs DEF vars, NoNewAppend, TypeInv
  <2>2. QED
    BY <1>4, <2>1
<1>9. QED
  BY <1>4, <1>5, <1>6, <1>7, <1>8 DEF Next

\* Log Matching for every cluster size, every length of the logs and every order of
\* delivery, while the saves of state.dat succeed: two logs that hold an entry of
\* one term at one index are the same up to it, whatever was truncated, merged or
\* lost in a crash.
THEOREM LogsMatch == SavesSucceed => (Spec => []LogMatching)
<1> SUFFICES ASSUME SavesSucceed PROVE Spec => []LogMatching
  OBVIOUS
<1>1. RaftInv /\ [Next]_vars => RaftInv'
  BY RaftStep
<1>2. RaftInv => LogMatching
  <2> SUFFICES ASSUME RaftInv PROVE LogMatching
    OBVIOUS
  <2>1. CASE SingleNode
    <3>1. PICK x : Server = {x}
      BY <2>1, RaftAssumption, FS_Singleton DEF SingleNode
    <3>2. QED
      BY <3>1 DEF LogMatching
  <2>2. CASE ~SingleNode
    BY <2>2, LogInvMatches DEF RaftInv, LogInv
  <2>3. QED
    BY <2>1, <2>2
<1>3. QED
  BY <1>1, <1>2, RaftInit, PTL DEF Spec

\* Leader Append-Only, under the same assumption: no delayed or duplicated
\* AppendEntries shortens or rewrites the log of a node while it leads a term.
THEOREM LeadersAppend == SavesSucceed => (Spec => LeaderAppendOnly)
<1> SUFFICES ASSUME SavesSucceed PROVE Spec => LeaderAppendOnly
  OBVIOUS
<1>1. RaftInv /\ [Next]_vars => RaftInv'
  BY RaftStep
<1>2. RaftInv /\ [Next]_vars => [AppendOnly]_vars
  BY RaftStep
<1>3. (Spec => [][AppendOnly]_vars) <=> (Spec => LeaderAppendOnly)
  BY PTL DEF AppendOnly, LeaderAppendOnly
<1>4. QED
  BY <1>1, <1>2, <1>3, RaftInit, PTL DEF Spec
=============================================================================
