----------------------------- MODULE SnapshotDB -----------------------------
(***************************************************************************)
(* Snapshot isolation, what tx-manager promises: a transaction reads its   *)
(* own writes over the database as it was when it began, its writes appear *)
(* all at once, and of two overlapping transactions that write one key the *)
(* first to commit wins.  A restart aborts what is active, loses nothing.  *)
(***************************************************************************)
CONSTANTS Client, Key, Value, Empty

VARIABLES
    db,       \* the committed value of every key, Empty when it has none
    active,   \* clients inside a transaction
    snap,     \* the database each of them reads
    writes,   \* what each of them has written: a function on some keys
    changed   \* keys committed by others since it began

vars == <<db, active, snap, writes, changed>>

Nothing == [k \in Key |-> Empty]
NoWrites == [k \in {} |-> Empty]

Init ==
    /\ db = Nothing
    /\ active = {}
    /\ snap = [c \in Client |-> Nothing]
    /\ writes = [c \in Client |-> NoWrites]
    /\ changed = [c \in Client |-> {}]

Begin(c) ==
    /\ c \notin active
    /\ active' = active \cup {c}
    /\ snap' = [snap EXCEPT ![c] = db]
    /\ UNCHANGED <<db, writes, changed>>

Write(c, k, v) ==
    /\ c \in active
    /\ writes' = [writes EXCEPT ![c] = [x \in DOMAIN @ \cup {k} |->
                                          IF x = k THEN v ELSE @[x]]]
    /\ UNCHANGED <<db, active, snap, changed>>

Leave(c) ==
    /\ c \in active
    /\ active' = active \ {c}
    /\ snap' = [snap EXCEPT ![c] = Nothing]
    /\ writes' = [writes EXCEPT ![c] = NoWrites]

Commit(c) ==
    LET keys == DOMAIN writes[c]
    IN  /\ keys \cap changed[c] = {}
        /\ db' = [k \in Key |-> IF k \in keys THEN writes[c][k] ELSE db[k]]
        /\ Leave(c)
        /\ changed' = [a \in Client |->
                         IF a \in active' THEN changed[a] \cup keys ELSE {}]

Abort(c) ==
    /\ Leave(c)
    /\ changed' = [changed EXCEPT ![c] = {}]
    /\ UNCHANGED db

Restart ==
    /\ active' = {}
    /\ snap' = [c \in Client |-> Nothing]
    /\ writes' = [c \in Client |-> NoWrites]
    /\ changed' = [c \in Client |-> {}]
    /\ UNCHANGED db

Next ==
    \/ \E c \in Client : Begin(c) \/ Commit(c) \/ Abort(c)
    \/ \E c \in Client, k \in Key, v \in Value \cup {Empty} : Write(c, k, v)
    \/ Restart

Spec == Init /\ [][Next]_vars
=============================================================================
