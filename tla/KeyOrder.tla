------------------------------ MODULE KeyOrder ------------------------------
(***************************************************************************)
(* Keys of the storage engine: nonempty sequences of bytes.                *)
(***************************************************************************)
LOCAL INSTANCE Naturals
LOCAL INSTANCE Sequences

\* shared_prefix_len: how many leading bytes two keys have in common.
SharedPrefix(a, b) ==
    LET short == IF Len(a) < Len(b) THEN Len(a) ELSE Len(b)
    IN  CHOOSE n \in 0 .. short :
          /\ \A i \in 1 .. n : a[i] = b[i]
          /\ n < short => a[n + 1] # b[n + 1]

\* default_compare(a, b) < 0: the first byte in which they differ decides, and a
\* prefix comes before what it is a prefix of.
Less(a, b) ==
    LET n == SharedPrefix(a, b)
    IN  \/ n = Len(a) /\ n < Len(b)
        \/ n < Len(a) /\ n < Len(b) /\ a[n + 1] < b[n + 1]
=============================================================================
