----------------------------- MODULE LowerBound -----------------------------
(***************************************************************************)
(* The binary search that the storage engine's index, restart points and   *)
(* levels, and the hash ring of dist-kv, all write out by hand:            *)
(*                                                                         *)
(*     left = 0; right = n;                                                *)
(*     while (left < right) {                                              *)
(*         mid = left + (right - left) / 2;                                *)
(*         if (Below(mid)) left = mid + 1; else right = mid;               *)
(*     }                                                                   *)
(*                                                                         *)
(* The positions are those of the code, from 0.                            *)
(***************************************************************************)
LOCAL INSTANCE Naturals

\* Where the loop leaves left, given the positions that are below what is searched
\* for: the first position that is not, when those below come first.
FirstNotBelow(n, below) ==
    LET search[w \in (0 .. n) \X (0 .. n)] ==
            LET left  == w[1]
                right == w[2]
                mid   == left + (right - left) \div 2
            IN  IF left >= right THEN left
                ELSE IF mid \in below THEN search[<<mid + 1, right>>]
                                      ELSE search[<<left, mid>>]
    IN  search[<<0, n>>]
=============================================================================
