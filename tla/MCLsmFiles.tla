----------------------------- MODULE MCLsmFiles -----------------------------
(***************************************************************************)
(* Instances of LsmFiles for TLC.                                          *)
(***************************************************************************)
EXTENDS LsmFiles

\* Keys that are prefixes of others, and share prefixes.
MCKey == {<<1>>, <<1, 1>>, <<1, 1, 2>>, <<2>>}

\* One value; a tombstone may have none.
MCValue == {<<1, 1>>}

\* A hash with collisions in a small word.
MCMurmur(k, seed) == (Len(k) * 7 + k[Len(k)] * 5 + seed * 3 + 1) % Word
=============================================================================
