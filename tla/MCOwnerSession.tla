----------------------------- MODULE MCOwnerSession -----------------------------
(* Small instances of OwnerSession: two threads, two owners, two lanes, with   *)
(* the watermark out of reach or at the first values.                          *)
EXTENDS OwnerSession, TLC

Symm == Permutations(Thread) \cup Permutations(Client) \cup Permutations(Lane)

=================================================================================
