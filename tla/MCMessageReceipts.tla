-------------------------- MODULE MCMessageReceipts --------------------------
(* Small instances of MessageReceipts: two messages; or four users, a sender *)
(* and three recipients, who are two batches, and a request of any of them.  *)
EXTENDS MessageReceipts, TLC

Symmetry == Permutations(Users) \cup Permutations(Messages)
            \cup Permutations(Callers)
==============================================================================
