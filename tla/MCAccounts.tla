----------------------------- MODULE MCAccounts -----------------------------
(***************************************************************************)
(* Small instances of Accounts for TLC.                                    *)
(***************************************************************************)
EXTENDS Accounts, TLC

\* Identities, goroutines and tokens are interchangeable.
Symmetry == Permutations(Subjects) \cup Permutations(Requests)
              \cup Permutations(Tokens)

=============================================================================
