---------------------------- MODULE MCEntryStore ----------------------------
(***************************************************************************)
(* Small instances of EntryStore for TLC.                                  *)
(***************************************************************************)
EXTENDS EntryStore, TLC

\* Requests, ids and links are interchangeable; safety runs exploit that.
Symmetry == Permutations(Requests) \cup Permutations(EntryIDs)
              \cup Permutations(GuestLinkIDs)

\* Without administrators, users are interchangeable as well.
SymmetryNoAdmins == Symmetry \cup Permutations(Users)

=============================================================================
