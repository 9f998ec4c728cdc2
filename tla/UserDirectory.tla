--------------------------- MODULE UserDirectory ---------------------------
(***************************************************************************)
(* What the table users promises: who has an account, who of them is an    *)
(* administrator, and who inherited the files that are older than          *)
(* accounts.  Logins, promotions and demotions happen one at a time here;  *)
(* Accounts shows that transactions which overlap, abort and are cut off   *)
(* by crashes implement this.                                              *)
(***************************************************************************)
CONSTANTS
  Subjects,  \* identities that the identity provider vouches for
  NULL       \* SQL's NULL

VARIABLES
  members,     \* the subjects that have an account
  admins,      \* those with is_admin set
  legacyOwner  \* owner of the entries and guest links that predate accounts

vars == <<members, admins, legacyOwner>>

Init ==
  /\ members = {}
  /\ admins = {}
  /\ legacyOwner = NULL

\* The first user becomes administrator and claims what belongs to nobody.
FirstLogin(s) ==
  /\ members = {}
  /\ members' = {s}
  /\ admins' = {s}
  /\ legacyOwner' = s

\* Later ones become ordinary users; a login of a user changes nothing here.
Join(s) ==
  /\ members # {}
  /\ members' = members \cup {s}
  /\ UNCHANGED <<admins, legacyOwner>>

Grant(s) ==
  /\ s \in members
  /\ admins' = admins \cup {s}
  /\ UNCHANGED <<members, legacyOwner>>

\* The last administrator stays.
Revoke(s) ==
  /\ admins \ {s} # {}
  /\ admins' = admins \ {s}
  /\ UNCHANGED <<members, legacyOwner>>

Next == \E s \in Subjects : FirstLogin(s) \/ Join(s) \/ Grant(s) \/ Revoke(s)

Spec == Init /\ [][Next]_vars

=============================================================================
