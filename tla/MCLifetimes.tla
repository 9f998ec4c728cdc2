---------------------------- MODULE MCLifetimes ----------------------------
(***************************************************************************)
(* Instance of Lifetimes for TLC: a second has 2 units and an hour 2       *)
(* seconds, so a day has 96 units.                                         *)
(***************************************************************************)
EXTENDS Lifetimes

\* 31 December 2999 lies 355000 days ahead.
Year3000 == 355000 * 96

\* Around the moment, 23 hours after a page was made, from which its shortest
\* lifetime is refused.
Moments == {0, 1, 90, 91, 93}

\* Guest links: a day and a half, a built-in lifetime, no limit, and more than
\* no limit.
GuestLifetimesMC == {144, 7 * 96, 36500 * 96, 40000 * 96}

\* At and just past the limit of a cap of two days and of a day and a half.
NamedExpirations == {2 * 96, 2 * 96 + 1, 144 + 90, 144 + 91, Year3000 + 1}

=============================================================================
