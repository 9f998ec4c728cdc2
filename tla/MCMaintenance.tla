--------------------------- MODULE MCMaintenance ---------------------------
(***************************************************************************)
(* Instance of Maintenance for TLC, with integers of four bits.            *)
(***************************************************************************)
EXTENDS Maintenance

\* Sizes that fit, a total that fits only in blocks, and one that does not fit.
StatsMC == {[free |-> 1, total |-> 3, block |-> 2],
            [free |-> 2, total |-> 7, block |-> 2],
            [free |-> 1, total |-> 9, block |-> 1]}

=============================================================================
