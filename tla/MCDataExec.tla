------------------------------ MODULE MCDataExec ------------------------------
(* A small instance of DataExec: two callers and three plans. *)
EXTENDS DataExec, TLC

\* One plan above the threshold, two below that differ in what is not counted.
MCPlans ==
    {[fingerprint |-> "scan", rows |-> 1], [fingerprint |-> "index", rows |-> 1],
     [fingerprint |-> "index", rows |-> 3]}

Plain(kind, hasWhere, ticket) ==
    [kind |-> kind, hasWhere |-> hasWhere, yes |-> TRUE, ticket |-> ticket,
     allowNoWhere |-> FALSE, protected |-> FALSE]

\* Permitted below the threshold, permitted always, permitted never.
MCRequests ==
    {Plain("UPDATE", TRUE, FALSE),
     [Plain("DELETE", FALSE, TRUE) EXCEPT !.allowNoWhere = TRUE],
     [Plain("UPDATE", TRUE, FALSE) EXCEPT !.protected = TRUE]}

Symmetry == Permutations(Callers)
=============================================================================
