--------------------------- MODULE MCContextControl ---------------------------
(* Small instances of ContextControl: two contexts, two operators, two passwords. *)
EXTENDS ContextControl, TLC

CONSTANTS n1, n2, a, b, s1, s2

Nobody == [o \in Operators |-> "none"]
Admin(o) == [Nobody EXCEPT ![o] = "admin"]
Context(roles, password) == [roles |-> roles, password |-> password]

\* One context anybody may change, or two, the current one in the hands of an operator.
OneContext == [current |-> None, contexts |-> [n \in {n1} |-> Context(Nobody, s1)]]
TwoContexts ==
    [current |-> n1, contexts |-> [n \in {n1, n2} |->
         IF n = n1 THEN Context(Admin(a), s1) ELSE Context(Nobody, s1)]]

File(api, c) == [api |-> api, current |-> c.current, contexts |-> c.contexts]
MCLegacy == {File("legacy", TwoContexts)}
MCInitial == {File("v1", OneContext), File("v1", TwoContexts)} \cup MCLegacy

Request(command, by, target) ==
    [command |-> command, by |-> by, target |-> target, operator |-> by, role |-> "admin",
     password |-> NoPassword, document |-> Context(Admin(by), s2), force |-> FALSE]

\* One of every command.
MCRequests ==
    {Request("use", b, n2), Request("delete", a, n1),
     [Request("roleSet", a, n1) EXCEPT !.operator = b], Request("roleUnset", a, n1),
     [Request("set", b, n1) EXCEPT !.password = s2], [Request("import", b, n2) EXCEPT !.force = TRUE],
     Request("migrate", a, None), Request("prune", a, None)}

Symmetry == Permutations(Procs)
=============================================================================
