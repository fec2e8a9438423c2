-------------------------- MODULE MCSchemaExecution --------------------------
(* Small instances of SchemaExecution. *)
EXTENDS SchemaExecution

Plain(type) == [type |-> type, detail |-> "plain"]
Filled(type) == [type |-> type, detail |-> "notNull"]

\* A column of table 2 may refer to column 1 of table 1, and the other way round.
MCReferences ==
    [detail \in {"plain", "notNull", "toFirst", "toSecond"} |->
        CASE detail = "toFirst" -> <<1, 1>>
          [] detail = "toSecond" -> <<2, 1>>
          [] OTHER -> None]

MCForeignFields == {Plain(1), Filled(2)}

OneColumn == 1 :> Plain(1)
TwoColumns == (1 :> Plain(1)) @@ (2 :> Plain(2))
OtherType == (1 :> Plain(2)) @@ (2 :> Plain(2))
Replaced == 2 :> Plain(1)
NotNull == 1 :> Filled(1)
ToFirst == 1 :> [type |-> 1, detail |-> "toFirst"]
ToSecond == (1 :> Plain(1)) @@ (2 :> [type |-> 1, detail |-> "toSecond"])

\* From here every kind of statement is reached, the creation of a table after somebody
\* else dropped one.
MCInitial == {<<TwoColumns, OneColumn>>}

\* Tables that refer to each other, in either order of their names, and one with a NOT NULL.
MCKeyedInitial == MCInitial \cup {<<OneColumn, ToFirst>>, <<ToSecond, NotNull>>}

Everything == {"yes", "ticket", "destructive", "prune"}

Job(command, desired, grant) ==
    [command |-> command, desired |-> desired,
     raw |-> {t \in DOMAIN desired : Detailed(desired[t])}, from |-> None, grant |-> grant,
     protected |-> FALSE]
Raw(job1) == [job1 EXCEPT !.raw = Present(job1.desired)]
Back(run, grant) == [Job("rollback", Nothing, grant) EXCEPT !.from = run]

\* Everything granted, and too little of it; texts kept as they are, and parsed ones.
MCJobs ==
    LET some == {<<OneColumn, OneColumn>>, <<OtherType, Absent>>, <<Replaced, TwoColumns>>}
        one == {<<OneColumn, Absent>>, <<OtherType, Absent>>, <<Replaced, Absent>>}
        saved == {Raw(Job(command, desired, grant)) :
                    command \in Commands \ {"apply"}, desired \in some,
                    grant \in {{"yes"}, Everything}}
    IN  saved
          \cup {Job("apply", desired, grant) :
                  desired \in one, grant \in {{"yes"}, Everything}}
          \cup {[Job("apply", <<OneColumn, Absent>>, {"yes"}) EXCEPT !.protected = TRUE]}
          \cup {Job("import", <<Absent, TwoColumns>>, Everything)}

\* Two runs, one of which may go back to the snapshot of the other.
MCPairJobs ==
    {Job("apply", <<OneColumn, Absent>>, {"yes"}),
     Job("import", <<Replaced, TwoColumns>>, Everything),
     Job("prune", <<OtherType, Absent>>, {"yes", "ticket", "destructive"}),
     Job("prune", <<OneColumn, Absent>>, Everything),
     Job("prune", Nothing, Everything)}
      \cup {Back(p, grant) : p \in Runs, grant \in {{"yes"}, Everything}}

Symmetry == Permutations(Runs)
=============================================================================
