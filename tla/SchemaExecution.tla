--------------------------- MODULE SchemaExecution ---------------------------
(***************************************************************************)
(* Governed schema mutations: schema apply, import, reconcile and          *)
(* rollback (cmd/schema.go, cmd/gitops.go, cmd/rollback.go) planned by     *)
(* internal/schema, executed by the ExecDDL of the MySQL and PostgreSQL    *)
(* backends, against a database that other sessions change meanwhile.      *)
(*                                                                         *)
(* A run reads the schema and plans; is authorized and records its intent; *)
(* reads the schema twice and the DDL of every table twice; rebuilds the   *)
(* plan; saves a snapshot; executes; and records the outcome.  Every read  *)
(* is a step of its own: introspection is one query, the DDL of the tables *)
(* is one query per table.                                                 *)
(*                                                                         *)
(* A table is the function from its columns to what is said of them, and   *)
(* the table that does not exist is the function with no column.  What is  *)
(* said of a column is its type and its detail: nothing more, a NOT NULL,  *)
(* a DEFAULT or a key, or a foreign key to a column of another table.      *)
(* Import, reconcile and rollback parse the DDL of each table, and keep a  *)
(* text with anything beyond names and types as opaque text: on PostgreSQL *)
(* a table with a detail, on MySQL every table the server describes.  They *)
(* refuse every change of such a table, and create one only by itself.     *)
(*                                                                         *)
(* A table may also have structure that no DDL text expresses (hidden):    *)
(* triggers, policies, partitions, identity columns, a storage engine      *)
(* other than InnoDB.  Introspection does not show it and TableDDL refuses *)
(* the table.                                                              *)
(***************************************************************************)
EXTENDS OutcomeAccounting, FiniteSets, SequencesExt

CONSTANTS
    Runs,        \* the governed invocations
    None,        \* no snapshot, no outcome
    Engine,      \* "mysql" or "postgres"
    Tables,      \* table names, numbered in their sorted order
    Columns,     \* column names, numbered in their order in a table
    Types,       \* column types
    References,  \* for each detail of a column the <<table, column>> it refers to, or None
    Initial,     \* the schemas the database may start with
    Jobs,        \* what an invocation may be asked to do, with which flags
    ForeignFields, \* bound: the column definitions other sessions use
    MaxForeign,  \* bound: schema changes by other sessions
    MaxFaults    \* bound: failed queries, lost replies and crashes

Details == DOMAIN References
Fields == [type : Types, detail : Details]
Definitions == UNION {[cols -> Fields] : cols \in SUBSET Columns}
Schemas == [Tables -> Definitions]
Commands == {"apply", "import", "prune", "rollback"}
Grants == SUBSET {"yes", "ticket", "destructive", "prune"}

Absent == <<>>
Nothing == [t \in Tables |-> Absent]
Present(s) == {t \in Tables : s[t] # Absent}

\* Something is said of a column beyond its type.
Detailed(table) == \E c \in DOMAIN table : table[c].detail # "plain"

\* ParseDesiredSQL: apply takes one CREATE TABLE and no detail.  ParseSchemaDDL: the others
\* keep the text of a table with a detail, and maybe of others, as it is (raw).  Only a
\* rollback goes back to the snapshot of another run.
Parsed(j) ==
    IF j.command = "apply"
    THEN /\ \E t \in Tables : Present(j.desired) = {t}
         /\ j.raw = {} /\ j.from = None
         /\ \A t \in Tables : ~Detailed(j.desired[t])
    ELSE /\ j.raw \subseteq Present(j.desired)
         /\ \A t \in Tables : Detailed(j.desired[t]) => t \in j.raw
         /\ j.from # None => j.command = "rollback"

\* A rollback without another run (from) goes back to the snapshot of an earlier
\* invocation, which left desired.
JobType ==
    {j \in [command : Commands, desired : Schemas, raw : SUBSET Tables,
             from : Runs \cup {None}, grant : Grants, protected : BOOLEAN] : Parsed(j)}

ASSUME ExecutionAssumption ==
    /\ Engine \in {"mysql", "postgres"}
    /\ None \notin Runs \cup Schemas \cup Outcomes
    /\ IsFiniteSet(Tables) /\ Tables \subseteq Nat
    /\ IsFiniteSet(Columns) /\ Columns \subseteq Nat
    /\ References \in [Details -> (Tables \X Columns) \cup {None}]
    /\ "plain" \in Details /\ References["plain"] = None
    /\ Initial \subseteq Schemas
    /\ Jobs \subseteq JobType
    /\ ForeignFields \subseteq Fields
    /\ {"CONFLICT", "BACKEND_ERROR"} \subseteq Codes
    /\ MaxForeign \in Nat /\ MaxFaults \in Nat
    \* the largest plan: an outcome can count its statements
    /\ Cardinality(Tables) * (Cardinality(Columns) + 1) <= MaxCount

VARIABLES
    pc,         \* where each run stands
    job,        \* what each run was asked to do
    db,         \* the committed schema of the database
    hidden,     \* the tables with structure that no DDL text expresses
    base,       \* the schema each plan was computed from
    seen,       \* the last structured introspection of each run
    first,      \* the first complete reading of the tables' DDL
    ddl,        \* the tables' DDL as read so far
    todo,       \* the tables whose DDL is still to be read
    snapshot,   \* the snapshot file each run saved
    done,       \* statements executed, as ExecDDL counts them
    work,       \* what the open transaction of a run made of the tables it touched
    err,        \* the error ExecDDL returned
    outcome,    \* the outcome handed to the audit log
    foreign,    \* changes by other sessions so far
    faults,     \* failures injected so far
    witness,    \* history: the database at the second introspection
    missed,     \* history: the hidden tables at that moment
    drift,      \* history: changes of others while the run collected its state
    disturbed,  \* history: somebody else changed the schema after that
    applied     \* history: the statements of each run that took effect

vars == <<pc, job, db, hidden, base, seen, first, ddl, todo, snapshot, done, work, err,
          outcome, foreign, faults, witness, missed, drift, disturbed, applied>>

-----------------------------------------------------------------------------
(* schema.Diff and the plan. *)

One(c, field) == [x \in {c} |-> field]
Overlaid(new, old) ==
    [c \in DOMAIN new \cup DOMAIN old |-> IF c \in DOMAIN new THEN new[c] ELSE old[c]]

\* Columns given another type: what else is said of them stays.
Retyped(new, old) ==
    [c \in DOMAIN old |->
        IF c \in DOMAIN new THEN [type |-> new[c].type, detail |-> old[c].detail] ELSE old[c]]

\* The elements of a set in increasing order.
Sorted(S) ==
    CHOOSE s \in [1..Cardinality(S) -> S] : \A i, k \in DOMAIN s : i < k => s[i] < s[k]

Statement(action, table, columns) ==
    [action |-> action, table |-> table, columns |-> columns]

\* Mutant: the columns that go are dropped before the new ones are added.
TableChanges_DropFirst(t, current, desired) ==
    LET column(c) == One(c, desired[t][c])
        changed == {c \in DOMAIN desired[t] :
                      c \notin DOMAIN current[t] \/ current[t][c].type # desired[t][c].type}
        alter(c) == Statement(IF c \in DOMAIN current[t] THEN "modify" ELSE "add", t, column(c))
        drop(c) == Statement("dropColumn", t, One(c, current[t][c]))
        dropped == DOMAIN current[t] \ DOMAIN desired[t]
    IN  IF current[t] = Absent THEN <<Statement("create", t, desired[t])>>
        ELSE [i \in DOMAIN Sorted(dropped) |-> drop(Sorted(dropped)[i])]
               \o [i \in DOMAIN Sorted(changed) |-> alter(Sorted(changed)[i])]

TableChanges(t, current, desired) ==
    LET column(c) == One(c, desired[t][c])
        changed == {c \in DOMAIN desired[t] :
                      c \notin DOMAIN current[t] \/ current[t][c].type # desired[t][c].type}
        alter(c) == Statement(IF c \in DOMAIN current[t] THEN "modify" ELSE "add", t, column(c))
        drop(c) == Statement("dropColumn", t, One(c, current[t][c]))
        dropped == DOMAIN current[t] \ DOMAIN desired[t]
    IN  IF current[t] = Absent THEN <<Statement("create", t, desired[t])>>
        ELSE [i \in DOMAIN Sorted(changed) |-> alter(Sorted(changed)[i])]
               \o [i \in DOMAIN Sorted(dropped) |-> drop(Sorted(dropped)[i])]

Diff(current, desired) ==
    LET tables == Sorted(Present(desired))
    IN  FlattenSeq([i \in DOMAIN tables |-> TableChanges(tables[i], current, desired)])

\* Mutant: the tables missing from the desired schema are kept.
PruneChanges_None(current, desired) == <<>>

PruneChanges(current, desired) ==
    LET extra == Sorted(Present(current) \ Present(desired))
    IN  [i \in DOMAIN extra |-> Statement("dropTable", extra[i], current[extra[i]])]

PlanOf(current, j) ==
    Diff(current, j.desired)
      \o (IF j.command \in {"prune", "rollback"} THEN PruneChanges(current, j.desired)
          ELSE <<>>)

\* ParseSchemaDDL of the text the server gives for a table; apply does not ask for it.
OpaqueText(table) == Engine = "mysql" \/ Detailed(table)
Opaque(current, t, j) == j.command # "apply" /\ OpaqueText(current[t])

\* Diff refuses a table with opaque text on either side, unless both sides are the same
\* text; Diff and ensureOpaqueCreateIsolation refuse to create one beside any other change;
\* RenderDDL refuses MySQL's MODIFY COLUMN.
Unsupported(current, j) ==
    LET plan == PlanOf(current, j)
    IN  \/ \E t \in Present(j.desired) \cap Present(current) :
              /\ Opaque(current, t, j) \/ t \in j.raw
              /\ ~(Opaque(current, t, j) /\ t \in j.raw /\ current[t] = j.desired[t])
        \/ /\ Len(plan) > 1
           /\ \E i \in DOMAIN plan : plan[i].action = "create" /\ plan[i].table \in j.raw
        \/ Engine = "mysql" /\ \E i \in DOMAIN plan : plan[i].action = "modify"

Statements(p) == PlanOf(base[p], job[p])

Changes ==
    [action : {"create", "add", "modify", "dropColumn", "dropTable"}, table : Tables,
     columns : Definitions]

-----------------------------------------------------------------------------
(* Risk and authorization of a plan. *)

Destroys(stmt, j) ==
    \/ stmt.action \in {"modify", "dropColumn"}
    \/ stmt.action = "create" /\ stmt.table \in j.raw

\* ClassifyChange.
RiskOf(stmt, j) == IF Destroys(stmt, j) \/ stmt.action = "dropTable" THEN 3 ELSE 1

\* Mutant: a rollback is only as risky as its statements.
LeastRisk_None(j) == 1

\* applyRollbackPlanMetadata: a rollback is at least R2.
LeastRisk(j) == IF j.command = "rollback" THEN 2 ELSE 1

\* ClassifyDiff, and safety.EffectiveRisk of opskit-core for a protected context.
OverallRisk(plan, j) == Max({LeastRisk(j)} \cup {RiskOf(plan[i], j) : i \in DOMAIN plan})
EffectiveRisk(plan, j) ==
    LET risk == OverallRisk(plan, j) IN IF j.protected /\ risk < 3 THEN risk + 1 ELSE risk

\* Mutant: dropping tables needs no flag of its own.
RequiredFlags_NoPrune(plan, j) ==
    IF \E i \in DOMAIN plan : Destroys(plan[i], j) THEN {"destructive"} ELSE {}

\* planAllowFlags; apply and import, which never drop a table, require the same.
RequiredFlags(plan, j) ==
    (IF \E i \in DOMAIN plan : Destroys(plan[i], j) THEN {"destructive"} ELSE {})
      \cup (IF \E i \in DOMAIN plan : plan[i].action = "dropTable" THEN {"prune"} ELSE {})

\* safety.Authorize of opskit-core: confirmation, a ticket from R2 on, and the flags.
Authorized(plan, j) ==
    /\ "yes" \in j.grant
    /\ EffectiveRisk(plan, j) >= 2 => "ticket" \in j.grant
    /\ RequiredFlags(plan, j) \subseteq j.grant

-----------------------------------------------------------------------------
(* The database server. *)

\* The columns a table refers to, and the columns of a table that others refer to.
Referred(table) == {References[table[c].detail] : c \in DOMAIN table} \ {None}
InUse(s, t) == {c \in Columns : \E u \in Tables \ {t} : <<t, c>> \in Referred(s[u])}

\* A statement speaks of what is there in schema s.
Fits(stmt, s) ==
    LET table == s[stmt.table]
        columns == DOMAIN stmt.columns
    IN  \/ stmt.action = "create" /\ table = Absent
        \/ stmt.action = "add" /\ table # Absent /\ columns \cap DOMAIN table = {}
        \/ stmt.action = "modify" /\ columns \subseteq DOMAIN table
        \/ stmt.action = "dropColumn" /\ columns \subseteq DOMAIN table /\ columns # DOMAIN table
        \/ stmt.action = "dropTable" /\ table # Absent

Executed(stmt, s) ==
    [s EXCEPT ![stmt.table] =
        CASE stmt.action = "create" -> stmt.columns
          [] stmt.action = "add" -> Overlaid(stmt.columns, @)
          [] stmt.action = "modify" -> Retyped(stmt.columns, @)
          [] stmt.action = "dropColumn" -> [c \in DOMAIN @ \ DOMAIN stmt.columns |-> @[c]]
          [] stmt.action = "dropTable" -> Absent]

\* What foreign keys allow: a column that is referred to must be there, is not dropped and
\* keeps its type, and so does a column that refers to one; with such a column PostgreSQL
\* drops the foreign key, and MySQL refuses.
KeysAllow(stmt, s) ==
    LET t == stmt.table
        columns == DOMAIN stmt.columns
        alters == stmt.action \in {"modify", "dropColumn"}
        kept == stmt.action = "modify" \/ (stmt.action = "dropColumn" /\ Engine = "mysql")
    IN  /\ stmt.action \in {"create", "add"} =>
             \A to \in Referred(stmt.columns) : to[2] \in DOMAIN Executed(stmt, s)[to[1]]
        /\ alters => columns \cap InUse(s, t) = {}
        /\ kept => \A c \in columns \cap DOMAIN s[t] : References[s[t][c].detail] = None
        /\ stmt.action = "dropTable" => InUse(s, t) = {}

\* A statement the server accepts in schema s.
Executable(stmt, s) == Fits(stmt, s) /\ KeysAllow(stmt, s)

\* The tables a statement locks: its own, and those its foreign keys come or go with.
Touched(stmt, s) ==
    LET old == IF stmt.action \in {"dropColumn", "dropTable"} THEN Referred(s[stmt.table]) ELSE {}
    IN  {stmt.table} \cup {to[1] : to \in Referred(stmt.columns) \cup old}

\* What the transaction of a PostgreSQL run sees: its own tables as it left them, which it
\* has locked, and the committed state of the others.
Untouched == <<>>
LockedBy(p) == DOMAIN work[p]
TransactionView(p) == [t \in Tables |-> IF t \in LockedBy(p) THEN work[p][t] ELSE db[t]]
Blocked(p, table) == \E q \in Runs \ {p} : table \in LockedBy(q)

\* The schema after each number of statements of a plan.
Course(plan, s) ==
    LET after[i \in 0..Len(plan)] == IF i = 0 THEN s ELSE Executed(plan[i], after[i - 1])
    IN  after

Reached(plan, i, s) == Course(plan, s)[i]

\* A table with the columns and types of another, and whatever else is said of its columns.
Conformed(table, desired) ==
    [c \in DOMAIN desired |->
        IF c \in DOMAIN table THEN [type |-> desired[c].type, detail |-> table[c].detail]
        ELSE desired[c]]

\* What a plan is to make of a schema.
Goal(current, j) ==
    IF j.command \in {"prune", "rollback"} THEN j.desired
    ELSE [t \in Tables |->
            IF j.desired[t] = Absent THEN current[t]
            ELSE IF j.command = "apply" THEN Conformed(current[t], j.desired[t])
            ELSE j.desired[t]]

\* No foreign key of schema s stands in the way of a plan: every statement is allowed in s
\* as it is, except that the tables dropped before a table may refer to it.
InKeyOrder(plan, s) ==
    \A i \in DOMAIN plan :
        KeysAllow(plan[i],
            [t \in Tables |->
                IF \E k \in 1..(i - 1) : plan[k].action = "dropTable" /\ plan[k].table = t
                THEN Absent ELSE s[t]])

-----------------------------------------------------------------------------
Init ==
    /\ job \in [Runs -> Jobs]
    /\ \A p \in Runs : job[p].from # p
    /\ pc = [p \in Runs |-> IF job[p].from = None THEN "read" ELSE "load"]
    /\ db \in Initial
    /\ hidden \in SUBSET Present(db)
    /\ base = [p \in Runs |-> Nothing]
    /\ seen = [p \in Runs |-> Nothing]
    /\ first = [p \in Runs |-> Nothing]
    /\ ddl = [p \in Runs |-> Nothing]
    /\ todo = [p \in Runs |-> {}]
    /\ snapshot = [p \in Runs |-> None]
    /\ done = [p \in Runs |-> 0]
    /\ work = [p \in Runs |-> Untouched]
    /\ err = [p \in Runs |-> NoError]
    /\ outcome = [p \in Runs |-> None]
    /\ foreign = 0
    /\ faults = 0
    /\ witness = [p \in Runs |-> Nothing]
    /\ missed = [p \in Runs |-> {}]
    /\ drift = [p \in Runs |-> 0]
    /\ disturbed = [p \in Runs |-> FALSE]
    /\ applied = [p \in Runs |-> {}]

Fault == faults < MaxFaults /\ faults' = faults + 1
Goto(p, where) == pc' = [pc EXCEPT ![p] = where]

AfterIntent == {"first", "firstDDL", "secondDDL", "execute", "finish"}

Ended(p) == pc[p] \in {"done", "dead"}

\* Somebody's change of the schema as the other runs live through it.
Noticed(changer) ==
    /\ drift' = [q \in Runs |->
         IF q # changer /\ pc[q] \in {"firstDDL", "secondDDL"} THEN drift[q] + 1 ELSE drift[q]]
    /\ disturbed' = [q \in Runs |->
         disturbed[q] \/ (q # changer /\ pc[q] \in {"secondDDL", "execute", "finish"})]

\* Structure nothing expresses goes with its table.
Changed(s) ==
    /\ db' = s
    /\ hidden' = hidden \cap Present(s)

Calm == UNCHANGED <<db, hidden, foreign, drift, disturbed, applied>>
Unread == UNCHANGED <<base, seen, first, ddl, todo, witness, missed>>

-----------------------------------------------------------------------------
(* Planning, before anything is authorized. *)

\* runRollbackTo reads the snapshot it goes back to.
Load(p) ==
    /\ pc[p] = "load"
    /\ LET saved == snapshot[job[p].from]
       IN  IF saved = None THEN Goto(p, "done") /\ UNCHANGED job
           ELSE /\ job' = [job EXCEPT ![p].desired = saved,
                     ![p].raw = {t \in Present(saved) : OpaqueText(saved[t])}]
                /\ Goto(p, "read")
    /\ Calm /\ Unread
    /\ UNCHANGED <<snapshot, done, work, err, outcome, faults>>

Introspect(p) ==
    /\ pc[p] = "read"
    /\ \/ /\ base' = [base EXCEPT ![p] = db]
          /\ IF job[p].command = "apply"
             THEN Goto(p, "plan") /\ UNCHANGED <<ddl, todo>>
             ELSE /\ Goto(p, "baseDDL")
                  /\ ddl' = [ddl EXCEPT ![p] = Nothing]
                  /\ todo' = [todo EXCEPT ![p] = Present(db)]
          /\ UNCHANGED faults
       \/ Fault /\ Goto(p, "done") /\ UNCHANGED <<base, ddl, todo>>
    /\ Calm
    /\ UNCHANGED <<job, seen, first, snapshot, done, work, err, outcome, witness, missed>>

\* finishSkippedMutationAudit, once the intent is recorded.
Skip(p, code) ==
    /\ Goto(p, "done")
    /\ outcome' = [outcome EXCEPT ![p] =
         SkippedOutcome(Len(Statements(p)), [code |-> code, effect |-> "known"])]

\* Mutant: structure that cannot be expressed is left out.
TableDDLRefused_Never(t) == FALSE

\* The table is gone, or validateTableDDLFeatures and validateOpaqueMySQLDDL refuse it.
TableDDLRefused(t) == db[t] = Absent \/ t \in hidden

\* schemaAndDDLFromTableDDL: one table after the other, in the order of their names.  A
\* table that is refused ends the run.
ReadTableDDL(p) ==
    /\ pc[p] \in {"baseDDL", "firstDDL", "secondDDL"}
    /\ todo[p] # {}
    /\ LET t == Min(todo[p])
       IN  \/ /\ ~TableDDLRefused(t)
              /\ ddl' = [ddl EXCEPT ![p][t] = db[t]]
              /\ todo' = [todo EXCEPT ![p] = @ \ {t}]
              /\ UNCHANGED <<pc, outcome, faults>>
           \/ /\ IF TableDDLRefused(t) THEN UNCHANGED faults ELSE Fault
              /\ IF pc[p] = "baseDDL"
                 THEN Goto(p, "done") /\ UNCHANGED outcome
                 ELSE Skip(p, "BACKEND_ERROR")
              /\ UNCHANGED <<ddl, todo>>
    /\ Calm
    /\ UNCHANGED <<job, base, seen, first, snapshot, done, work, err, witness, missed>>

PlanFromDDL(p) ==
    /\ pc[p] = "baseDDL" /\ todo[p] = {}
    /\ base' = [base EXCEPT ![p] = ddl[p]]
    /\ Goto(p, "plan")
    /\ Calm
    /\ UNCHANGED <<job, seen, first, ddl, todo, snapshot, done, work, err, outcome, faults,
                   witness, missed>>

\* A plan that cannot be rendered, an empty plan, a dry run, a denied authorization and
\* an intent that cannot be recorded all end the run; otherwise the intent is durable.
Begin(p) ==
    /\ pc[p] = "plan"
    /\ \/ /\ ~Unsupported(base[p], job[p])
          /\ Statements(p) # <<>>
          /\ Authorized(Statements(p), job[p])
          /\ Goto(p, "first")
       \/ Goto(p, "done")
    /\ Calm /\ Unread
    /\ UNCHANGED <<job, snapshot, done, work, err, outcome, faults>>

-----------------------------------------------------------------------------
(* collectStableSchemaState and the snapshot. *)

FirstIntrospection(p) ==
    /\ pc[p] = "first"
    /\ \/ /\ seen' = [seen EXCEPT ![p] = db]
          /\ ddl' = [ddl EXCEPT ![p] = Nothing]
          /\ todo' = [todo EXCEPT ![p] = Present(db)]
          /\ Goto(p, "firstDDL")
          /\ UNCHANGED <<outcome, faults>>
       \/ Fault /\ Skip(p, "BACKEND_ERROR") /\ UNCHANGED <<seen, ddl, todo>>
    /\ Calm
    /\ UNCHANGED <<job, base, first, snapshot, done, work, err, witness, missed>>

\* Mutant: the second introspection is not compared with the first.
SameCollection_Always(left, right) == TRUE

SameCollection(left, right) == left = right

SecondIntrospection(p) ==
    /\ pc[p] = "firstDDL" /\ todo[p] = {}
    /\ \/ /\ SameCollection(seen[p], db)
          /\ seen' = [seen EXCEPT ![p] = db]
          /\ first' = [first EXCEPT ![p] = ddl[p]]
          /\ ddl' = [ddl EXCEPT ![p] = Nothing]
          /\ todo' = [todo EXCEPT ![p] = Present(db)]
          /\ witness' = [witness EXCEPT ![p] = db]
          /\ missed' = [missed EXCEPT ![p] = hidden]
          /\ Goto(p, "secondDDL")
          /\ UNCHANGED <<outcome, faults>>
       \/ /\ IF SameCollection(seen[p], db) THEN Fault ELSE UNCHANGED faults
          /\ Skip(p, "CONFLICT")
          /\ UNCHANGED <<seen, first, ddl, todo, witness, missed>>
    /\ Calm
    /\ UNCHANGED <<job, base, snapshot, done, work, err>>

\* Mutant: the plan is not rebuilt from the stable state.
SamePlan_Assumed(p) == TRUE

\* The fingerprint of the rebuilt plan covers the schema it was computed from.
SamePlan(p) == base[p] = IF job[p].command = "apply" THEN seen[p] ELSE ddl[p]

TakeSnapshot(p) ==
    /\ pc[p] = "secondDDL" /\ todo[p] = {}
    /\ LET stable == SameCollection(first[p], ddl[p]) /\ SamePlan(p)
       IN  \/ /\ stable
              /\ snapshot' = [snapshot EXCEPT ![p] = ddl[p]]
              /\ Goto(p, "execute")
              /\ UNCHANGED <<outcome, faults>>
           \/ /\ IF stable THEN Fault ELSE UNCHANGED faults
              /\ Skip(p, "CONFLICT")
              /\ UNCHANGED snapshot
    /\ Calm /\ Unread
    /\ UNCHANGED <<job, done, work, err>>

-----------------------------------------------------------------------------
(* ExecDDL of the two backends. *)

Return(p, error) ==
    /\ err' = [err EXCEPT ![p] = error]
    /\ Goto(p, "finish")

\* Mutant: the driver's own error code is passed on.
BackendError_Raw == [code |-> "ER_TABLE_EXISTS", effect |-> "known"]

BackendError == [code |-> "BACKEND_ERROR", effect |-> "known"]

\* MySQL commits every statement by itself; the reply to one may be lost.
ExecuteOnMySQL(p) ==
    /\ Engine = "mysql" /\ pc[p] = "execute" /\ done[p] < Len(Statements(p))
    /\ LET stmt == Statements(p)[done[p] + 1]
       IN  \/ /\ Executable(stmt, db)
              /\ Changed(Executed(stmt, db))
              /\ applied' = [applied EXCEPT ![p] = @ \cup {done[p] + 1}]
              /\ Noticed(p)
              /\ \/ /\ done' = [done EXCEPT ![p] = @ + 1]
                    /\ UNCHANGED <<pc, err, faults>>
                 \/ Fault /\ Return(p, BackendError) /\ UNCHANGED done
           \/ /\ IF Executable(stmt, db) THEN Fault ELSE UNCHANGED faults
              /\ Return(p, BackendError)
              /\ UNCHANGED <<db, hidden, done, drift, disturbed, applied>>
    /\ Unread
    /\ UNCHANGED <<job, snapshot, work, outcome, foreign>>

\* PostgreSQL executes inside one transaction and locks what it touches.  The server
\* ends the wait for a lock when two runs wait for each other.
ExecuteInTransaction(p) ==
    /\ Engine = "postgres" /\ pc[p] = "execute" /\ done[p] < Len(Statements(p))
    /\ LET stmt == Statements(p)[done[p] + 1]
           touching == Touched(stmt, TransactionView(p))
           accepted == /\ \A t \in touching : ~Blocked(p, t)
                       /\ Executable(stmt, TransactionView(p))
           touched == LockedBy(p) \cup touching
       IN  \/ /\ accepted
              /\ done' = [done EXCEPT ![p] = @ + 1]
              /\ work' = [work EXCEPT ![p] =
                   [t \in touched |-> Executed(stmt, TransactionView(p))[t]]]
              /\ UNCHANGED <<pc, err, faults>>
           \/ /\ IF accepted THEN Fault ELSE UNCHANGED faults
              /\ done' = [done EXCEPT ![p] = 0]
              /\ work' = [work EXCEPT ![p] = Untouched]
              /\ Return(p, BackendError)
    /\ Calm /\ Unread
    /\ UNCHANGED <<job, snapshot, outcome>>

\* A commit that ends in an error may have taken effect.
CommitTransaction(p) ==
    /\ Engine = "postgres" /\ pc[p] = "execute" /\ done[p] = Len(Statements(p))
    /\ \/ /\ Changed(TransactionView(p))
          /\ applied' = [applied EXCEPT ![p] = DOMAIN Statements(p)]
          /\ Noticed(p)
          /\ \/ Return(p, NoError) /\ UNCHANGED faults
             \/ Return(p, CommitError) /\ Fault
       \/ Fault /\ Return(p, CommitError) /\ UNCHANGED <<db, hidden, drift, disturbed, applied>>
    /\ work' = [work EXCEPT ![p] = Untouched]
    /\ Unread
    /\ UNCHANGED <<job, snapshot, done, outcome, foreign>>

\* finishDDLMutationAudit; an outcome that is refused is not recorded.
Finish(p) ==
    /\ \/ pc[p] = "finish"
       \/ Engine = "mysql" /\ pc[p] = "execute" /\ done[p] = Len(Statements(p))
    /\ LET n == Len(Statements(p))
           o == DDLOutcome(n, done[p], err[p])
       IN  outcome' = [outcome EXCEPT ![p] = IF ValidMutationOutcome(o, n) THEN o ELSE None]
    /\ Goto(p, "done")
    /\ Calm /\ Unread
    /\ UNCHANGED <<job, snapshot, done, work, err, faults>>

-----------------------------------------------------------------------------
(* The environment. *)

\* The process dies; an open transaction is rolled back by the server.
Crash(p) ==
    /\ ~Ended(p)
    /\ Fault
    /\ Goto(p, "dead")
    /\ work' = [work EXCEPT ![p] = Untouched]
    /\ Calm /\ Unread
    /\ UNCHANGED <<job, snapshot, done, err, outcome>>

\* Another session executes one DDL statement.
ForeignDDL ==
    /\ foreign < MaxForeign
    /\ foreign' = foreign + 1
    /\ \E t \in Tables, c \in Columns, field \in ForeignFields,
          action \in {"create", "add", "modify", "dropColumn", "dropTable"} :
         LET stmt == Statement(action, t, One(c, field))
         IN  /\ Executable(stmt, db)
             /\ \A p \in Runs : Touched(stmt, db) \cap LockedBy(p) = {}
             /\ Changed(Executed(stmt, db))
             /\ db' # db
    /\ Noticed(None)
    /\ Unread
    /\ UNCHANGED <<pc, job, snapshot, done, work, err, outcome, faults, applied>>

\* Another session gives a table structure no DDL text expresses, or takes it away.
ForeignStructure ==
    /\ foreign < MaxForeign
    /\ foreign' = foreign + 1
    /\ \E t \in Present(db) :
         /\ \A p \in Runs : t \notin LockedBy(p)
         /\ hidden' = IF t \in hidden THEN hidden \ {t} ELSE hidden \cup {t}
    /\ Noticed(None)
    /\ Unread
    /\ UNCHANGED <<pc, job, db, snapshot, done, work, err, outcome, faults, applied>>

AllEnded == (\A p \in Runs : Ended(p)) /\ UNCHANGED vars

Next ==
    \/ \E p \in Runs :
         \/ Load(p) \/ Introspect(p) \/ ReadTableDDL(p) \/ PlanFromDDL(p) \/ Begin(p)
         \/ FirstIntrospection(p) \/ SecondIntrospection(p) \/ TakeSnapshot(p)
         \/ ExecuteOnMySQL(p) \/ ExecuteInTransaction(p) \/ CommitTransaction(p)
         \/ Finish(p) \/ Crash(p)
    \/ ForeignDDL \/ ForeignStructure
    \/ AllEnded

Spec == Init /\ [][Next]_vars

-----------------------------------------------------------------------------
(* Properties. *)

TypeOK ==
    /\ pc \in [Runs -> AfterIntent \cup {"load", "read", "baseDDL", "plan", "done", "dead"}]
    /\ job \in [Runs -> JobType]
    /\ db \in Schemas
    /\ hidden \subseteq Present(db) /\ missed \in [Runs -> SUBSET Tables]
    /\ {base, seen, first, ddl, witness} \subseteq [Runs -> Schemas]
    /\ todo \in [Runs -> SUBSET Tables]
    /\ snapshot \in [Runs -> Schemas \cup {None}]
    /\ \A p \in Runs :
         done[p] \in 0..Len(Statements(p)) /\ applied[p] \subseteq DOMAIN Statements(p)
    /\ \A p \in Runs : LockedBy(p) \subseteq Tables /\ work[p] \in [LockedBy(p) -> Definitions]
    /\ err \in [Runs -> Errors]
    /\ \A p \in Runs : outcome[p] = None \/ outcome[p] \in Outcomes
    /\ foreign \in 0..MaxForeign /\ faults \in 0..MaxFaults

\* The snapshot is a schema the database really had, at the second introspection: the
\* tables are read one by one while others change them, and comparing two collections
\* catches every change, up to the two a reader needs to be shown the old state again.
\* It is all of that schema: no table had structure the snapshot leaves out, unless that
\* came after the table was read and went before it was read again.
SnapshotIsPastState ==
    \A p \in Runs : snapshot[p] # None =>
        /\ drift[p] <= 2 => snapshot[p] = witness[p]
        /\ drift[p] <= 1 => missed[p] = {}

\* Statements take effect only after a snapshot of the very schema they were planned
\* for: a schema that changed between the plan and the snapshot stops the run
\* (schemaExecutionDriftError).
PlanMatchesSnapshot ==
    \A p \in Runs : applied[p] # {} /\ drift[p] <= 2 => snapshot[p] = base[p]

\* The recorded outcome never says more than is known: what it counts as succeeded took
\* effect, what it counts as skipped did not, and on PostgreSQL a run with nothing
\* uncertain took effect exactly as far as it says.
OutcomeHonest ==
    \A p \in Runs : outcome[p] # None =>
        LET n == Len(Statements(p))
            o == outcome[p]
        IN  /\ 1..o.succeeded \subseteq applied[p]
            /\ applied[p] \subseteq 1..(n - o.skipped)
            /\ Engine = "postgres" /\ o.uncertain = 0 => applied[p] = 1..o.succeeded

\* What a run takes away it was allowed to take away: a step of it that drops a table or
\* cuts a column needs the flag for that and a ticket, whatever the others did to the
\* schema since the plan was authorized; a rollback and a protected context need a ticket
\* for anything.
LossesGranted ==
    [][\A p \in Runs : applied'[p] # applied[p] =>
          LET dropped == Present(db) \ Present(db')
              cut == {t \in Present(db) \cap Present(db') :
                        \E c \in DOMAIN db[t] : c \notin DOMAIN db'[t] \/ db'[t][c] # db[t][c]}
              grant == job[p].grant
          IN  /\ "yes" \in grant
              /\ dropped # {} => {"ticket", "prune"} \subseteq grant
              /\ cut # {} => {"ticket", "destructive"} \subseteq grant
              /\ job[p].command = "rollback" \/ job[p].protected => "ticket" \in grant]_vars

\* A run that recorded its intent and was not killed records an outcome that accounts
\* for every statement of the plan.
EveryIntentAccounted ==
    [][\A p \in Runs : pc[p] \in AfterIntent /\ pc'[p] = "done" =>
          /\ outcome'[p] # None
          /\ ValidMutationOutcome(outcome'[p], Len(Statements(p)))]_vars

\* A plan the planner accepts leads, on the schema it was computed from, to the desired
\* schema, every statement finding what it speaks of in its turn: exactly that schema after
\* a prune or a rollback, the desired tables beside the untouched extra ones after an
\* import, and the one table with the desired columns and types after an apply.  Tables are
\* created and dropped in the order of their names alone, so the server accepts every
\* statement only when no foreign key stands in the way of that order.
PlanReachesDesired ==
    \A p \in Runs : pc[p] \in AfterIntent =>
        LET plan == Statements(p)
        IN  /\ \A i \in DOMAIN plan : Fits(plan[i], Reached(plan, i - 1, base[p]))
            /\ Reached(plan, Len(plan), base[p]) = Goal(base[p], job[p])
            /\ InKeyOrder(plan, base[p]) =>
                 \A i \in DOMAIN plan : Executable(plan[i], Reached(plan, i - 1, base[p]))

\* What a run was asked for: a rollback to the snapshot of another run means the schema
\* the database had when that run was about to execute.
Asked(p) == IF job[p].from = None THEN job[p].desired ELSE witness[job[p].from]
Reliable(p) == drift[p] <= 2 /\ (job[p].from # None => drift[job[p].from] <= 2)

\* A table has the columns and the types of another.
Alike(table, other) ==
    DOMAIN table = DOMAIN other /\ \A c \in DOMAIN table : table[c].type = other[c].type

\* A run that reports success, undisturbed since its second introspection, leaves the
\* database with the desired tables (after an apply with their columns and types), and with
\* no others after a prune or a rollback; so a rollback undoes what the run of its snapshot
\* and all later ones did to the schema.
SuccessMeansDesired ==
    [][\A p \in Runs :
          (/\ pc'[p] = "done" /\ outcome'[p] # outcome[p]
           /\ outcome'[p].status = "succeeded"
           /\ ~disturbed[p] /\ Reliable(p)) =>
          /\ \A t \in Present(Asked(p)) :
               IF job[p].command = "apply" THEN Alike(db[t], Asked(p)[t])
               ELSE db[t] = Asked(p)[t]
          /\ job[p].command \in {"prune", "rollback"} => db = Asked(p)]_vars
=============================================================================
