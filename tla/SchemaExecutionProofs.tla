------------------------ MODULE SchemaExecutionProofs ------------------------
(* Governed schema execution proved, for any number of runs, tables and     *)
(* changes by others: what two collections of the schema, one table after   *)
(* the other, say of the database, and what a plan is bound to.             *)
EXTENDS SchemaExecution, OutcomeAccountingProofs, FiniteSetTheorems, SequenceTheorems,
        WellFoundedInduction

Control == AfterIntent \cup {"load", "read", "baseDDL", "plan", "done", "dead"}
Reading == {"firstDDL", "secondDDL"}

\* A function of the tables, whatever it says of them.
OfTables(s) == s = [t \in Tables |-> s[t]]

Shapes ==
    /\ pc \in [Runs -> Control] /\ drift \in [Runs -> Nat]
    /\ DOMAIN base = Runs /\ DOMAIN seen = Runs /\ DOMAIN first = Runs /\ DOMAIN ddl = Runs
    /\ DOMAIN todo = Runs /\ DOMAIN snapshot = Runs /\ DOMAIN witness = Runs
    /\ DOMAIN missed = Runs /\ DOMAIN applied = Runs
    /\ OfTables(db) /\ hidden \subseteq Present(db)
    /\ \A p \in Runs : OfTables(ddl[p]) /\ OfTables(first[p]) /\ OfTables(witness[p])

\* The first collection: a table shown otherwise than the introspection showed it was changed,
\* and changed back if it is now as it was.
FirstRead(p) ==
    \A t \in Tables :
        /\ db[t] # seen[p][t] => drift[p] >= 1
        /\ t \notin todo[p] /\ ddl[p][t] # seen[p][t] =>
              drift[p] >= 1 /\ (db[t] = seen[p][t] => drift[p] >= 2)
        /\ t \notin todo[p] /\ seen[p][t] # Absent /\ t \in hidden => drift[p] >= 1

\* The second collection: for a table to be shown twice as it was not, it has changed three
\* times; for hidden structure to go unnoticed, it came and went.
SecondRead(p) ==
    /\ witness[p] = seen[p]
    /\ \A t \in Tables :
         first[p][t] # witness[p][t] =>
             /\ drift[p] >= 2
             /\ db[t] # witness[p][t] => drift[p] >= 3
             /\ t \notin todo[p] /\ ddl[p][t] # witness[p][t] => drift[p] >= 3
    /\ \A t \in missed[p] : drift[p] >= 1 /\ (t \notin todo[p] \/ t \notin hidden => drift[p] >= 2)

SnapshotTrue(p) ==
    /\ pc[p] \in {"execute", "finish", "done", "dead"}
    /\ drift[p] <= 2 => snapshot[p] = witness[p] /\ snapshot[p] = base[p]
    /\ drift[p] <= 1 => missed[p] = {}

RunInv(p) ==
    /\ pc[p] = "firstDDL" => FirstRead(p)
    /\ pc[p] = "secondDDL" => SecondRead(p)
    /\ pc[p] \in {"execute", "finish"} \/ applied[p] # {} \/ snapshot[p] # None => SnapshotTrue(p)

SnapshotInv == Shapes /\ \A p \in Runs : RunInv(p)

Command(p) ==
    \/ Load(p) \/ Introspect(p) \/ ReadTableDDL(p) \/ PlanFromDDL(p) \/ Begin(p)
    \/ FirstIntrospection(p) \/ SecondIntrospection(p) \/ TakeSnapshot(p)
    \/ ExecuteOnMySQL(p) \/ ExecuteInTransaction(p) \/ CommitTransaction(p)
    \/ Finish(p) \/ Crash(p)

-----------------------------------------------------------------------------
\* A change of the database leaves a function of the tables, and no structure without a table.
LEMMA ChangedShape ==
    ASSUME NEW s, OfTables(s), Changed(s)
    PROVE  OfTables(db') /\ hidden' \subseteq Present(db')
BY DEF Changed

LEMMA ExecutedShape ==
    ASSUME NEW s, OfTables(s), NEW stmt
    PROVE  OfTables(Executed(stmt, s))
<1>1. \A v : OfTables([s EXCEPT ![stmt.table] = v])
  BY DEF OfTables
<1>2. \E v : Executed(stmt, s) = [s EXCEPT ![stmt.table] = v]
  BY Zenon DEF Executed
<1> QED BY <1>1, <1>2

LEMMA ViewShape ==
    ASSUME NEW p
    PROVE  OfTables(TransactionView(p))
BY DEF OfTables, TransactionView

\* Only executed and committed statements change the database.
LEMMA CalmCommand ==
    ASSUME NEW p, Command(p), ~ExecuteOnMySQL(p), ~CommitTransaction(p)
    PROVE  UNCHANGED <<db, hidden, drift>>
<1>1. CASE Load(p) \/ Introspect(p) \/ ReadTableDDL(p) \/ PlanFromDDL(p) \/ Begin(p)
  BY <1>1 DEF Load, Introspect, ReadTableDDL, PlanFromDDL, Begin, Calm
<1>2. CASE FirstIntrospection(p) \/ SecondIntrospection(p) \/ TakeSnapshot(p)
  BY <1>2 DEF FirstIntrospection, SecondIntrospection, TakeSnapshot, Calm
<1>3. CASE ExecuteInTransaction(p) \/ Finish(p) \/ Crash(p)
  BY <1>3 DEF ExecuteInTransaction, Finish, Crash, Calm
<1> QED BY <1>1, <1>2, <1>3 DEF Command

\* A step either leaves the database alone or is noticed by every other run.
LEMMA WorldStep ==
    ASSUME Shapes, Next
    PROVE  \/ UNCHANGED <<db, hidden, drift>>
           \/ \E changer \in Runs \cup {None} :
                /\ changer \in Runs => pc[changer] = "execute"
                /\ Noticed(changer) /\ OfTables(db') /\ hidden' \subseteq Present(db')
<1>1. CASE \E p \in Runs : ExecuteOnMySQL(p)
  <2>1. PICK p \in Runs : ExecuteOnMySQL(p)
    BY <1>1
  <2> DEFINE stmt == Statements(p)[done[p] + 1]
  <2>2. /\ pc[p] = "execute"
        /\ \/ Changed(Executed(stmt, db)) /\ Noticed(p)
           \/ UNCHANGED <<db, hidden, drift>>
    BY <2>1 DEF ExecuteOnMySQL
  <2> HIDE DEF stmt
  <2> QED BY <2>2, ExecutedShape, ChangedShape DEF Shapes
<1>2. CASE \E p \in Runs : CommitTransaction(p)
  <2>1. PICK p \in Runs : CommitTransaction(p)
    BY <1>2
  <2>2. /\ pc[p] = "execute"
        /\ \/ Changed(TransactionView(p)) /\ Noticed(p)
           \/ UNCHANGED <<db, hidden, drift>>
    BY <2>1 DEF CommitTransaction
  <2> QED BY <2>2, ViewShape, ChangedShape
<1>3. CASE ForeignDDL
  <2>1. Noticed(None) /\ \E stmt : Changed(Executed(stmt, db))
    BY <1>3 DEF ForeignDDL
  <2> QED BY <2>1, ExecutedShape, ChangedShape, ExecutionAssumption DEF Shapes
<1>4. CASE ForeignStructure
  <2>1. /\ Noticed(None) /\ db' = db
        /\ \E t \in Present(db) : hidden' = IF t \in hidden THEN hidden \ {t} ELSE hidden \cup {t}
    BY <1>4 DEF ForeignStructure
  <2> QED BY <2>1, ExecutionAssumption DEF Shapes
<1>5. CASE \E p \in Runs : Command(p) /\ ~ExecuteOnMySQL(p) /\ ~CommitTransaction(p)
  BY <1>5, CalmCommand
<1> QED BY <1>1, <1>2, <1>3, <1>4, <1>5 DEF Next, Command, AllEnded, vars

\* A run leaves what the others know alone.
LEMMA OtherRuns ==
    ASSUME Shapes, NEW p \in Runs, Command(p), NEW q \in Runs \ {p}
    PROVE  /\ pc'[q] = pc[q] /\ base'[q] = base[q] /\ seen'[q] = seen[q] /\ first'[q] = first[q]
           /\ ddl'[q] = ddl[q] /\ todo'[q] = todo[q] /\ snapshot'[q] = snapshot[q]
           /\ witness'[q] = witness[q] /\ missed'[q] = missed[q] /\ applied'[q] = applied[q]
<1> USE DEF Shapes, Goto, Calm, Unread
<1>1. CASE Load(p) \/ Introspect(p) \/ PlanFromDDL(p) \/ Begin(p)
  BY <1>1 DEF Load, Introspect, PlanFromDDL, Begin
<1>2. CASE ReadTableDDL(p)
  BY <1>2 DEF ReadTableDDL, Skip
<1>3. CASE FirstIntrospection(p) \/ SecondIntrospection(p) \/ TakeSnapshot(p)
  BY <1>3 DEF FirstIntrospection, SecondIntrospection, TakeSnapshot, Skip
<1>4. CASE ExecuteOnMySQL(p)
  BY <1>4 DEF ExecuteOnMySQL, Return
<1>5. CASE ExecuteInTransaction(p) \/ CommitTransaction(p)
  BY <1>5 DEF ExecuteInTransaction, CommitTransaction, Return
<1>6. CASE Finish(p) \/ Crash(p)
  BY <1>6 DEF Finish, Crash
<1> QED BY <1>1, <1>2, <1>3, <1>4, <1>5, <1>6 DEF Command

\* Whatever others change, a run that only looks on keeps what it may conclude.
LEMMA OnlookerKeeps ==
    ASSUME Shapes, Next, NEW q \in Runs, RunInv(q), drift'[q] \in Nat,
           /\ pc'[q] = pc[q] /\ base'[q] = base[q] /\ seen'[q] = seen[q] /\ first'[q] = first[q]
           /\ ddl'[q] = ddl[q] /\ todo'[q] = todo[q] /\ snapshot'[q] = snapshot[q]
           /\ witness'[q] = witness[q] /\ missed'[q] = missed[q] /\ applied'[q] = applied[q]
    PROVE  RunInv(q)'
<1>1. CASE UNCHANGED <<db, hidden, drift>>
  BY <1>1 DEF RunInv, FirstRead, SecondRead, SnapshotTrue
<1>2. CASE ~UNCHANGED <<db, hidden, drift>>
  <2>1. drift'[q] = IF pc[q] \in Reading THEN drift[q] + 1 ELSE drift[q]
    BY <1>2, WorldStep DEF Noticed, Reading, Shapes
  <2>2. drift[q] \in Nat
    BY DEF Shapes
  <2>3. CASE pc[q] = "firstDDL"
    <3>1. FirstRead(q)'
      BY <2>1, <2>2, <2>3 DEF RunInv, FirstRead, Reading
    <3> QED BY <2>3, <3>1 DEF RunInv, SnapshotTrue
  <2>4. CASE pc[q] = "secondDDL"
    <3>1. SecondRead(q)'
      BY <2>1, <2>2, <2>4 DEF RunInv, SecondRead, Reading
    <3> QED BY <2>4, <3>1 DEF RunInv, SnapshotTrue
  <2>5. CASE pc[q] \notin Reading
    BY <2>1, <2>5 DEF RunInv, SnapshotTrue, Reading
  <2> QED BY <2>3, <2>4, <2>5 DEF Reading
<1> QED BY <1>1, <1>2

-----------------------------------------------------------------------------
(* The steps of a run. *)

\* What a step of a run does to the counts of drift.
LEMMA DriftType ==
    ASSUME Shapes, Next
    PROVE  drift' \in [Runs -> Nat]
<1>1. CASE UNCHANGED drift
  BY <1>1 DEF Shapes
<1>2. CASE ~UNCHANGED drift
  BY <1>2, WorldStep DEF Noticed, Shapes
<1> QED BY <1>1, <1>2

LEMMA ShapesStep ==
    ASSUME Shapes, Next
    PROVE  Shapes'
<1>1. drift' \in [Runs -> Nat]
  BY DriftType
<1>2. OfTables(db') /\ hidden' \subseteq Present(db')
  BY WorldStep DEF Shapes
<1>3. CASE UNCHANGED <<pc, base, seen, first, ddl, todo, snapshot, witness, missed, applied>>
  BY <1>1, <1>2, <1>3 DEF Shapes
<1>4. ASSUME NEW p \in Runs, Command(p)
      PROVE  /\ pc' \in [Runs -> Control]
             /\ DOMAIN base' = Runs /\ DOMAIN seen' = Runs /\ DOMAIN first' = Runs
             /\ DOMAIN ddl' = Runs /\ DOMAIN todo' = Runs /\ DOMAIN snapshot' = Runs
             /\ DOMAIN witness' = Runs /\ DOMAIN missed' = Runs /\ DOMAIN applied' = Runs
             /\ OfTables(ddl'[p]) /\ OfTables(first'[p]) /\ OfTables(witness'[p])
  <2> USE <1>4 DEF Shapes, Goto, Calm, Unread, Control, AfterIntent
  <2>0. OfTables(Nothing)
    BY DEF OfTables, Nothing
  <2>1. CASE Load(p) \/ Begin(p) \/ PlanFromDDL(p)
    BY <2>1 DEF Load, Begin, PlanFromDDL
  <2>2. CASE Introspect(p)
    BY <2>0, <2>2 DEF Introspect
  <2>3. CASE ReadTableDDL(p)
    <3>1. \/ ddl' = ddl
          \/ \E t : ddl' = [ddl EXCEPT ![p][t] = db[t]]
      BY <2>3 DEF ReadTableDDL
    <3>2. OfTables(ddl'[p]) /\ DOMAIN ddl' = Runs
      BY <3>1 DEF OfTables
    <3>3. DOMAIN todo' = Runs
      BY <2>3 DEF ReadTableDDL
    <3> QED BY <2>3, <3>2, <3>3 DEF ReadTableDDL, Skip
  <2>4. CASE FirstIntrospection(p)
    <3>1. /\ pc' = [pc EXCEPT ![p] = "firstDDL"] \/ pc' = [pc EXCEPT ![p] = "done"]
          /\ seen' = seen \/ seen' = [seen EXCEPT ![p] = db]
          /\ ddl' = ddl \/ ddl' = [ddl EXCEPT ![p] = Nothing]
          /\ todo' = todo \/ todo' = [todo EXCEPT ![p] = Present(db)]
          /\ UNCHANGED <<base, first, snapshot, witness, missed, applied>>
      BY <2>4 DEF FirstIntrospection, Skip
    <3> QED BY <2>0, <3>1
  <2>10. CASE SecondIntrospection(p)
    <3>1. /\ pc' = [pc EXCEPT ![p] = "secondDDL"] \/ pc' = [pc EXCEPT ![p] = "done"]
          /\ seen' = seen \/ seen' = [seen EXCEPT ![p] = db]
          /\ first' = first \/ first' = [first EXCEPT ![p] = ddl[p]]
          /\ ddl' = ddl \/ ddl' = [ddl EXCEPT ![p] = Nothing]
          /\ todo' = todo \/ todo' = [todo EXCEPT ![p] = Present(db)]
          /\ witness' = witness \/ witness' = [witness EXCEPT ![p] = db]
          /\ missed' = missed \/ missed' = [missed EXCEPT ![p] = hidden]
          /\ UNCHANGED <<base, snapshot, applied>>
      <4>1. CASE SameCollection(seen[p], db)
        BY <2>10, <4>1 DEF SecondIntrospection, Skip
      <4>2. CASE ~SameCollection(seen[p], db)
        BY <2>10, <4>2 DEF SecondIntrospection, Skip
      <4> QED BY <4>1, <4>2
    <3> QED BY <2>0, <3>1
  <2>5. CASE TakeSnapshot(p)
    BY <2>5 DEF TakeSnapshot, Skip
  <2>6. CASE ExecuteOnMySQL(p)
    <3>1. /\ applied' = applied \/ \E S : applied' = [applied EXCEPT ![p] = S]
          /\ pc' = pc \/ pc' = [pc EXCEPT ![p] = "finish"]
      BY <2>6 DEF ExecuteOnMySQL, Return
    <3> QED BY <2>6, <3>1 DEF ExecuteOnMySQL
  <2>7. CASE ExecuteInTransaction(p)
    <3>1. pc' = pc \/ pc' = [pc EXCEPT ![p] = "finish"]
      BY <2>7 DEF ExecuteInTransaction, Return
    <3> QED BY <2>7, <3>1 DEF ExecuteInTransaction
  <2>8. CASE CommitTransaction(p)
    <3>1. applied' = applied \/ \E S : applied' = [applied EXCEPT ![p] = S]
      BY <2>8 DEF CommitTransaction
    <3> QED BY <2>8, <3>1 DEF CommitTransaction, Return
  <2>9. CASE Finish(p) \/ Crash(p)
    BY <2>9 DEF Finish, Crash
  <2> QED BY <2>1, <2>2, <2>3, <2>4, <2>5, <2>6, <2>7, <2>8, <2>9, <2>10 DEF Command
<1>5. CASE \E p \in Runs : Command(p)
  <2>1. PICK p \in Runs : Command(p)
    BY <1>5
  <2>2. ASSUME NEW q \in Runs
        PROVE  OfTables(ddl'[q]) /\ OfTables(first'[q]) /\ OfTables(witness'[q])
    <3>1. CASE q = p
      BY <1>4, <2>1, <3>1
    <3>2. CASE q # p
      <4>1. OfTables(ddl[q]) /\ OfTables(first[q]) /\ OfTables(witness[q])
        BY DEF Shapes
      <4> QED BY <2>1, <3>2, <4>1, OtherRuns
    <3> QED BY <3>1, <3>2
  <2> QED BY <1>1, <1>2, <1>4, <2>1, <2>2 DEF Shapes
<1> QED BY <1>3, <1>5 DEF Next, Command, AllEnded, vars, ForeignDDL, ForeignStructure, Unread

\* The collection starts from what the database shows.
LEMMA FirstBegun ==
    ASSUME SnapshotInv, NEW p \in Runs, FirstIntrospection(p)
    PROVE  RunInv(p)'
<1>1. Shapes /\ RunInv(p) /\ pc[p] = "first"
  BY DEF SnapshotInv, FirstIntrospection
<1>2. snapshot'[p] = None /\ applied'[p] = {}
  BY <1>1 DEF FirstIntrospection, Calm, RunInv, SnapshotTrue
<1>3. CASE pc'[p] = "firstDDL"
  <2>1. /\ seen'[p] = db /\ ddl'[p] = Nothing /\ todo'[p] = Present(db)
        /\ db' = db /\ hidden' = hidden
    BY <1>1, <1>3 DEF FirstIntrospection, Calm, Shapes, Goto, Skip
  <2>2. FirstRead(p)'
    BY <2>1 DEF FirstRead, Present, Nothing
  <2> QED BY <1>2, <1>3, <2>2 DEF RunInv
<1>4. CASE pc'[p] # "firstDDL"
  <2>1. pc'[p] = "done"
    BY <1>1, <1>4 DEF FirstIntrospection, Goto, Skip, Shapes
  <2> QED BY <1>2, <2>1 DEF RunInv
<1> QED BY <1>3, <1>4

\* A table's DDL is read as it is.
LEMMA TableRead ==
    ASSUME SnapshotInv, NEW p \in Runs, ReadTableDDL(p)
    PROVE  RunInv(p)'
<1>1. /\ Shapes /\ RunInv(p) /\ pc[p] \in {"baseDDL", "firstDDL", "secondDDL"}
      /\ UNCHANGED <<db, hidden, drift, seen, first, witness, missed, base, snapshot, applied>>
  BY DEF SnapshotInv, ReadTableDDL, Calm
<1>2. snapshot[p] = None /\ applied[p] = {}
  BY <1>1 DEF RunInv, SnapshotTrue
<1>3. CASE pc'[p] # pc[p]
  <2>1. pc'[p] = "done"
    BY <1>1, <1>3 DEF ReadTableDDL, Goto, Skip, Shapes
  <2> QED BY <1>1, <1>2, <2>1 DEF RunInv
<1>4. CASE pc'[p] = pc[p]
  <2> DEFINE t == Min(todo[p])
  <2>1. /\ ~TableDDLRefused(t)
        /\ ddl' = [ddl EXCEPT ![p][t] = db[t]]
        /\ todo' = [todo EXCEPT ![p] = @ \ {t}]
    BY <1>1, <1>4 DEF ReadTableDDL, Goto, Skip, Shapes
  <2> HIDE DEF t
  <2>2. /\ todo'[p] = todo[p] \ {t} /\ t \notin hidden
        /\ \A u \in Tables : ddl'[p][u] = IF u = t THEN db[t] ELSE ddl[p][u]
    BY <1>1, <2>1 DEF Shapes, TableDDLRefused, OfTables
  <2>3. CASE pc[p] = "firstDDL"
    <3>1. FirstRead(p)'
      BY <1>1, <2>2, <2>3 DEF RunInv, FirstRead
    <3> QED BY <1>1, <1>2, <1>4, <2>3, <3>1 DEF RunInv
  <2>4. CASE pc[p] = "secondDDL"
    <3>1. SecondRead(p)'
      BY <1>1, <2>2, <2>4 DEF RunInv, SecondRead
    <3> QED BY <1>1, <1>2, <1>4, <2>4, <3>1 DEF RunInv
  <2>5. CASE pc[p] = "baseDDL"
    BY <1>1, <1>2, <1>4, <2>5 DEF RunInv
  <2> QED BY <1>1, <2>3, <2>4, <2>5
<1> QED BY <1>3, <1>4

\* The second introspection shows what the first showed.
LEMMA SecondBegun ==
    ASSUME SnapshotInv, NEW p \in Runs, SecondIntrospection(p)
    PROVE  RunInv(p)'
<1>1. /\ Shapes /\ RunInv(p) /\ FirstRead(p) /\ pc[p] = "firstDDL" /\ todo[p] = {}
      /\ UNCHANGED <<db, hidden, drift, base, snapshot, applied>>
  BY DEF SnapshotInv, SecondIntrospection, RunInv, Calm
<1>2. snapshot[p] = None /\ applied[p] = {}
  BY <1>1 DEF RunInv, SnapshotTrue
<1>3. CASE pc'[p] = "secondDDL"
  <2>1. /\ seen[p] = db /\ seen'[p] = db /\ witness'[p] = db /\ missed'[p] = hidden
        /\ first'[p] = ddl[p] /\ ddl'[p] = Nothing /\ todo'[p] = Present(db)
    BY <1>1, <1>3 DEF SecondIntrospection, SameCollection, Goto, Skip, Shapes
  <2>2. drift[p] \in Nat /\ hidden \subseteq Present(db)
    BY <1>1 DEF Shapes
  <2>3. SecondRead(p)'
    BY <1>1, <2>1, <2>2 DEF FirstRead, SecondRead, Present, Nothing
  <2> QED BY <1>1, <1>2, <1>3, <2>3 DEF RunInv
<1>4. CASE pc'[p] # "secondDDL"
  <2>1. pc'[p] = "done"
    BY <1>1, <1>4 DEF SecondIntrospection, Goto, Skip, Shapes
  <2> QED BY <1>1, <1>2, <2>1 DEF RunInv
<1> QED BY <1>3, <1>4

\* Two collections that agree, and the plan rebuilt from them.
LEMMA SnapshotTaken ==
    ASSUME SnapshotInv, NEW p \in Runs, TakeSnapshot(p)
    PROVE  RunInv(p)'
<1>1. /\ Shapes /\ RunInv(p) /\ SecondRead(p) /\ pc[p] = "secondDDL" /\ todo[p] = {}
      /\ UNCHANGED <<drift, base, witness, missed, applied>>
  BY DEF SnapshotInv, TakeSnapshot, RunInv, Calm, Unread
<1>2. snapshot[p] = None /\ applied[p] = {}
  BY <1>1 DEF RunInv, SnapshotTrue
<1>3. CASE pc'[p] = "execute"
  <2>1. /\ first[p] = ddl[p] /\ SamePlan(p) /\ snapshot'[p] = ddl[p]
    BY <1>1, <1>3 DEF TakeSnapshot, SameCollection, Goto, Skip, Shapes
  <2>2. drift[p] \in Nat /\ OfTables(ddl[p]) /\ OfTables(witness[p])
    BY <1>1 DEF Shapes
  <2>3. ASSUME drift[p] <= 2 PROVE ddl[p] = witness[p]
    <3>1. \A t \in Tables : ddl[p][t] = witness[p][t]
      BY <1>1, <2>1, <2>2, <2>3 DEF SecondRead
    <3> QED BY <2>2, <3>1 DEF OfTables
  <2>4. ASSUME drift[p] <= 1 PROVE missed[p] = {}
    BY <1>1, <2>2, <2>4 DEF SecondRead
  <2>5. drift[p] <= 2 => ddl[p] = base[p]
    BY <1>1, <2>1, <2>3 DEF SamePlan, SecondRead
  <2> QED BY <1>1, <1>2, <1>3, <2>1, <2>3, <2>4, <2>5 DEF RunInv, SnapshotTrue
<1>4. CASE pc'[p] # "execute"
  <2>1. pc'[p] = "done" /\ snapshot' = snapshot
    BY <1>1, <1>4 DEF TakeSnapshot, Goto, Skip, Shapes
  <2> QED BY <1>1, <1>2, <2>1 DEF RunInv
<1> QED BY <1>3, <1>4

\* Before the collection a run has saved nothing and executed nothing; after it, it reads no more.
LEMMA Elsewhere ==
    ASSUME SnapshotInv, NEW p \in Runs, Command(p),
           ~FirstIntrospection(p), ~ReadTableDDL(p), ~SecondIntrospection(p), ~TakeSnapshot(p)
    PROVE  RunInv(p)'
<1>1. Shapes /\ RunInv(p)
  BY DEF SnapshotInv
<1>2. CASE Load(p) \/ Introspect(p) \/ PlanFromDDL(p) \/ Begin(p)
  <2>1. /\ pc[p] \in {"load", "read", "baseDDL", "plan"}
        /\ UNCHANGED <<snapshot, applied>>
    BY <1>2 DEF Load, Introspect, PlanFromDDL, Begin, Calm
  <2>2. pc'[p] \in {"done", "read", "plan", "baseDDL", "first"}
    BY <1>1, <1>2 DEF Load, Introspect, PlanFromDDL, Begin, Goto, Shapes
  <2>3. snapshot[p] = None /\ applied[p] = {}
    BY <1>1, <2>1 DEF RunInv, SnapshotTrue
  <2> QED BY <2>1, <2>2, <2>3 DEF RunInv
<1>3. CASE ExecuteOnMySQL(p) \/ ExecuteInTransaction(p) \/ CommitTransaction(p)
  <2>1. pc[p] = "execute" /\ pc'[p] \in {"execute", "finish"} /\ UNCHANGED snapshot
        /\ UNCHANGED <<base, witness, missed>>
    BY <1>1, <1>3 DEF ExecuteOnMySQL, ExecuteInTransaction, CommitTransaction, Return, Goto, Shapes,
           Unread
  <2>2. drift'[p] = drift[p]
    BY <1>1, <1>3, <2>1 DEF ExecuteOnMySQL, ExecuteInTransaction, CommitTransaction, Noticed, Calm,
           Shapes
  <2>3. SnapshotTrue(p)
    BY <1>1, <2>1 DEF RunInv
  <2> QED BY <2>1, <2>2, <2>3 DEF RunInv, SnapshotTrue
<1>4. CASE Finish(p)
  <2>1. /\ pc[p] \in {"execute", "finish"} /\ pc'[p] = "done"
        /\ UNCHANGED <<snapshot, base, witness, missed, drift, applied>>
    BY <1>1, <1>4 DEF Finish, Goto, Shapes, Calm, Unread
  <2> QED BY <1>1, <2>1 DEF RunInv, SnapshotTrue
<1>5. CASE Crash(p)
  <2>1. /\ pc'[p] = "dead"
        /\ UNCHANGED <<snapshot, base, witness, missed, drift, applied>>
    BY <1>1, <1>5 DEF Crash, Goto, Shapes, Calm, Unread
  <2> QED BY <1>1, <2>1 DEF RunInv, SnapshotTrue
<1> QED BY <1>2, <1>3, <1>4, <1>5 DEF Command

LEMMA SnapshotInit == Init => SnapshotInv
<1> SUFFICES ASSUME Init PROVE SnapshotInv
  OBVIOUS
<1>1. OfTables(db) /\ hidden \subseteq Present(db)
  BY ExecutionAssumption DEF Init, OfTables, Schemas
<1>2. OfTables(Nothing)
  BY DEF OfTables, Nothing
<1>3. pc \in [Runs -> Control]
  BY DEF Init, Control
<1>4. Shapes
  BY <1>1, <1>2, <1>3 DEF Init, Shapes
<1>5. ASSUME NEW p \in Runs PROVE RunInv(p)
  BY DEF Init, RunInv
<1> QED BY <1>4, <1>5 DEF SnapshotInv

LEMMA SnapshotStep == SnapshotInv /\ [Next]_vars => SnapshotInv'
<1> SUFFICES ASSUME SnapshotInv, [Next]_vars PROVE SnapshotInv'
  OBVIOUS
<1>1. CASE UNCHANGED vars
  BY <1>1 DEF vars, SnapshotInv, Shapes, RunInv, FirstRead, SecondRead, SnapshotTrue
<1>2. CASE Next
  <2>1. Shapes /\ Shapes'
    BY <1>2, ShapesStep DEF SnapshotInv
  <2>2. ASSUME NEW q \in Runs PROVE RunInv(q)'
    <3>0. RunInv(q) /\ drift'[q] \in Nat
      BY <2>1 DEF SnapshotInv, Shapes
    <3>1. CASE \E p \in Runs : Command(p) /\ p # q
      BY <1>2, <2>1, <3>0, <3>1, OtherRuns, OnlookerKeeps
    <3>2. CASE Command(q)
      BY <3>2, FirstBegun, TableRead, SecondBegun, SnapshotTaken, Elsewhere
    <3>3. CASE UNCHANGED <<pc, base, seen, first, ddl, todo, snapshot, witness, missed, applied>>
      BY <1>2, <2>1, <3>0, <3>3, OnlookerKeeps
    <3> QED BY <1>2, <3>1, <3>2, <3>3
            DEF Next, Command, AllEnded, vars, ForeignDDL, ForeignStructure, Unread
  <2> QED BY <2>1, <2>2 DEF SnapshotInv
<1> QED BY <1>1, <1>2

-----------------------------------------------------------------------------
\* The snapshot that a governed run saves is a schema the database really had, for any number
\* of tables, other runs and sessions that change them while they are read one by one, up to
\* two changes; and all of it was there to be read, up to one.
THEOREM SnapshotIsReal == Spec => []SnapshotIsPastState
<1>1. SnapshotInv => SnapshotIsPastState
  BY DEF SnapshotInv, RunInv, SnapshotTrue, SnapshotIsPastState
<1> QED BY <1>1, SnapshotInit, SnapshotStep, PTL DEF Spec

\* No statement takes effect unless the run saved the very schema its plan was computed from.
THEOREM PlanIsBound == Spec => []PlanMatchesSnapshot
<1>1. SnapshotInv => PlanMatchesSnapshot
  BY DEF SnapshotInv, RunInv, SnapshotTrue, PlanMatchesSnapshot
<1> QED BY <1>1, SnapshotInit, SnapshotStep, PTL DEF Spec

-----------------------------------------------------------------------------
(* What a run hands to the audit log, given how many statements a plan has.  *)

Unplanned == {"load", "read", "baseDDL"}
BeforeExecution == Unplanned \cup {"plan", "first", "firstDDL", "secondDDL"}

PlanLength(p) == Len(Statements(p))

Ledgers ==
    /\ pc \in [Runs -> Control] /\ job \in [Runs -> JobType]
    /\ \A p \in Runs : pc[p] = "load" => job[p].from \in Runs
    /\ snapshot \in [Runs -> Schemas \cup {None}]
    /\ done \in [Runs -> Nat] /\ err \in [Runs -> Errors]
    /\ DOMAIN outcome = Runs /\ DOMAIN applied = Runs

Readings ==
    /\ base \in [Runs -> Schemas] /\ seen \in [Runs -> Schemas] /\ first \in [Runs -> Schemas]
    /\ ddl \in [Runs -> Schemas] /\ witness \in [Runs -> Schemas]
    /\ todo \in [Runs -> SUBSET Tables] /\ missed \in [Runs -> SUBSET Tables]

Worlds ==
    /\ db \in Schemas /\ hidden \subseteq Present(db)
    /\ foreign \in 0..MaxForeign /\ faults \in 0..MaxFaults
    /\ DOMAIN work = Runs
    /\ \A p \in Runs : LockedBy(p) \subseteq Tables /\ work[p] \in [LockedBy(p) -> Definitions]

\* What ExecDDL returns, and what took effect: a statement whose reply was lost may have.
Returned(p) ==
    \/ err[p] = NoError /\ done[p] = PlanLength(p) /\ applied[p] = 1..PlanLength(p)
    \/ /\ Engine = "postgres" /\ err[p] = CommitError /\ done[p] = PlanLength(p)
       /\ applied[p] \in {{}, 1..PlanLength(p)}
    \/ /\ Engine = "postgres" /\ err[p] = BackendError /\ done[p] = 0 /\ applied[p] = {}
       /\ 0 < PlanLength(p)
    \/ /\ Engine = "mysql" /\ err[p] = BackendError /\ done[p] < PlanLength(p)
       /\ 1..done[p] \subseteq applied[p] /\ applied[p] \subseteq 1..(done[p] + 1)

HonestOf(p) ==
    LET o == outcome[p]
    IN  /\ o \in Outcomes
        /\ 1..o.succeeded \subseteq applied[p]
        /\ applied[p] \subseteq 1..(PlanLength(p) - o.skipped)
        /\ Engine = "postgres" /\ o.uncertain = 0 => applied[p] = 1..o.succeeded

AccountInv(p) ==
    /\ done[p] <= PlanLength(p) /\ applied[p] \subseteq 1..PlanLength(p)
    /\ pc[p] \in BeforeExecution => done[p] = 0 /\ applied[p] = {} /\ err[p] = NoError
    /\ pc[p] = "execute" =>
          err[p] = NoError /\ applied[p] = IF Engine = "mysql" THEN 1..done[p] ELSE {}
    /\ pc[p] = "finish" => Returned(p)
    /\ pc[p] # "done" => outcome[p] = None
    /\ outcome[p] # None => HonestOf(p)

ExecutionInv == Ledgers /\ Readings /\ Worlds /\ \A p \in Runs : AccountInv(p)

-----------------------------------------------------------------------------
(* Schemas and plans. *)

LEMMA DefinitionForm ==
    ASSUME NEW cols, NEW d, cols \subseteq Columns, d \in [cols -> Fields]
    PROVE  d \in Definitions
BY DEF Definitions

LEMMA DefinitionParts ==
    ASSUME NEW d \in Definitions
    PROVE  DOMAIN d \subseteq Columns /\ d \in [DOMAIN d -> Fields]
BY DEF Definitions

LEMMA NoColumns == Absent \in Definitions /\ Nothing \in Schemas
<1>1. Absent \in [{} -> Fields]
  BY DEF Absent
<1>2. Absent \in Definitions
  BY <1>1, DefinitionForm
<1> QED BY <1>2 DEF Nothing, Schemas

\* What a statement makes of its table.
Made(stmt, old) ==
    CASE stmt.action = "create" -> stmt.columns
      [] stmt.action = "add" -> Overlaid(stmt.columns, old)
      [] stmt.action = "modify" -> Retyped(stmt.columns, old)
      [] stmt.action = "dropColumn" -> [c \in DOMAIN old \ DOMAIN stmt.columns |-> old[c]]
      [] stmt.action = "dropTable" -> Absent

LEMMA ExecutedMade ==
    ASSUME NEW s, NEW stmt
    PROVE  Executed(stmt, s) = [s EXCEPT ![stmt.table] = Made(stmt, s[stmt.table])]
BY Zenon DEF Executed, Made

LEMMA RetypedType ==
    ASSUME NEW new \in Definitions, NEW old \in Definitions
    PROVE  Retyped(new, old) \in [DOMAIN old -> Fields]
<1>1. new \in [DOMAIN new -> Fields] /\ old \in [DOMAIN old -> Fields]
  BY DefinitionParts
<1>2. ASSUME NEW c \in DOMAIN old, c \in DOMAIN new
      PROVE  [type |-> new[c].type, detail |-> old[c].detail] \in Fields
  BY <1>1, <1>2 DEF Fields
<1> QED BY <1>1, <1>2 DEF Retyped

LEMMA ExecutedType ==
    ASSUME NEW s \in Schemas, NEW stmt, stmt.columns \in Definitions,
           stmt.action \in {"create", "add", "modify", "dropColumn", "dropTable"}
    PROVE  Executed(stmt, s) \in Schemas
<1> DEFINE new == stmt.columns
           old == s[stmt.table]
<1>1. ASSUME stmt.table \in Tables PROVE Made(stmt, old) \in Definitions
  <2>1. old \in Definitions /\ new \in Definitions
    BY <1>1 DEF Schemas
  <2> HIDE DEF new, old
  <2>2. Overlaid(new, old) \in [DOMAIN new \cup DOMAIN old -> Fields]
    BY <2>1, DefinitionParts DEF Overlaid
  <2>3. [c \in DOMAIN old \ DOMAIN new |-> old[c]] \in [DOMAIN old \ DOMAIN new -> Fields]
    BY <2>1, DefinitionParts
  <2>4. DOMAIN new \cup DOMAIN old \subseteq Columns /\ DOMAIN old \ DOMAIN new \subseteq Columns
    BY <2>1, DefinitionParts
  <2>5. Overlaid(new, old) \in Definitions
    BY <2>2, <2>4, DefinitionForm
  <2>6. [c \in DOMAIN old \ DOMAIN new |-> old[c]] \in Definitions
    BY <2>3, <2>4, DefinitionForm
  <2>7. Retyped(new, old) \in Definitions
    BY <2>1, <2>4, RetypedType, DefinitionForm
  <2>8. CASE stmt.action = "create"
    BY <2>1, <2>8 DEF Made, new
  <2>9. CASE stmt.action = "add"
    BY <2>5, <2>9 DEF Made, new
  <2>10. CASE stmt.action = "modify"
    BY <2>7, <2>10 DEF Made, new
  <2>11. CASE stmt.action = "dropColumn"
    BY <2>6, <2>11 DEF Made, new
  <2>12. CASE stmt.action = "dropTable"
    BY <2>12, NoColumns DEF Made
  <2> QED BY <2>8, <2>9, <2>10, <2>11, <2>12
<1> QED BY <1>1, ExecutedMade DEF Schemas

-----------------------------------------------------------------------------
(* Lists and least numbers. *)

\* Every set of numbers has a least one: what the inductions over lists rest on.
LEMMA LeastNumber ==
    ASSUME NEW S, S \subseteq Nat, S # {}
    PROVE  \E n \in S : \A m \in S : n <= m
<1> DEFINE R == OpToRel(<, Nat)
<1>1. IsWellFoundedOn(R, Nat)
  BY NatLessThanWellFounded
<1>2. \A m, n \in Nat : m < n => <<m, n>> \in R
  BY Zenon DEF OpToRel
<1> HIDE DEF R
<1>3. PICK n \in S : \A m \in S : <<m, n>> \notin R
  BY <1>1, WFMin
<1>4. \A m \in S : ~(m < n)
  BY <1>2, <1>3
<1> QED BY <1>3, <1>4

-----------------------------------------------------------------------------
(* Sorted lists. *)

Increasing(s) == \A i, k \in DOMAIN s : i < k => s[i] < s[k]

\* Every finite set of numbers can be listed in increasing order.
LEMMA Enumerable ==
    ASSUME NEW S \in SUBSET Nat, IsFiniteSet(S)
    PROVE  \E s \in [1..Cardinality(S) -> S] : Increasing(s)
<1> DEFINE Listed(T) == \E s \in [1..Cardinality(T) -> T] : Increasing(s)
           Bad == {n \in Nat : \E T \in SUBSET Nat :
                     IsFiniteSet(T) /\ Cardinality(T) = n /\ ~Listed(T)}
<1>1. SUFFICES ASSUME Bad # {} PROVE FALSE
  BY <1>1, FS_CardinalityType DEF Bad
<1>2. PICK n \in Bad : \A m \in Bad : n <= m
  BY <1>1, LeastNumber
<1>3. PICK T \in SUBSET Nat : IsFiniteSet(T) /\ Cardinality(T) = n /\ ~Listed(T)
  BY <1>2
<1>4. CASE T = {}
  <2>1. [i \in 1..0 |-> 0] \in [1..Cardinality(T) -> T] /\ Increasing([i \in 1..0 |-> 0])
    BY <1>4, FS_EmptySet DEF Increasing
  <2> QED BY <1>3, <2>1
<1>5. CASE T # {}
  <2>1. PICK x \in T : \A y \in T : x <= y
    BY <1>3, <1>5, LeastNumber
  <2> DEFINE U == T \ {x}
  <2>2. IsFiniteSet(U) /\ Cardinality(U) = n - 1 /\ n \in Nat
    BY <1>3, <2>1, FS_RemoveElement
  <2>3. n - 1 \in Nat
    BY <2>2, FS_CardinalityType
  <2>4. n - 1 \notin Bad
    BY <1>2, <2>3
  <2>5. PICK s \in [1..(n - 1) -> U] : Increasing(s)
    BY <1>3, <2>2, <2>3, <2>4
  <2> DEFINE r == [i \in 1..n |-> IF i = 1 THEN x ELSE s[i - 1]]
  <2>6. \A i \in 1..n : i # 1 => i - 1 \in 1..(n - 1) /\ s[i - 1] \in U
    BY <2>2, <2>5
  <2>7. r \in [1..n -> T]
    BY <2>1, <2>6
  <2>8. \A i, k \in 1..n : i < k => r[i] < r[k]
    <3>1. \A y \in U : x < y
      BY <1>3, <2>1
    <3>2. ASSUME NEW i \in 1..n, NEW k \in 1..n, i < k PROVE r[i] < r[k]
      <4>1. k # 1 /\ r[k] = s[k - 1]
        BY <3>2, <2>2
      <4>2. CASE i = 1
        BY <4>1, <4>2, <2>6, <3>1
      <4>3. CASE i # 1
        <5>1. r[i] = s[i - 1] /\ i - 1 \in 1..(n - 1) /\ k - 1 \in 1..(n - 1) /\ i - 1 < k - 1
          BY <4>1, <4>3, <2>6, <2>2, <3>2
        <5> QED BY <4>1, <5>1, <2>5 DEF Increasing
      <4> QED BY <4>2, <4>3
    <3> QED BY <3>2
  <2>9. Increasing(r)
    BY <2>7, <2>8 DEF Increasing
  <2> QED BY <1>3, <2>7, <2>9
<1> QED BY <1>4, <1>5

LEMMA SortedList ==
    ASSUME NEW S \in SUBSET Nat, IsFiniteSet(S)
    PROVE  /\ Cardinality(S) \in Nat
           /\ Sorted(S) \in [1..Cardinality(S) -> S]
           /\ \A x \in S : \E i \in 1..Cardinality(S) : Sorted(S)[i] = x
           /\ \A i, k \in 1..Cardinality(S) : Sorted(S)[i] = Sorted(S)[k] => i = k
<1> DEFINE n == Cardinality(S)
           s == Sorted(S)
<1>1. n \in Nat
  BY FS_CardinalityType
<1>2. s \in [1..n -> S] /\ Increasing(s)
  <2>1. \E r \in [1..n -> S] : \A i, k \in DOMAIN r : i < k => r[i] < r[k]
    BY Enumerable DEF Increasing
  <2> QED BY <2>1 DEF Sorted, Increasing
<1> HIDE DEF s
<1>3. \A i, k \in 1..n : s[i] = s[k] => i = k
  <2>1. \A i, k \in 1..n : i < k => s[i] < s[k]
    BY <1>2 DEF Increasing
  <2>2. \A i \in 1..n : s[i] \in Nat
    BY <1>2
  <2>3. \A i, k \in 1..n : i < k => s[i] # s[k]
    BY <2>1, <2>2
  <2> QED BY <1>1, <2>3
<1>4. s \in Injection(1..n, S)
  BY <1>2, <1>3 DEF Injection, IsInjective
<1>5. Cardinality(1..n) = n /\ IsFiniteSet(1..n)
  BY <1>1, FS_Interval
<1>6. s \in Surjection(1..n, S)
  BY <1>4, <1>5, FS_Injection
<1> QED BY <1>1, <1>2, <1>3, <1>6 DEF Surjection, s

-----------------------------------------------------------------------------
(* Where a plan leads. *)

\* The schemas a plan passes through, every statement finding what it speaks of.
Path(plan, h) ==
    /\ h \in [0..Len(plan) -> Schemas]
    /\ \A i \in 1..Len(plan) :
         Fits(plan[i], h[i - 1]) /\ h[i] = Executed(plan[i], h[i - 1])

Leads(plan, s, g) ==
    /\ plan \in Seq(Changes)
    /\ \E h : Path(plan, h) /\ h[0] = s /\ h[Len(plan)] = g

\* A path is what the model computes: the recursive function has no other value.
LEMMA CourseIsPath ==
    ASSUME NEW plan \in Seq(Changes), NEW h, Path(plan, h)
    PROVE  Course(plan, h[0]) = h
<1> DEFINE n == Len(plan)
           after(f) == [i \in 0..n |-> IF i = 0 THEN h[0] ELSE Executed(plan[i], f[i - 1])]
           f == CHOOSE g : g = after(g)
<1>1. n \in Nat
  OBVIOUS
<1>2. h = after(h)
  <2>1. h = [i \in 0..n |-> h[i]]
    BY DEF Path
  <2>2. \A i \in 0..n : h[i] = IF i = 0 THEN h[0] ELSE Executed(plan[i], h[i - 1])
    BY <1>1 DEF Path
  <2> QED BY <2>1, <2>2, Zenon
<1>3. f = after(f)
  BY <1>2
<1>4. Course(plan, h[0]) = f
  BY DEF Course
<1> HIDE DEF f
<1>5. \A i \in 0..n : f[i] = IF i = 0 THEN h[0] ELSE Executed(plan[i], f[i - 1])
  BY <1>3
<1>6. ASSUME NEW i \in 0..n, f[i] # h[i] PROVE FALSE
  <2> DEFINE D == {k \in 0..n : f[k] # h[k]}
  <2>1. D \subseteq Nat /\ D # {}
    BY <1>1, <1>6
  <2>2. PICK k \in D : \A m \in D : k <= m
    BY <2>1, LeastNumber
  <2>3. k # 0
    BY <1>5, <2>2
  <2>4. k - 1 \in 0..n /\ k - 1 \notin D /\ k \in 1..n
    BY <1>1, <2>2, <2>3
  <2>5. f[k - 1] = h[k - 1]
    BY <2>4
  <2> QED BY <1>5, <2>2, <2>4, <2>5 DEF Path
<1>7. f = h
  <2>1. f = [i \in 0..n |-> f[i]] /\ h = [i \in 0..n |-> h[i]]
    BY <1>3 DEF Path
  <2> QED BY <1>6, <2>1
<1> QED BY <1>4, <1>7

\* What the theorems need of a plan: the model passes through the schemas of the path.
LEMMA LeadsReached ==
    ASSUME NEW plan, NEW s, NEW g, Leads(plan, s, g)
    PROVE  /\ Reached(plan, 0, s) = s
           /\ \A i \in DOMAIN plan :
                /\ Fits(plan[i], Reached(plan, i - 1, s))
                /\ Reached(plan, i, s) = Executed(plan[i], Reached(plan, i - 1, s))
           /\ Reached(plan, Len(plan), s) = g
<1>1. PICK h : Path(plan, h) /\ h[0] = s /\ h[Len(plan)] = g
  BY DEF Leads
<1>2. Course(plan, s) = h /\ DOMAIN plan = 1..Len(plan)
  BY <1>1, CourseIsPath DEF Leads
<1> QED BY <1>1, <1>2 DEF Reached, Path

LEMMA LeadsNowhere ==
    ASSUME NEW s \in Schemas, NEW plan \in Seq(Changes), Len(plan) = 0
    PROVE  Leads(plan, s, s)
<1>1. Path(plan, [i \in 0..0 |-> s])
  BY DEF Path
<1> QED BY <1>1 DEF Leads

LEMMA LeadsOn ==
    ASSUME NEW a, NEW b, NEW s, NEW m, NEW g, Leads(a, s, m), Leads(b, m, g)
    PROVE  Leads(a \o b, s, g)
<1>1. PICK h : Path(a, h) /\ h[0] = s /\ h[Len(a)] = m
  BY DEF Leads
<1>2. PICK k : Path(b, k) /\ k[0] = m /\ k[Len(b)] = g
  BY DEF Leads
<1>3. /\ a \in Seq(Changes) /\ b \in Seq(Changes) /\ a \o b \in Seq(Changes)
      /\ Len(a) \in Nat /\ Len(b) \in Nat /\ Len(a \o b) = Len(a) + Len(b)
      /\ \A i \in 1..Len(a) : (a \o b)[i] = a[i]
      /\ \A i \in 1..Len(b) : (a \o b)[Len(a) + i] = b[i]
  BY ConcatProperties DEF Leads
<1> DEFINE all == [i \in 0..(Len(a) + Len(b)) |-> IF i <= Len(a) THEN h[i] ELSE k[i - Len(a)]]
<1>4. /\ \A i \in 0..Len(a) : all[i] = h[i]
      /\ \A i \in 0..Len(b) : all[Len(a) + i] = k[i]
  <2>1. \A i \in 0..Len(a) : all[i] = h[i]
    BY <1>3
  <2>2. all[Len(a) + 0] = k[0]
    BY <1>1, <1>2, <1>3
  <2>3. ASSUME NEW i \in 1..Len(b) PROVE all[Len(a) + i] = k[i]
    <3>1. Len(a) + i \in 0..(Len(a) + Len(b)) /\ ~(Len(a) + i <= Len(a)) /\ (Len(a) + i) - Len(a) = i
      BY <1>3
    <3> QED BY <3>1
  <2>4. \A i \in 0..Len(b) : i = 0 \/ i \in 1..Len(b)
    BY <1>3
  <2> QED BY <2>1, <2>2, <2>3, <2>4
<1>5. all \in [0..(Len(a) + Len(b)) -> Schemas]
  BY <1>1, <1>2, <1>3 DEF Path
<1>6. ASSUME NEW i \in 1..(Len(a) + Len(b))
      PROVE  /\ Fits((a \o b)[i], all[i - 1])
             /\ all[i] = Executed((a \o b)[i], all[i - 1])
  <2> HIDE DEF all
  <2>1. CASE i <= Len(a)
    <3>1. i \in 1..Len(a) /\ i \in 0..Len(a) /\ i - 1 \in 0..Len(a)
      BY <1>3, <2>1
    <3> QED BY <1>1, <1>3, <1>4, <3>1 DEF Path
  <2>2. CASE ~(i <= Len(a))
    <3>1. PICK j \in 1..Len(b) : i = Len(a) + j
      <4>1. i - Len(a) \in 1..Len(b) /\ i = Len(a) + (i - Len(a))
        BY <1>3, <2>2
      <4> QED BY <4>1
    <3>2. j - 1 \in 0..Len(b) /\ j \in 0..Len(b) /\ i - 1 = Len(a) + (j - 1)
      BY <1>3, <3>1
    <3> QED BY <1>2, <1>3, <1>4, <3>1, <3>2 DEF Path
  <2> QED BY <2>1, <2>2
<1>7. all[0] = s /\ all[Len(a) + Len(b)] = g
  BY <1>1, <1>2, <1>3, <1>4
<1> HIDE DEF all
<1>8. Path(a \o b, all)
  BY <1>3, <1>5, <1>6 DEF Path
<1> QED BY <1>3, <1>7, <1>8 DEF Leads

-----------------------------------------------------------------------------
(* The changes of one table. *)

\* The first i elements of a list.
UpTo(q, i) == {q[k] : k \in 1..i}

LEMMA SortedParts ==
    ASSUME NEW S \in SUBSET Nat, IsFiniteSet(S)
    PROVE  /\ Len(Sorted(S)) = Cardinality(S) /\ DOMAIN Sorted(S) = 1..Cardinality(S)
           /\ Cardinality(S) \in Nat
           /\ UpTo(Sorted(S), 0) = {} /\ UpTo(Sorted(S), Cardinality(S)) = S
           /\ \A i \in 1..Cardinality(S) :
                /\ Sorted(S)[i] \in S \ UpTo(Sorted(S), i - 1)
                /\ UpTo(Sorted(S), i) = UpTo(Sorted(S), i - 1) \cup {Sorted(S)[i]}
                /\ i - 1 \in 0..Cardinality(S) /\ i \in 0..Cardinality(S)
           /\ \A i \in 0..Cardinality(S) : UpTo(Sorted(S), i) \subseteq S
<1> DEFINE n == Cardinality(S)
           q == Sorted(S)
<1>1. /\ n \in Nat /\ q \in [1..n -> S]
      /\ \A x \in S : \E i \in 1..n : q[i] = x
      /\ \A i, k \in 1..n : q[i] = q[k] => i = k
  BY SortedList
<1> HIDE DEF n, q
<1>2. Len(q) = n /\ DOMAIN q = 1..n
  <2>1. q \in Seq(S)
    BY <1>1
  <2> QED BY <1>1, <2>1
<1>3. UpTo(q, 0) = {} /\ UpTo(q, n) = S
  <2>1. 1..0 = {}
    OBVIOUS
  <2>2. UpTo(q, 0) = {}
    BY <2>1 DEF UpTo
  <2>3. UpTo(q, n) \subseteq S
    BY <1>1 DEF UpTo
  <2>4. S \subseteq UpTo(q, n)
    BY <1>1 DEF UpTo
  <2> QED BY <2>2, <2>3, <2>4
<1>4. ASSUME NEW i \in 1..n
      PROVE  /\ q[i] \in S \ UpTo(q, i - 1)
             /\ UpTo(q, i) = UpTo(q, i - 1) \cup {q[i]}
             /\ i - 1 \in 0..n /\ i \in 0..n
  <2>1. 1..i = 1..(i - 1) \cup {i} /\ i \notin 1..(i - 1) /\ 1..(i - 1) \subseteq 1..n
    BY <1>1
  <2> QED BY <1>1, <2>1 DEF UpTo
<1>5. \A i \in 0..n : UpTo(q, i) \subseteq S
  BY <1>1 DEF UpTo
<1> QED BY <1>1, <1>2, <1>3, <1>4, <1>5 DEF n, q

LEMMA ExecutedCreate ==
    ASSUME NEW s \in Schemas, NEW t \in Tables, NEW columns
    PROVE  Executed(Statement("create", t, columns), s) = [s EXCEPT ![t] = columns]
BY DEF Executed, Statement

LEMMA ExecutedAdd ==
    ASSUME NEW s \in Schemas, NEW t \in Tables, NEW columns
    PROVE  Executed(Statement("add", t, columns), s) = [s EXCEPT ![t] = Overlaid(columns, s[t])]
<1> DEFINE stmt == Statement("add", t, columns)
<1>1. stmt.action = "add" /\ stmt.table = t /\ stmt.columns = columns
  BY DEF Statement
<1> HIDE DEF stmt
<1>2. Executed(stmt, s) = [s EXCEPT ![t] = Overlaid(columns, s[t])]
  BY <1>1, ExecutedMade DEF Made
<1> QED BY <1>2 DEF stmt

LEMMA ExecutedModify ==
    ASSUME NEW s \in Schemas, NEW t \in Tables, NEW columns
    PROVE  Executed(Statement("modify", t, columns), s) = [s EXCEPT ![t] = Retyped(columns, s[t])]
<1> DEFINE stmt == Statement("modify", t, columns)
<1>1. stmt.action = "modify" /\ stmt.table = t /\ stmt.columns = columns
  BY DEF Statement
<1> HIDE DEF stmt
<1>2. Executed(stmt, s) = [s EXCEPT ![t] = Retyped(columns, s[t])]
  BY <1>1, ExecutedMade DEF Made
<1> QED BY <1>2 DEF stmt

LEMMA ExecutedDrop ==
    ASSUME NEW s \in Schemas, NEW t \in Tables, NEW columns
    PROVE  Executed(Statement("dropColumn", t, columns), s) =
             [s EXCEPT ![t] = [c \in DOMAIN s[t] \ DOMAIN columns |-> s[t][c]]]
<1> DEFINE stmt == Statement("dropColumn", t, columns)
<1>1. stmt.action = "dropColumn" /\ stmt.table = t /\ stmt.columns = columns /\ t \in DOMAIN s
  BY DEF Statement, Schemas
<1> HIDE DEF stmt
<1>2. Executed(stmt, s) = [s EXCEPT ![t] = [c \in DOMAIN s[t] \ DOMAIN columns |-> s[t][c]]]
  BY <1>1 DEF Executed
<1> QED BY <1>2 DEF stmt

LEMMA ExecutedDropTable ==
    ASSUME NEW s \in Schemas, NEW t \in Tables, NEW columns
    PROVE  Executed(Statement("dropTable", t, columns), s) = [s EXCEPT ![t] = Absent]
BY DEF Executed, Statement

\* The columns that a table must get and lose.
Differing(t, current, desired) ==
    {c \in DOMAIN desired[t] : c \notin DOMAIN current[t] \/ current[t][c].type # desired[t][c].type}
Extra(t, current, desired) == DOMAIN current[t] \ DOMAIN desired[t]

Alters(t, current, desired) ==
    LET q == Sorted(Differing(t, current, desired))
    IN  [i \in DOMAIN q |->
           Statement(IF q[i] \in DOMAIN current[t] THEN "modify" ELSE "add", t,
                     One(q[i], desired[t][q[i]]))]
Drops(t, current, desired) ==
    LET q == Sorted(Extra(t, current, desired))
    IN  [i \in DOMAIN q |-> Statement("dropColumn", t, One(q[i], current[t][q[i]]))]

LEMMA ChangesForm ==
    ASSUME NEW t, NEW current, NEW desired
    PROVE  TableChanges(t, current, desired) =
             IF current[t] = Absent THEN <<Statement("create", t, desired[t])>>
             ELSE Alters(t, current, desired) \o Drops(t, current, desired)
BY DEF TableChanges, Alters, Drops, Differing, Extra

LEMMA ColumnSets ==
    ASSUME NEW t \in Tables, NEW current \in Schemas, NEW desired \in Schemas
    PROVE  /\ current[t] \in Definitions /\ desired[t] \in Definitions
           /\ DOMAIN current[t] \subseteq Columns /\ DOMAIN desired[t] \subseteq Columns
           /\ current[t] \in [DOMAIN current[t] -> Fields]
           /\ desired[t] \in [DOMAIN desired[t] -> Fields]
           /\ Differing(t, current, desired) \in SUBSET Nat
           /\ IsFiniteSet(Differing(t, current, desired))
           /\ Extra(t, current, desired) \in SUBSET Nat
           /\ IsFiniteSet(Extra(t, current, desired))
<1>1. current[t] \in Definitions /\ desired[t] \in Definitions
  BY DEF Schemas
<1>2. /\ DOMAIN current[t] \subseteq Columns /\ DOMAIN desired[t] \subseteq Columns
      /\ current[t] \in [DOMAIN current[t] -> Fields] /\ desired[t] \in [DOMAIN desired[t] -> Fields]
  BY <1>1, DefinitionParts
<1>3. Differing(t, current, desired) \subseteq Columns /\ Extra(t, current, desired) \subseteq Columns
  BY <1>2 DEF Differing, Extra
<1> QED BY <1>1, <1>2, <1>3, FS_Subset, ExecutionAssumption

LEMMA OneColumn ==
    ASSUME NEW c \in Columns, NEW type \in Fields
    PROVE  One(c, type) \in Definitions /\ DOMAIN One(c, type) = {c} /\ One(c, type)[c] = type
<1>1. One(c, type) \in [{c} -> Fields]
  BY DEF One
<1>2. {c} \subseteq Columns
  OBVIOUS
<1> QED BY <1>1, <1>2, DefinitionForm DEF One

LEMMA PresentTable ==
    ASSUME NEW d \in Definitions
    PROVE  d = Absent <=> DOMAIN d = {}
<1>1. d \in [DOMAIN d -> Fields]
  BY DefinitionParts
<1>2. Absent \in [{} -> Fields]
  BY DEF Absent
<1>3. ASSUME DOMAIN d = {} PROVE d = Absent
  <2>1. d \in [{} -> Fields]
    BY <1>1, <1>3
  <2> QED BY <2>1, <1>2
<1>4. DOMAIN Absent = {}
  BY <1>2
<1> QED BY <1>3, <1>4

\* A table that keeps its details is a table, and one that is not there has none.
LEMMA ConformedType ==
    ASSUME NEW old \in Definitions, NEW d \in Definitions
    PROVE  /\ Conformed(old, d) \in Definitions /\ DOMAIN Conformed(old, d) = DOMAIN d
           /\ old = Absent => Conformed(old, d) = d
           /\ d = Absent <=> Conformed(old, d) = Absent
<1>1. /\ old \in [DOMAIN old -> Fields] /\ d \in [DOMAIN d -> Fields] /\ DOMAIN d \subseteq Columns
  BY DefinitionParts
<1>2. ASSUME NEW c \in DOMAIN d, c \in DOMAIN old
      PROVE  [type |-> d[c].type, detail |-> old[c].detail] \in Fields
  BY <1>1, <1>2 DEF Fields
<1>3. Conformed(old, d) \in [DOMAIN d -> Fields]
  BY <1>1, <1>2 DEF Conformed
<1>4. Conformed(old, d) \in Definitions
  BY <1>1, <1>3, DefinitionForm
<1>5. DOMAIN Conformed(old, d) = DOMAIN d
  BY DEF Conformed
<1>6. ASSUME old = Absent PROVE Conformed(old, d) = d
  <2>1. DOMAIN old = {}
    BY <1>6, PresentTable
  <2>2. Conformed(old, d) = [c \in DOMAIN d |-> d[c]]
    BY <2>1 DEF Conformed
  <2> QED BY <1>1, <2>2
<1>7. d = Absent <=> Conformed(old, d) = Absent
  BY <1>4, <1>5, PresentTable
<1> QED BY <1>4, <1>5, <1>6, <1>7

\* The columns added or retyped, in their order, over what the table has.
LEMMA AltersLead ==
    ASSUME NEW t \in Tables, NEW current \in Schemas, NEW desired \in Schemas, NEW s \in Schemas,
           current[t] # Absent, s[t] = current[t]
    PROVE  Leads(Alters(t, current, desired), s,
                 [s EXCEPT ![t] = Overlaid(Conformed(current[t], desired[t]), current[t])])
<1> DEFINE S == Differing(t, current, desired)
           n == Cardinality(S)
           q == Sorted(S)
           old == current[t]
           wanted == desired[t]
           new == Conformed(old, wanted)
           plan == Alters(t, current, desired)
           part(i) == [c \in UpTo(q, i) |-> new[c]]
           h == [i \in 0..n |-> [s EXCEPT ![t] = Overlaid(part(i), old)]]
<1>1. /\ old \in Definitions /\ new \in Definitions /\ DOMAIN old \subseteq Columns
      /\ DOMAIN new \subseteq Columns /\ old \in [DOMAIN old -> Fields] /\ new \in [DOMAIN new -> Fields]
      /\ S \in SUBSET Nat /\ IsFiniteSet(S) /\ DOMAIN old # {}
      /\ DOMAIN wanted = DOMAIN new /\ wanted \in [DOMAIN new -> Fields]
  BY ColumnSets, PresentTable, ConformedType, DefinitionParts
<1>2. /\ Len(q) = n /\ DOMAIN q = 1..n /\ n \in Nat
      /\ UpTo(q, 0) = {} /\ UpTo(q, n) = S
      /\ \A i \in 1..n :
           /\ q[i] \in S \ UpTo(q, i - 1) /\ UpTo(q, i) = UpTo(q, i - 1) \cup {q[i]}
           /\ i - 1 \in 0..n /\ i \in 0..n
      /\ \A i \in 0..n : UpTo(q, i) \subseteq S
  BY <1>1, SortedParts
<1>3. /\ S \subseteq DOMAIN new
      /\ \A c \in DOMAIN new :
           /\ c \in DOMAIN old =>
                new[c] = [type |-> wanted[c].type, detail |-> old[c].detail]
           /\ c \notin DOMAIN old => new[c] = wanted[c]
  BY <1>1 DEF Differing, Conformed
<1>4. ASSUME NEW i \in 1..n
      PROVE  plan[i] = Statement(IF q[i] \in DOMAIN old THEN "modify" ELSE "add", t,
                                 One(q[i], wanted[q[i]]))
  BY <1>2 DEF Alters
<1>5. DOMAIN plan = 1..n /\ plan = [i \in 1..n |-> plan[i]]
  BY <1>2 DEF Alters
<1>6. \A c, d \in S : c \in DOMAIN old \/ c \notin DOMAIN old
  OBVIOUS
<1> HIDE DEF plan, q, n, new
<1>7. ASSUME NEW i \in 1..n PROVE plan[i] \in Changes
  <2>1. q[i] \in Columns /\ wanted[q[i]] \in Fields
    BY <1>1, <1>2, <1>3
  <2>2. One(q[i], wanted[q[i]]) \in Definitions
    BY <2>1, OneColumn
  <2>3. PICK a \in {"add", "modify"} : plan[i] = Statement(a, t, One(q[i], wanted[q[i]]))
    BY <1>4
  <2> QED BY <2>2, <2>3 DEF Statement, Changes
<1>8. plan \in Seq(Changes) /\ Len(plan) = n
  <2>1. plan \in [1..n -> Changes]
    BY <1>5, <1>7
  <2> QED BY <1>2, <2>1
<1>9. ASSUME NEW i \in 0..n
      PROVE  /\ DOMAIN part(i) = UpTo(q, i) /\ Overlaid(part(i), old) \in Definitions
             /\ DOMAIN Overlaid(part(i), old) = UpTo(q, i) \cup DOMAIN old
             /\ h[i] \in Schemas /\ h[i][t] = Overlaid(part(i), old)
  <2>1. UpTo(q, i) \subseteq DOMAIN new
    BY <1>2, <1>3
  <2>2. Overlaid(part(i), old) \in [UpTo(q, i) \cup DOMAIN old -> Fields]
    BY <1>1, <2>1 DEF Overlaid
  <2>3. UpTo(q, i) \cup DOMAIN old \subseteq Columns
    BY <1>1, <2>1
  <2>4. Overlaid(part(i), old) \in Definitions
    BY <2>2, <2>3, DefinitionForm
  <2>5. DOMAIN Overlaid(part(i), old) = UpTo(q, i) \cup DOMAIN old
    BY <2>2
  <2> HIDE DEF part
  <2>6. h[i] = [s EXCEPT ![t] = Overlaid(part(i), old)]
    OBVIOUS
  <2>7. h[i] \in Schemas /\ h[i][t] = Overlaid(part(i), old)
    BY <2>4, <2>6 DEF Schemas
  <2>8. DOMAIN part(i) = UpTo(q, i)
    BY DEF part
  <2> QED BY <2>4, <2>5, <2>7, <2>8
<1>10. ASSUME NEW i \in 1..n
       PROVE  Fits(plan[i], h[i - 1]) /\ h[i] = Executed(plan[i], h[i - 1])
  <2> DEFINE c == q[i]
             action == IF c \in DOMAIN old THEN "modify" ELSE "add"
             stmt == Statement(action, t, One(c, wanted[c]))
             before == h[i - 1]
  <2>1. /\ c \in S \ UpTo(q, i - 1) /\ UpTo(q, i) = UpTo(q, i - 1) \cup {c}
        /\ i - 1 \in 0..n /\ i \in 0..n
        /\ c \in Columns /\ wanted[c] \in Fields /\ new[c] \in Fields /\ c \in DOMAIN new
    BY <1>1, <1>2, <1>3
  <2>2. plan[i] = stmt
    BY <1>4
  <2>3. /\ DOMAIN One(c, new[c]) = {c} /\ One(c, new[c])[c] = new[c]
        /\ DOMAIN One(c, wanted[c]) = {c} /\ One(c, wanted[c])[c] = wanted[c]
    BY <2>1, OneColumn
  <2>4. /\ before \in Schemas /\ before[t] = Overlaid(part(i - 1), old)
        /\ DOMAIN before[t] = UpTo(q, i - 1) \cup DOMAIN old
    BY <1>9, <2>1
  <2>5. Overlaid(part(i), old) = Overlaid(One(c, new[c]), Overlaid(part(i - 1), old))
    BY <1>9, <2>1, <2>3 DEF Overlaid
  <2>6. h[i] = [before EXCEPT ![t] = Overlaid(part(i), old)]
    BY <2>1 DEF Schemas
  <2>7. c \in DOMAIN old => before[t][c] = old[c]
    BY <1>9, <2>1, <2>4 DEF Overlaid
  <2> HIDE DEF before, part, c
  <2>8. Executed(stmt, before) = [before EXCEPT ![t] = Overlaid(One(c, new[c]), before[t])]
    <3>1. CASE c \in DOMAIN old
      <4>1. stmt = Statement("modify", t, One(c, wanted[c]))
        BY <3>1
      <4>2. Retyped(One(c, wanted[c]), before[t]) = Overlaid(One(c, new[c]), before[t])
        <5>1. DOMAIN before[t] \cup {c} = DOMAIN before[t]
          BY <2>4, <3>1
        <5>2. new[c] = [type |-> wanted[c].type, detail |-> before[t][c].detail]
          BY <1>3, <2>1, <2>7, <3>1
        <5> QED BY <2>3, <5>1, <5>2 DEF Retyped, Overlaid
      <4> HIDE DEF stmt
      <4> QED BY <2>4, <4>1, <4>2, ExecutedModify
    <3>2. CASE c \notin DOMAIN old
      <4>1. stmt = Statement("add", t, One(c, new[c]))
        BY <1>3, <2>1, <3>2
      <4> HIDE DEF stmt
      <4> QED BY <2>4, <4>1, ExecutedAdd
    <3> QED BY <3>1, <3>2
  <2>9. Fits(stmt, before)
    <3>1. CASE c \in DOMAIN old
      BY <2>3, <2>4, <3>1 DEF Fits, Statement
    <3>2. CASE c \notin DOMAIN old
      <4>1. before[t] # Absent
        BY <1>1, <2>4, PresentTable DEF Schemas
      <4> QED BY <2>1, <2>3, <2>4, <3>2, <4>1 DEF Fits, Statement
    <3> QED BY <3>1, <3>2
  <2>10. Executed(stmt, before) = h[i]
    BY <2>4, <2>5, <2>6, <2>8
  <2> HIDE DEF stmt, h
  <2> QED BY <2>2, <2>9, <2>10 DEF before
<1>11. Path(plan, h)
  <2>1. h \in [0..n -> Schemas]
    BY <1>9
  <2> HIDE DEF h
  <2> QED BY <1>8, <1>10, <2>1 DEF Path
<1>12. h[0] = s
  <2>1. Overlaid(part(0), old) = old
    BY <1>1, <1>2 DEF Overlaid
  <2> QED BY <1>2, <2>1 DEF Schemas
<1>13. h[n] = [s EXCEPT ![t] = Overlaid(new, old)]
  <2>0. \A c \in DOMAIN new \ S : c \in DOMAIN old /\ new[c] = old[c]
    <3>1. ASSUME NEW c \in DOMAIN new \ S PROVE c \in DOMAIN old /\ new[c] = old[c]
      <4>1. c \in DOMAIN old /\ old[c].type = wanted[c].type
        BY <1>1 DEF Differing
      <4>2. old[c] \in Fields
        BY <1>1, <4>1
      <4> QED BY <1>3, <4>1, <4>2 DEF Fields
    <3> QED BY <3>1
  <2>1. Overlaid(part(n), old) = Overlaid(new, old)
    BY <1>1, <1>2, <1>3, <2>0 DEF Overlaid
  <2>2. n \in 0..n
    BY <1>2
  <2> HIDE DEF part
  <2> QED BY <2>1, <2>2
<1> QED BY <1>8, <1>11, <1>12, <1>13 DEF Leads, plan, new

\* The columns dropped after that.
LEMMA DropsLead ==
    ASSUME NEW t \in Tables, NEW current \in Schemas, NEW desired \in Schemas, NEW s \in Schemas,
           desired[t] # Absent, s[t] = Overlaid(Conformed(current[t], desired[t]), current[t])
    PROVE  Leads(Drops(t, current, desired), s,
                 [s EXCEPT ![t] = Conformed(current[t], desired[t])])
<1> DEFINE S == Extra(t, current, desired)
           n == Cardinality(S)
           q == Sorted(S)
           old == current[t]
           new == Conformed(old, desired[t])
           full == s[t]
           plan == Drops(t, current, desired)
           left(i) == [c \in DOMAIN full \ UpTo(q, i) |-> full[c]]
           h == [i \in 0..n |-> [s EXCEPT ![t] = left(i)]]
<1>1. /\ old \in Definitions /\ new \in Definitions /\ DOMAIN old \subseteq Columns
      /\ DOMAIN new \subseteq Columns /\ old \in [DOMAIN old -> Fields] /\ new \in [DOMAIN new -> Fields]
      /\ S \in SUBSET Nat /\ IsFiniteSet(S) /\ DOMAIN new # {} /\ DOMAIN new = DOMAIN desired[t]
  BY ColumnSets, PresentTable, ConformedType, DefinitionParts
<1>2. /\ Len(q) = n /\ DOMAIN q = 1..n /\ n \in Nat
      /\ UpTo(q, 0) = {} /\ UpTo(q, n) = S
      /\ \A i \in 1..n :
           /\ q[i] \in S \ UpTo(q, i - 1) /\ UpTo(q, i) = UpTo(q, i - 1) \cup {q[i]}
           /\ i - 1 \in 0..n /\ i \in 0..n
      /\ \A i \in 0..n : UpTo(q, i) \subseteq S
  BY <1>1, SortedParts
<1>3. S = DOMAIN old \ DOMAIN new
  BY <1>1 DEF Extra
<1>4. /\ DOMAIN full = DOMAIN new \cup DOMAIN old /\ full \in [DOMAIN full -> Fields]
      /\ DOMAIN full \subseteq Columns /\ \A c \in DOMAIN new : full[c] = new[c]
  BY <1>1 DEF Overlaid
<1>5. ASSUME NEW i \in 1..n PROVE plan[i] = Statement("dropColumn", t, One(q[i], old[q[i]]))
  BY <1>2 DEF Drops
<1>6. DOMAIN plan = 1..n /\ plan = [i \in 1..n |-> plan[i]]
  BY <1>2 DEF Drops
<1> HIDE DEF plan, q, n, full, new
<1>7. ASSUME NEW i \in 1..n PROVE plan[i] \in Changes
  <2>1. q[i] \in Columns /\ old[q[i]] \in Fields
    BY <1>1, <1>2, <1>3
  <2>2. One(q[i], old[q[i]]) \in Definitions
    BY <2>1, OneColumn
  <2>3. plan[i] = Statement("dropColumn", t, One(q[i], old[q[i]]))
    BY <1>5
  <2> QED BY <2>2, <2>3 DEF Statement, Changes
<1>8. plan \in Seq(Changes) /\ Len(plan) = n
  <2>1. plan \in [1..n -> Changes]
    BY <1>6, <1>7
  <2> QED BY <1>2, <2>1
<1>9. ASSUME NEW i \in 0..n
      PROVE  /\ DOMAIN left(i) = DOMAIN full \ UpTo(q, i)
             /\ h[i] \in Schemas /\ h[i][t] = left(i)
  <2>1. left(i) \in [DOMAIN full \ UpTo(q, i) -> Fields]
    BY <1>4
  <2>2. DOMAIN full \ UpTo(q, i) \subseteq Columns
    BY <1>4
  <2>3. left(i) \in Definitions
    BY <2>1, <2>2, DefinitionForm
  <2>4. DOMAIN left(i) = DOMAIN full \ UpTo(q, i)
    BY <2>1
  <2> HIDE DEF left
  <2>5. h[i] = [s EXCEPT ![t] = left(i)]
    OBVIOUS
  <2>6. h[i] \in Schemas /\ h[i][t] = left(i)
    BY <2>3, <2>5 DEF Schemas
  <2> QED BY <2>4, <2>6
<1>10. ASSUME NEW i \in 1..n
       PROVE  Fits(plan[i], h[i - 1]) /\ h[i] = Executed(plan[i], h[i - 1])
  <2> DEFINE c == q[i]
             stmt == Statement("dropColumn", t, One(c, old[c]))
  <2>1. /\ c \in S \ UpTo(q, i - 1) /\ UpTo(q, i) = UpTo(q, i - 1) \cup {c}
        /\ i - 1 \in 0..n /\ i \in 0..n
        /\ c \in Columns /\ old[c] \in Fields
    BY <1>1, <1>2, <1>3
  <2>2. plan[i] = stmt
    BY <1>5
  <2>3. DOMAIN One(c, old[c]) = {c}
    BY <2>1, OneColumn
  <2>4. /\ h[i - 1] \in Schemas /\ h[i - 1][t] = left(i - 1)
        /\ DOMAIN left(i - 1) = DOMAIN full \ UpTo(q, i - 1)
    BY <1>9, <2>1
  <2>5. left(i) = [d \in DOMAIN left(i - 1) \ {c} |-> left(i - 1)[d]]
    BY <2>1, <2>4
  <2>6. h[i] = [h[i - 1] EXCEPT ![t] = left(i)]
    BY <2>1 DEF Schemas
  <2>7. {c} \subseteq DOMAIN left(i - 1) /\ {c} # DOMAIN left(i - 1)
    <3>1. PICK d \in DOMAIN new : TRUE
      BY <1>1
    <3>2. d \in DOMAIN left(i - 1) /\ d # c
      BY <1>2, <1>3, <1>4, <2>1, <2>4
    <3> QED BY <1>3, <1>4, <2>1, <2>4, <3>2
  <2> HIDE DEF h, left, c
  <2>8. Executed(stmt, h[i - 1]) =
          [h[i - 1] EXCEPT ![t] =
             [d \in DOMAIN h[i - 1][t] \ DOMAIN One(c, old[c]) |-> h[i - 1][t][d]]]
    <3> DEFINE w == h[i - 1]
               columns == One(c, old[c])
    <3>1. w \in Schemas
      BY <2>4
    <3> HIDE DEF w, columns
    <3>2. Executed(Statement("dropColumn", t, columns), w) =
            [w EXCEPT ![t] = [d \in DOMAIN w[t] \ DOMAIN columns |-> w[t][d]]]
      BY <3>1, ExecutedDrop
    <3> QED BY <3>2 DEF w, columns
  <2>9. Fits(stmt, h[i - 1])
    BY <2>3, <2>4, <2>7 DEF Fits, Statement
  <2> QED BY <2>2, <2>3, <2>4, <2>5, <2>6, <2>8, <2>9
<1>11. Path(plan, h)
  <2>1. h \in [0..n -> Schemas]
    BY <1>9
  <2> HIDE DEF h
  <2> QED BY <1>8, <1>10, <2>1 DEF Path
<1>12. h[0] = s
  <2>1. left(0) = full
    BY <1>2, <1>4
  <2> QED BY <1>2, <2>1 DEF Schemas, full
<1>13. h[n] = [s EXCEPT ![t] = new]
  <2>1. left(n) = new
    BY <1>1, <1>2, <1>3, <1>4
  <2>2. n \in 0..n
    BY <1>2
  <2> HIDE DEF left
  <2> QED BY <2>1, <2>2
<1> QED BY <1>8, <1>11, <1>12, <1>13 DEF Leads, plan, new

LEMMA CreateLeads ==
    ASSUME NEW t \in Tables, NEW d \in Definitions, NEW s \in Schemas, s[t] = Absent
    PROVE  Leads(<<Statement("create", t, d)>>, s, [s EXCEPT ![t] = d])
<1> DEFINE stmt == Statement("create", t, d)
           g == [s EXCEPT ![t] = d]
           h == [i \in 0..1 |-> IF i = 0 THEN s ELSE g]
<1>1. stmt \in Changes
  BY DEF Statement, Changes
<1>2. Executed(stmt, s) = g /\ Fits(stmt, s)
  <2>1. Executed(stmt, s) = g
    BY ExecutedCreate
  <2>2. Fits(stmt, s)
    BY DEF Fits, Statement
  <2> QED BY <2>1, <2>2
<1>3. g \in Schemas
  BY DEF Schemas
<1> HIDE DEF stmt, g
<1>4. <<stmt>> \in Seq(Changes) /\ Len(<<stmt>>) = 1 /\ <<stmt>>[1] = stmt
  BY <1>1
<1>5. h \in [0..1 -> Schemas] /\ h[0] = s /\ h[1] = g
  BY <1>3
<1> HIDE DEF h
<1>6. Path(<<stmt>>, h)
  <2>1. \A i \in 1..1 : i = 1 /\ i - 1 = 0
    OBVIOUS
  <2> QED BY <1>2, <1>4, <1>5, <2>1 DEF Path
<1> QED BY <1>4, <1>5, <1>6 DEF Leads, stmt, g

\* What the planner writes for a table that is to be there.
Planned(stmt, current, desired) ==
    LET t == stmt.table
    IN  /\ t \in Present(desired) /\ stmt.action # "dropTable"
        /\ stmt.action = "create" => current[t] = Absent /\ stmt.columns = desired[t]
        /\ stmt.action = "add" =>
              /\ current[t] # Absent
              /\ \E c \in DOMAIN desired[t] \ DOMAIN current[t] :
                   stmt.columns = One(c, desired[t][c])

\* A table that is to be there becomes what it is to be, by statements that name it alone and
\* drop no table, at most one for each column and one for the table.
LEMMA TableLeads ==
    ASSUME NEW t \in Tables, NEW current \in Schemas, NEW desired \in Schemas, NEW s \in Schemas,
           desired[t] # Absent, s[t] = current[t]
    PROVE  /\ Leads(TableChanges(t, current, desired), s,
                    [s EXCEPT ![t] = Conformed(current[t], desired[t])])
           /\ \A i \in DOMAIN TableChanges(t, current, desired) :
                /\ TableChanges(t, current, desired)[i].table = t
                /\ Planned(TableChanges(t, current, desired)[i], current, desired)
           /\ Len(TableChanges(t, current, desired)) <= Cardinality(Columns) + 1
<1> DEFINE a == Alters(t, current, desired)
           b == Drops(t, current, desired)
           new == Conformed(current[t], desired[t])
           m == [s EXCEPT ![t] = Overlaid(new, current[t])]
           A == Differing(t, current, desired)
           B == Extra(t, current, desired)
<1>1. /\ current[t] \in Definitions /\ desired[t] \in Definitions
      /\ DOMAIN current[t] \subseteq Columns /\ DOMAIN desired[t] \subseteq Columns
      /\ A \in SUBSET Nat /\ IsFiniteSet(A) /\ B \in SUBSET Nat /\ IsFiniteSet(B)
      /\ Cardinality(Columns) \in Nat /\ t \in Present(desired)
      /\ new \in Definitions /\ (current[t] = Absent => new = desired[t])
  BY ColumnSets, ConformedType, FS_CardinalityType, ExecutionAssumption DEF Present
<1> HIDE DEF new
<1>2. CASE current[t] = Absent
  <2>1. TableChanges(t, current, desired) = <<Statement("create", t, desired[t])>>
    BY <1>2, ChangesForm
  <2>2. Planned(Statement("create", t, desired[t]), current, desired)
    BY <1>1, <1>2 DEF Planned, Statement
  <2>3. Leads(<<Statement("create", t, desired[t])>>, s, [s EXCEPT ![t] = new])
    BY <1>1, <1>2, CreateLeads
  <2>4. Statement("create", t, desired[t]).table = t
    BY DEF Statement
  <2> HIDE DEF Planned
  <2> QED BY <1>1, <2>1, <2>2, <2>3, <2>4 DEF new
<1>3. CASE current[t] # Absent
  <2>1. TableChanges(t, current, desired) = a \o b
    BY <1>3, ChangesForm
  <2>2. Leads(a, s, m)
    BY <1>3, AltersLead DEF new
  <2>3. m \in Schemas /\ m[t] = Overlaid(new, current[t]) /\
        [m EXCEPT ![t] = new] = [s EXCEPT ![t] = new]
    <3>0. DOMAIN new \subseteq Columns /\ new \in [DOMAIN new -> Fields]
      BY <1>1, DefinitionParts
    <3>1. Overlaid(new, current[t]) \in [DOMAIN new \cup DOMAIN current[t] -> Fields]
      BY <3>0, ColumnSets DEF Overlaid
    <3>2. Overlaid(new, current[t]) \in Definitions
      BY <1>1, <3>0, <3>1, DefinitionForm
    <3> QED BY <3>2 DEF Schemas
  <2> HIDE DEF m
  <2>4. Leads(b, m, [s EXCEPT ![t] = new])
    BY <2>3, DropsLead DEF new
  <2>5. Leads(a \o b, s, [s EXCEPT ![t] = new])
    BY <2>2, <2>4, LeadsOn
  <2>6. /\ a \in Seq(Changes) /\ b \in Seq(Changes)
        /\ Len(a) = Cardinality(A) /\ Len(b) = Cardinality(B)
        /\ \A i \in 1..Len(a) : a[i].table = t /\ Planned(a[i], current, desired)
        /\ \A i \in 1..Len(b) : b[i].table = t /\ Planned(b[i], current, desired)
    <3>1. a \in Seq(Changes) /\ b \in Seq(Changes)
      BY <2>2, <2>4 DEF Leads
    <3>2. DOMAIN Sorted(A) = 1..Cardinality(A) /\ DOMAIN Sorted(B) = 1..Cardinality(B)
          /\ Cardinality(A) \in Nat /\ Cardinality(B) \in Nat
      BY <1>1, SortedParts
    <3>3. DOMAIN a = 1..Cardinality(A) /\ DOMAIN b = 1..Cardinality(B)
      BY <3>2 DEF Alters, Drops
    <3>4. Len(a) = Cardinality(A) /\ Len(b) = Cardinality(B)
      <4> HIDE DEF a, b, A, B
      <4> QED BY <3>1, <3>2, <3>3
    <3>5. ASSUME NEW i \in DOMAIN a PROVE a[i].table = t /\ Planned(a[i], current, desired)
      <4> DEFINE c == Sorted(A)[i]
      <4>1. a[i] = Statement(IF c \in DOMAIN current[t] THEN "modify" ELSE "add", t,
                             One(c, desired[t][c]))
        BY <3>5, <3>2, <3>3 DEF Alters
      <4>2. c \in DOMAIN desired[t]
        <5>1. Sorted(A)[i] \in A
          BY <1>1, <3>3, <3>5, SortedList
        <5> QED BY <5>1 DEF Differing
      <4> HIDE DEF a, c
      <4>3. CASE c \in DOMAIN current[t]
        <5>1. a[i].table = t /\ a[i].action = "modify"
          BY <4>1, <4>3 DEF Statement
        <5> QED BY <1>1, <5>1 DEF Planned
      <4>4. CASE c \notin DOMAIN current[t]
        <5>1. a[i].table = t /\ a[i].action = "add" /\ a[i].columns = One(c, desired[t][c])
          BY <4>1, <4>4 DEF Statement
        <5> QED BY <1>1, <1>3, <4>2, <4>4, <5>1 DEF Planned
      <4> QED BY <4>3, <4>4
    <3>6. \A i \in DOMAIN b : b[i].table = t /\ Planned(b[i], current, desired)
      <4>1. \A i \in DOMAIN b : b[i].table = t /\ b[i].action = "dropColumn"
        BY DEF Drops, Statement
      <4> HIDE DEF b
      <4> QED BY <1>1, <4>1 DEF Planned
    <3> QED BY <3>1, <3>3, <3>4, <3>5, <3>6
  <2> HIDE DEF a, b
  <2>7. \A i \in DOMAIN (a \o b) :
          (a \o b)[i].table = t /\ Planned((a \o b)[i], current, desired)
    <3>0. Len(a) \in Nat /\ Len(b) \in Nat /\ Len(a \o b) = Len(a) + Len(b) /\ a \o b \in Seq(Changes)
      BY <2>6, ConcatProperties, LenProperties
    <3>1. \A i \in 1..(Len(a) + Len(b)) : ~(i <= Len(a)) => i - Len(a) \in 1..Len(b)
      BY <3>0
    <3>2. \A i \in 1..(Len(a) + Len(b)) : i <= Len(a) => i \in 1..Len(a)
      BY <3>0
    <3>3. DOMAIN (a \o b) = 1..(Len(a) + Len(b))
      BY <3>0, LenProperties
    <3> QED BY <2>6, <3>1, <3>2, <3>3, ConcatProperties
  <2>8. Len(a) + Len(b) <= Cardinality(Columns)
    <3>1. A \cap B = {} /\ A \cup B \subseteq Columns
      BY <1>1 DEF Differing, Extra
    <3> HIDE DEF A, B
    <3>2. Cardinality(A \cup B) = Cardinality(A) + Cardinality(B)
      <4>1. Cardinality(A \cap B) = 0
        BY <3>1, FS_EmptySet
      <4>2. Cardinality(A) \in Nat /\ Cardinality(B) \in Nat
        BY <1>1, FS_CardinalityType
      <4>3. Cardinality(A \cup B) = Cardinality(A) + Cardinality(B) - Cardinality(A \cap B)
        BY <1>1, FS_Union
      <4> QED BY <4>1, <4>2, <4>3
    <3>3. Cardinality(A \cup B) <= Cardinality(Columns)
      BY <3>1, FS_Subset, ExecutionAssumption
    <3> QED BY <2>6, <3>2, <3>3
  <2>9. Len(a \o b) = Len(a) + Len(b) /\ Len(a) \in Nat /\ Len(b) \in Nat
    BY <2>6, ConcatProperties, LenProperties
  <2> QED BY <1>1, <2>1, <2>5, <2>7, <2>8, <2>9 DEF new
<1> QED BY <1>2, <1>3

-----------------------------------------------------------------------------
(* All tables. *)

\* The recursive function inside FlattenSeq exists.
LEMMA FlattenDefined ==
    ASSUME NEW n \in Nat, NEW seqs
    PROVE  \E f : f = [i \in 1..n |-> IF i = 1 THEN seqs[i] ELSE f[i - 1] \o seqs[i]]
<1> DEFINE Of(m, f) == [i \in 1..m |-> IF i = 1 THEN seqs[i] ELSE f[i - 1] \o seqs[i]]
           Bad == {m \in Nat : ~ \E f : f = Of(m, f)}
<1>1. SUFFICES ASSUME Bad # {} PROVE FALSE
  BY <1>1
<1>2. PICK m \in Bad : \A k \in Bad : m <= k
  BY <1>1, LeastNumber
<1>3. CASE m = 0
  <2>1. Of(0, 0) = Of(0, Of(0, 0))
    OBVIOUS
  <2> QED BY <1>2, <1>3, <2>1
<1>4. CASE m # 0
  <2>1. m \in Nat /\ m - 1 \in Nat /\ m - 1 \notin Bad
    <3>1. m \in Nat
      BY <1>2
    <3> HIDE DEF Bad
    <3> QED BY <1>2, <1>4, <3>1
  <2>2. PICK f : f = Of(m - 1, f)
    BY <2>1
  <2> DEFINE g == [i \in 1..m |-> IF i = m THEN IF i = 1 THEN seqs[i] ELSE f[i - 1] \o seqs[i]
                                  ELSE f[i]]
  <2>3. \A i \in 1..(m - 1) : f[i] = IF i = 1 THEN seqs[i] ELSE f[i - 1] \o seqs[i]
    BY <2>2
  <2>4. ASSUME NEW i \in 1..m PROVE g[i] = IF i = 1 THEN seqs[i] ELSE g[i - 1] \o seqs[i]
    <3>1. i # 1 => i - 1 \in 1..m /\ i - 1 # m /\ g[i - 1] = f[i - 1]
      BY <2>1
    <3>2. CASE i = m
      BY <3>1, <3>2
    <3>3. CASE i # m
      <4>1. i \in 1..(m - 1) /\ g[i] = f[i]
        BY <2>1, <3>3
      <4> QED BY <2>3, <3>1, <4>1
    <3> QED BY <3>2, <3>3
  <2>5. g = Of(m, g)
    <3>1. g = [i \in 1..m |-> g[i]]
      OBVIOUS
    <3> HIDE DEF g
    <3> QED BY <2>4, <3>1
  <2> QED BY <1>2, <2>5
<1> QED BY <1>3, <1>4

Blocks(current, desired) ==
    LET tables == Sorted(Present(desired))
    IN  [i \in DOMAIN tables |-> TableChanges(tables[i], current, desired)]

\* The schema in which the first i tables are what they are to be.
Midway(current, desired, i) ==
    [t \in Tables |->
        IF t \in UpTo(Sorted(Present(desired)), i) THEN Conformed(current[t], desired[t])
        ELSE current[t]]

\* What holds of the changes of the first i tables.
PartOf(plan, current, desired, i) ==
    /\ Leads(plan, current, Midway(current, desired, i))
    /\ \A k \in DOMAIN plan : Planned(plan[k], current, desired)
    /\ Len(plan) <= i * (Cardinality(Columns) + 1)

LEMMA TableSets ==
    ASSUME NEW S, S \subseteq Tables
    PROVE  S \in SUBSET Nat /\ IsFiniteSet(S) /\ Cardinality(S) \in Nat
BY FS_Subset, FS_CardinalityType, ExecutionAssumption

LEMMA AppendBlock ==
    ASSUME NEW current \in Schemas, NEW desired \in Schemas,
           NEW i \in 1..Cardinality(Present(desired)), NEW plan,
           PartOf(plan, current, desired, i - 1)
    PROVE  PartOf(plan \o Blocks(current, desired)[i], current, desired, i)
<1> DEFINE S == Present(desired)
           q == Sorted(S)
           t == q[i]
           block == TableChanges(t, current, desired)
           m == Midway(current, desired, i - 1)
           width == Cardinality(Columns) + 1
<1>1. S \subseteq Tables
  BY DEF Present
<1>2. /\ DOMAIN q = 1..Cardinality(S) /\ t \in S \ UpTo(q, i - 1)
      /\ UpTo(q, i) = UpTo(q, i - 1) \cup {t} /\ t \in Tables
  BY <1>1, TableSets, SortedParts
<1>3. desired[t] # Absent /\ Blocks(current, desired)[i] = block
  BY <1>2 DEF Present, Blocks
<1>4. m \in Schemas /\ m[t] = current[t]
  <2>1. \A u \in Tables : Conformed(current[u], desired[u]) \in Definitions
    BY ConformedType DEF Schemas
  <2> QED BY <1>2, <2>1 DEF Schemas, Midway
<1>5. [m EXCEPT ![t] = Conformed(current[t], desired[t])] = Midway(current, desired, i)
  BY <1>2 DEF Midway
<1> HIDE DEF t, m, S
<1>6. /\ Leads(block, m, Midway(current, desired, i)) /\ Len(block) <= width
      /\ \A k \in DOMAIN block : Planned(block[k], current, desired)
  BY <1>2, <1>3, <1>4, <1>5, TableLeads
<1> HIDE DEF block
<1>7. Leads(plan \o block, current, Midway(current, desired, i))
  BY <1>6, LeadsOn DEF PartOf, m
<1>8. /\ plan \in Seq(Changes) /\ block \in Seq(Changes) /\ Len(plan) \in Nat /\ Len(block) \in Nat
      /\ Len(plan \o block) = Len(plan) + Len(block)
      /\ DOMAIN plan = 1..Len(plan) /\ DOMAIN block = 1..Len(block)
      /\ DOMAIN (plan \o block) = 1..(Len(plan) + Len(block))
      /\ \A k \in 1..(Len(plan) + Len(block)) :
           (plan \o block)[k] = IF k <= Len(plan) THEN plan[k] ELSE block[k - Len(plan)]
  BY <1>6, ConcatProperties, LenProperties DEF PartOf, Leads
<1>9. ASSUME NEW k \in DOMAIN (plan \o block)
      PROVE  Planned((plan \o block)[k], current, desired)
  <2>1. CASE k <= Len(plan)
    <3>1. k \in DOMAIN plan
      BY <1>8, <1>9, <2>1
    <3> QED BY <1>8, <1>9, <2>1, <3>1 DEF PartOf
  <2>2. CASE ~(k <= Len(plan))
    <3>1. k - Len(plan) \in DOMAIN block
      BY <1>8, <1>9, <2>2
    <3> QED BY <1>2, <1>6, <1>8, <1>9, <2>2, <3>1
  <2> QED BY <2>1, <2>2
<1>10. Len(plan \o block) <= i * width
  <2>1. width \in Nat
    BY FS_CardinalityType, ExecutionAssumption
  <2>2. Len(plan) <= (i - 1) * width
    BY DEF PartOf
  <2> HIDE DEF width
  <2>3. i \in Nat
    BY <1>1, TableSets DEF S
  <2>4. (i - 1) * width + width = i * width /\ (i - 1) * width \in Int /\ i * width \in Int
    BY <2>1, <2>3
  <2> QED BY <1>6, <1>8, <2>1, <2>2, <2>4
<1> QED BY <1>3, <1>7, <1>9, <1>10 DEF PartOf, S

LEMMA DiffLeads ==
    ASSUME NEW current \in Schemas, NEW desired \in Schemas
    PROVE  PartOf(Diff(current, desired), current, desired, Cardinality(Present(desired)))
<1> DEFINE S == Present(desired)
           n == Cardinality(S)
           q == Sorted(S)
           seqs == Blocks(current, desired)
           width == Cardinality(Columns) + 1
<1>1. /\ S \in SUBSET Nat /\ IsFiniteSet(S) /\ n \in Nat /\ width \in Nat
      /\ DOMAIN q = 1..n /\ UpTo(q, 0) = {}
  <2>1. S \subseteq Tables
    BY DEF Present
  <2> QED BY <2>1, TableSets, SortedParts, FS_CardinalityType, ExecutionAssumption
<1>2. Diff(current, desired) = FlattenSeq(seqs) /\ DOMAIN seqs = 1..n
  BY <1>1 DEF Diff, Blocks
<1>3. Len(seqs) = n
  BY <1>1, <1>2 DEF Blocks
<1>4. ASSUME NEW empty \in Seq(Changes), Len(empty) = 0
      PROVE  PartOf(empty, current, desired, 0)
  <2>1. Midway(current, desired, 0) = current
    BY <1>1 DEF Midway, Schemas
  <2>2. Leads(empty, current, current)
    BY <1>4, LeadsNowhere
  <2>3. DOMAIN empty = {}
    BY <1>4
  <2>4. 0 * width = 0
    BY <1>1
  <2> QED BY <1>4, <2>1, <2>2, <2>3, <2>4 DEF PartOf
<1>5. CASE n = 0
  <2>1. FlattenSeq(seqs) = seqs
    BY <1>3, <1>5 DEF FlattenSeq
  <2>2. seqs \in Seq(Changes) /\ Len(seqs) = 0
    <3>1. seqs = [i \in 1..0 |-> seqs[i]]
      BY <1>1, <1>2, <1>5 DEF Blocks
    <3>2. [i \in 1..0 |-> seqs[i]] \in Seq(Changes)
      OBVIOUS
    <3> QED BY <1>3, <1>5, <3>1, <3>2
  <2> QED BY <1>2, <1>4, <1>5, <2>1, <2>2
<1>6. CASE n # 0
  <2> DEFINE f == CHOOSE g : g = [i \in 1..n |-> IF i = 1 THEN seqs[i] ELSE g[i - 1] \o seqs[i]]
  <2>1. FlattenSeq(seqs) = f[n]
    BY <1>3, <1>6 DEF FlattenSeq
  <2>2. f = [i \in 1..n |-> IF i = 1 THEN seqs[i] ELSE f[i - 1] \o seqs[i]]
    BY <1>1, FlattenDefined
  <2> HIDE DEF f, seqs, n
  <2>3. \A i \in 1..n : f[i] = IF i = 1 THEN seqs[i] ELSE f[i - 1] \o seqs[i]
    BY <2>2
  <2>4. ASSUME NEW i \in 1..n, i = 1 \/ PartOf(f[i - 1], current, desired, i - 1)
        PROVE  PartOf(f[i], current, desired, i)
    <3>1. CASE i = 1
      <4>1. PartOf(<<>> \o seqs[i], current, desired, i)
        <5>1. <<>> \in Seq(Changes) /\ Len(<<>>) = 0 /\ i - 1 = 0 /\ i \in 1..Cardinality(S)
          BY <3>1 DEF n
        <5>2. PartOf(<<>>, current, desired, i - 1)
          BY <1>4, <5>1
        <5> QED BY <5>1, <5>2, AppendBlock DEF seqs
      <4>2. f[i] = seqs[i]
        BY <2>3, <3>1
      <4>3. <<>> \o seqs[i] = seqs[i]
        <5>1. \A k \in 1..n : seqs[k] = TableChanges(q[k], current, desired) /\ q[k] \in S
          BY <1>1, SortedParts DEF seqs, Blocks, n
        <5>2. seqs[i] \in Seq(Changes)
          <6>1. q[i] \in Tables /\ desired[q[i]] # Absent
            BY <5>1 DEF Present
          <6>2. Leads(TableChanges(q[i], current, desired), current,
                      [current EXCEPT ![q[i]] = Conformed(current[q[i]], desired[q[i]])])
            BY <6>1, TableLeads
          <6> QED BY <5>1, <6>2 DEF Leads
        <5> QED BY <5>2, ConcatEmptySeq
      <4> QED BY <4>1, <4>2, <4>3
    <3>2. CASE i # 1
      <4>1. f[i] = f[i - 1] \o seqs[i]
        BY <2>3, <3>2
      <4> QED BY <2>4, <3>2, <4>1, AppendBlock DEF n, seqs
    <3> QED BY <3>1, <3>2
  <2>5. ASSUME NEW i \in 1..n, ~PartOf(f[i], current, desired, i) PROVE FALSE
    <3> DEFINE Bad == {k \in 1..n : ~PartOf(f[k], current, desired, k)}
    <3>1. Bad \subseteq Nat /\ Bad # {}
      BY <1>1, <2>5
    <3>2. PICK k \in Bad : \A m \in Bad : k <= m
      BY <3>1, LeastNumber
    <3>3. k \in 1..n /\ k # 1
      BY <2>4, <3>2
    <3>4. k - 1 \in 1..n /\ k - 1 \notin Bad
      BY <1>1, <3>2, <3>3
    <3> QED BY <2>4, <3>2, <3>3, <3>4
  <2>6. n \in 1..n
    BY <1>1, <1>6
  <2> QED BY <1>2, <2>1, <2>5, <2>6 DEF n
<1> QED BY <1>5, <1>6

\* The tables that are to be there, and no others.
Aimed(current, desired) == [t \in Tables |-> Conformed(current[t], desired[t])]

\* The tables that are not wanted go, one after the other.
LEMMA PruneLeads ==
    ASSUME NEW current \in Schemas, NEW desired \in Schemas, NEW s \in Schemas,
           \A t \in Tables : s[t] = IF desired[t] # Absent THEN Conformed(current[t], desired[t])
                                     ELSE current[t]
    PROVE  /\ Leads(PruneChanges(current, desired), s, Aimed(current, desired))
           /\ Len(PruneChanges(current, desired)) = Cardinality(Present(current) \ Present(desired))
           /\ \A i \in DOMAIN PruneChanges(current, desired) :
                /\ PruneChanges(current, desired)[i].table \notin Present(desired)
                /\ PruneChanges(current, desired)[i].action = "dropTable"
                /\ \A k \in DOMAIN PruneChanges(current, desired) :
                     PruneChanges(current, desired)[i].table = PruneChanges(current, desired)[k].table
                       => i = k
<1> DEFINE S == Present(current) \ Present(desired)
           n == Cardinality(S)
           q == Sorted(S)
           plan == PruneChanges(current, desired)
           h == [i \in 0..n |-> [t \in Tables |-> IF t \in UpTo(q, i) THEN Absent ELSE s[t]]]
<1>1. S \subseteq Tables
  BY DEF Present
<1>2. /\ Len(q) = n /\ DOMAIN q = 1..n /\ n \in Nat
      /\ UpTo(q, 0) = {} /\ UpTo(q, n) = S
      /\ \A i \in 1..n :
           /\ q[i] \in S \ UpTo(q, i - 1) /\ UpTo(q, i) = UpTo(q, i - 1) \cup {q[i]}
           /\ i - 1 \in 0..n /\ i \in 0..n
      /\ \A i, k \in 1..n : q[i] = q[k] => i = k
  BY <1>1, TableSets, SortedParts, SortedList
<1>3. DOMAIN plan = 1..n /\ plan = [i \in 1..n |-> Statement("dropTable", q[i], current[q[i]])]
  BY <1>2 DEF PruneChanges
<1> HIDE DEF plan, q, n
<1>4. ASSUME NEW i \in 1..n
      PROVE  /\ plan[i] = Statement("dropTable", q[i], current[q[i]]) /\ plan[i] \in Changes
             /\ plan[i].table = q[i] /\ plan[i].action = "dropTable"
  <2>1. plan[i] = Statement("dropTable", q[i], current[q[i]])
    BY <1>3
  <2>2. q[i] \in Tables /\ current[q[i]] \in Definitions
    BY <1>1, <1>2 DEF Schemas
  <2> QED BY <2>1, <2>2 DEF Statement, Changes
<1>5. plan \in Seq(Changes) /\ Len(plan) = n
  <2>1. plan \in [1..n -> Changes]
    BY <1>3, <1>4
  <2> QED BY <1>2, <2>1
<1>6. ASSUME NEW i \in 0..n PROVE h[i] \in Schemas
  BY NoColumns DEF Schemas
<1>7. ASSUME NEW i \in 1..n
      PROVE  Fits(plan[i], h[i - 1]) /\ h[i] = Executed(plan[i], h[i - 1])
  <2>1. /\ q[i] \in S \ UpTo(q, i - 1) /\ UpTo(q, i) = UpTo(q, i - 1) \cup {q[i]}
        /\ i - 1 \in 0..n /\ i \in 0..n /\ q[i] \in Tables
    BY <1>1, <1>2
  <2>2. h[i - 1] \in Schemas /\ h[i - 1][q[i]] = s[q[i]] /\ s[q[i]] # Absent
    <3>1. h[i - 1] \in Schemas
      BY <1>6, <2>1
    <3>2. h[i - 1][q[i]] = s[q[i]]
      BY <2>1
    <3>3. s[q[i]] # Absent
      BY <2>1 DEF Present
    <3> QED BY <3>1, <3>2, <3>3
  <2>3. h[i] = [h[i - 1] EXCEPT ![q[i]] = Absent]
    BY <2>1
  <2> HIDE DEF h
  <2>4. Executed(Statement("dropTable", q[i], current[q[i]]), h[i - 1])
          = [h[i - 1] EXCEPT ![q[i]] = Absent]
    BY <2>1, <2>2, ExecutedDropTable
  <2>5. Fits(Statement("dropTable", q[i], current[q[i]]), h[i - 1])
    BY <2>2 DEF Fits, Statement
  <2> QED BY <1>4, <2>3, <2>4, <2>5
<1>8. h[0] = s
  <2>1. h[0] = [t \in Tables |-> s[t]]
    BY <1>2
  <2> QED BY <2>1 DEF Schemas
<1>9. h[n] = Aimed(current, desired)
  <2>1. h[n] = [t \in Tables |-> IF t \in S THEN Absent ELSE s[t]]
    BY <1>2
  <2>2. ASSUME NEW t \in Tables
        PROVE  (IF t \in S THEN Absent ELSE s[t]) = Conformed(current[t], desired[t])
    <3>1. current[t] \in Definitions /\ desired[t] \in Definitions
      BY DEF Schemas
    <3>2. desired[t] = Absent => Conformed(current[t], desired[t]) = Absent
      BY <3>1, ConformedType
    <3> QED BY <3>2 DEF Present
  <2> QED BY <2>1, <2>2 DEF Aimed
<1>10. Path(plan, h)
  <2>1. h \in [0..n -> Schemas]
    BY <1>6
  <2> HIDE DEF h
  <2> QED BY <1>5, <1>7, <2>1 DEF Path
<1> HIDE DEF h
<1>11. Leads(plan, s, Aimed(current, desired))
  BY <1>5, <1>8, <1>9, <1>10 DEF Leads
<1>12. \A i \in DOMAIN plan :
         plan[i].table = q[i] /\ q[i] \notin Present(desired) /\ plan[i].action = "dropTable"
  BY <1>2, <1>3, <1>4
<1>13. \A i, k \in DOMAIN plan : plan[i].table = plan[k].table => i = k
  BY <1>2, <1>3, <1>12
<1>14. /\ Leads(plan, s, Aimed(current, desired)) /\ Len(plan) = n
       /\ \A i \in DOMAIN plan :
            /\ plan[i].table \notin Present(desired) /\ plan[i].action = "dropTable"
            /\ \A k \in DOMAIN plan : plan[i].table = plan[k].table => i = k
  BY <1>5, <1>11, <1>12, <1>13
<1> QED BY <1>14 DEF n, plan

\* What a plan makes of the schema it was computed from.
Reconciled(current, j) ==
    [t \in Tables |->
        IF j.desired[t] # Absent THEN Conformed(current[t], j.desired[t])
        ELSE IF j.command \in {"prune", "rollback"} THEN Absent ELSE current[t]]

\* Every statement of a plan is the planner's, or drops a table it does not mention otherwise.
Composed(plan, current, desired) ==
    /\ \A i \in DOMAIN plan :
         Planned(plan[i], current, desired) \/ plan[i].action = "dropTable"
    /\ \A i, k \in DOMAIN plan :
         plan[i].action = "dropTable" /\ plan[k].table = plan[i].table => i = k

\* The plan of a command leads from the schema it was made for to what it makes of it, every
\* statement finding what it speaks of; an outcome can count it; and it mentions what it drops
\* once.
LEMMA PlanSound ==
    ASSUME NEW current \in Schemas, NEW j, j.desired \in Schemas
    PROVE  /\ Leads(PlanOf(current, j), current, Reconciled(current, j))
           /\ Len(PlanOf(current, j)) \in 0..MaxCount
           /\ Composed(PlanOf(current, j), current, j.desired)
<1> DEFINE desired == j.desired
           P == Present(desired)
           X == Present(current) \ P
           a == Diff(current, desired)
           b == PruneChanges(current, desired)
           m == Midway(current, desired, Cardinality(P))
           width == Cardinality(Columns) + 1
           pruned == j.command \in {"prune", "rollback"}
<1>1. /\ P \subseteq Tables /\ X \subseteq Tables /\ P \cap X = {}
      /\ Cardinality(P) \in Nat /\ Cardinality(X) \in Nat /\ width \in Nat \ {0}
      /\ UpTo(Sorted(P), Cardinality(P)) = P
  <2>1. P \subseteq Tables /\ X \subseteq Tables /\ P \cap X = {}
    BY DEF Present
  <2>2. Cardinality(Columns) \in Nat
    BY FS_CardinalityType, ExecutionAssumption
  <2> QED BY <2>1, <2>2, TableSets, SortedParts
<1>2. PartOf(a, current, desired, Cardinality(P))
  BY DiffLeads
<1>3. /\ m \in Schemas
      /\ \A t \in Tables :
           m[t] = IF desired[t] # Absent THEN Conformed(current[t], desired[t]) ELSE current[t]
  <2>1. \A t \in Tables : Conformed(current[t], desired[t]) \in Definitions
    BY ConformedType DEF Schemas
  <2> QED BY <1>1, <2>1 DEF Midway, Schemas, Present
<1>4. /\ Leads(b, m, Aimed(current, desired)) /\ Len(b) = Cardinality(X)
      /\ \A i \in DOMAIN b :
           /\ b[i].table \notin P /\ b[i].action = "dropTable"
           /\ \A k \in DOMAIN b : b[i].table = b[k].table => i = k
  BY <1>3, PruneLeads
<1>5. Cardinality(P) + Cardinality(X) <= Cardinality(Tables) /\ Cardinality(Tables) \in Nat
  <2> HIDE DEF P, X
  <2>1. Cardinality(P \cap X) = 0
    BY <1>1, FS_EmptySet
  <2>2. Cardinality(P \cup X) = Cardinality(P) + Cardinality(X)
    <3>1. IsFiniteSet(P) /\ IsFiniteSet(X)
      BY <1>1, TableSets
    <3>2. Cardinality(P \cup X) = Cardinality(P) + Cardinality(X) - Cardinality(P \cap X)
      BY <3>1, FS_Union
    <3> QED BY <1>1, <2>1, <3>2
  <2>3. Cardinality(P \cup X) <= Cardinality(Tables)
    BY <1>1, FS_Subset, ExecutionAssumption
  <2> QED BY <2>2, <2>3, FS_CardinalityType, ExecutionAssumption
<1>6. /\ Len(a) \in Nat /\ a \in Seq(Changes) /\ b \in Seq(Changes) /\ DOMAIN a = 1..Len(a)
      /\ \A i \in DOMAIN a :
           a[i].table \in P /\ a[i].action # "dropTable" /\ Planned(a[i], current, desired)
      /\ Len(a) <= Cardinality(P) * width
  <2>1. a \in Seq(Changes) /\ b \in Seq(Changes)
    BY <1>2, <1>4 DEF PartOf, Leads
  <2>2. Len(a) \in Nat /\ DOMAIN a = 1..Len(a)
    <3> HIDE DEF a
    <3> QED BY <2>1
  <2>3. \A i \in DOMAIN a : Planned(a[i], current, desired)
    BY <1>2 DEF PartOf
  <2>4. \A i \in DOMAIN a : a[i].table \in P /\ a[i].action # "dropTable"
    BY <2>3 DEF Planned
  <2>5. Len(a) <= Cardinality(P) * width
    BY <1>2 DEF PartOf
  <2> HIDE DEF a, P, width
  <2> QED BY <2>1, <2>2, <2>3, <2>4, <2>5
<1>7. Len(a) + Len(b) <= MaxCount
  <2> DEFINE np == Cardinality(P)
             nx == Cardinality(X)
             nt == Cardinality(Tables)
  <2>1. nt * width <= MaxCount
    BY ExecutionAssumption
  <2>2. np \in Nat /\ nx \in Nat /\ nt \in Nat /\ width \in Nat \ {0} /\ np + nx <= nt
    BY <1>1, <1>5
  <2>3. Len(a) <= np * width /\ Len(b) = nx /\ Len(a) \in Nat
    BY <1>4, <1>6
  <2> HIDE DEF np, nx, nt, width
  <2>4. \A u, v, w \in Nat : u <= v => u * w <= v * w
    OBVIOUS
  <2>5. \A v \in Nat, w \in Nat \ {0} : v <= v * w
    OBVIOUS
  <2>6. np * width + nx * width = (np + nx) * width
    BY <2>2
  <2>7. (np + nx) * width <= nt * width
    BY <2>2, <2>4
  <2>8. nx <= nx * width
    BY <2>2, <2>5
  <2>9. np * width \in Nat /\ nx * width \in Nat /\ nt * width \in Nat /\ MaxCount \in Nat
    BY <2>2, AccountingAssumption
  <2> QED BY <2>1, <2>2, <2>3, <2>6, <2>7, <2>8, <2>9
<1>8. CASE ~pruned
  <2>1. PlanOf(current, j) = a \o <<>>
    BY <1>8 DEF PlanOf
  <2>2. PlanOf(current, j) = a
    BY <1>6, <2>1, ConcatEmptySeq
  <2>3. Reconciled(current, j) = m
    BY <1>3, <1>8 DEF Reconciled, Schemas
  <2>4. Leads(a, current, m)
    BY <1>2 DEF PartOf
  <2>5. Len(a) \in 0..MaxCount
    BY <1>1, <1>4, <1>6, <1>7, AccountingAssumption
  <2> HIDE DEF a
  <2>6. Composed(a, current, desired)
    BY <1>6 DEF Composed
  <2> QED BY <2>2, <2>3, <2>4, <2>5, <2>6
<1>9. CASE pruned
  <2>1. PlanOf(current, j) = a \o b
    BY <1>9 DEF PlanOf
  <2>2. Reconciled(current, j) = Aimed(current, desired)
    <3>1. \A t \in Tables : desired[t] = Absent => Conformed(current[t], desired[t]) = Absent
      BY ConformedType DEF Schemas
    <3> QED BY <1>9, <3>1 DEF Reconciled, Aimed
  <2>3. Leads(a, current, m)
    BY <1>2 DEF PartOf
  <2> HIDE DEF a, b, P, X, m
  <2>4. Leads(a \o b, current, Aimed(current, desired))
    BY <1>4, <2>3, LeadsOn
  <2>5. /\ Len(a \o b) = Len(a) + Len(b) /\ DOMAIN (a \o b) = 1..(Len(a) + Len(b))
        /\ Len(b) \in Nat /\ DOMAIN b = 1..Len(b)
        /\ \A i \in 1..(Len(a) + Len(b)) :
             (a \o b)[i] = IF i <= Len(a) THEN a[i] ELSE b[i - Len(a)]
    BY <1>6, ConcatProperties, LenProperties
  <2>6. ASSUME NEW i \in DOMAIN (a \o b), NEW k \in DOMAIN (a \o b),
               (a \o b)[i].action = "dropTable", (a \o b)[k].table = (a \o b)[i].table
        PROVE  i = k
    <3>1. ~(i <= Len(a)) /\ i - Len(a) \in DOMAIN b /\ (a \o b)[i] = b[i - Len(a)]
      <4>1. CASE i <= Len(a)
        <5>1. i \in DOMAIN a /\ (a \o b)[i] = a[i]
          BY <1>6, <2>5, <2>6, <4>1
        <5> QED BY <1>6, <2>6, <5>1
      <4>2. CASE ~(i <= Len(a))
        BY <1>6, <2>5, <2>6, <4>2
      <4> QED BY <4>1, <4>2
    <3>2. (a \o b)[i].table \notin P
      BY <1>4, <3>1
    <3>3. CASE k <= Len(a)
      <4>1. k \in DOMAIN a /\ (a \o b)[k] = a[k]
        BY <1>6, <2>5, <2>6, <3>3
      <4> QED BY <1>6, <2>6, <3>2, <4>1
    <3>4. CASE ~(k <= Len(a))
      <4>1. k - Len(a) \in DOMAIN b /\ (a \o b)[k] = b[k - Len(a)]
        BY <1>6, <2>5, <2>6, <3>4
      <4>2. i - Len(a) = k - Len(a)
        BY <1>4, <2>6, <3>1, <4>1
      <4> QED BY <1>6, <2>5, <4>2
    <3> QED BY <3>3, <3>4
  <2>7. Len(a \o b) \in 0..MaxCount
    BY <1>6, <1>7, <2>5, AccountingAssumption
  <2>8. ASSUME NEW i \in DOMAIN (a \o b)
        PROVE  Planned((a \o b)[i], current, desired) \/ (a \o b)[i].action = "dropTable"
    <3>1. CASE i <= Len(a)
      <4>1. i \in DOMAIN a /\ (a \o b)[i] = a[i]
        BY <1>6, <2>5, <2>8, <3>1
      <4> QED BY <1>6, <4>1
    <3>2. CASE ~(i <= Len(a))
      <4>1. i - Len(a) \in DOMAIN b /\ (a \o b)[i] = b[i - Len(a)]
        BY <1>6, <2>5, <2>8, <3>2
      <4> QED BY <1>4, <4>1
    <3> QED BY <3>1, <3>2
  <2>9. Composed(a \o b, current, desired)
    BY <2>6, <2>8 DEF Composed
  <2> QED BY <2>1, <2>2, <2>4, <2>7, <2>9
<1> QED BY <1>8, <1>9

-----------------------------------------------------------------------------
(* What a plan that is accepted makes of the details and the foreign keys. *)

\* An opaque text is left as it is.
LEMMA OpaqueKept ==
    ASSUME NEW current, NEW j, ~Unsupported(current, j), NEW t \in Tables,
           current[t] # Absent, j.desired[t] # Absent, Opaque(current, t, j) \/ t \in j.raw
    PROVE  current[t] = j.desired[t]
<1>1. t \in Present(j.desired) \cap Present(current)
  BY DEF Present
<1> QED BY <1>1 DEF Unsupported

\* A plan that is accepted makes of the schema what it is to make of it.
LEMMA GoalReconciled ==
    ASSUME NEW current \in Schemas, NEW j \in JobType, ~Unsupported(current, j)
    PROVE  Reconciled(current, j) = Goal(current, j)
<1>1. j.desired \in Schemas /\ Parsed(j)
  BY DEF JobType
<1>2. ASSUME NEW t \in Tables, j.desired[t] # Absent, j.command # "apply"
      PROVE  Conformed(current[t], j.desired[t]) = j.desired[t]
  <2> DEFINE old == current[t]
             d == j.desired[t]
  <2>1. /\ old \in Definitions /\ d \in Definitions
        /\ old \in [DOMAIN old -> Fields] /\ d \in [DOMAIN d -> Fields]
    BY <1>1, DefinitionParts DEF Schemas
  <2>2. CASE old = Absent
    BY <2>1, <2>2, ConformedType
  <2>3. CASE old # Absent /\ (Opaque(current, t, j) \/ t \in j.raw)
    <3>1. old = d
      BY <1>2, <2>3, OpaqueKept
    <3>2. \A c \in DOMAIN d : [type |-> d[c].type, detail |-> d[c].detail] = d[c]
      BY <2>1 DEF Fields
    <3> HIDE DEF d, old
    <3>3. Conformed(old, d) = d
      BY <2>1, <3>1, <3>2 DEF Conformed
    <3> QED BY <3>3 DEF d, old
  <2>4. CASE ~Opaque(current, t, j) /\ t \notin j.raw
    <3>1. ~Detailed(old) /\ ~Detailed(d)
      BY <1>1, <1>2, <2>4 DEF Opaque, OpaqueText, Parsed
    <3> HIDE DEF d, old
    <3>2. ASSUME NEW c \in DOMAIN d, c \in DOMAIN old
          PROVE  [type |-> d[c].type, detail |-> old[c].detail] = d[c]
      <4>1. old[c].detail = "plain" /\ d[c].detail = "plain" /\ d[c] \in Fields
        BY <2>1, <3>1, <3>2 DEF Detailed
      <4> QED BY <4>1 DEF Fields
    <3>3. Conformed(old, d) = d
      BY <2>1, <3>2 DEF Conformed
    <3> QED BY <3>3 DEF d, old
  <2> QED BY <2>2, <2>3, <2>4
<1>3. \A t \in Tables : j.desired[t] = Absent => Conformed(current[t], j.desired[t]) = Absent
  BY <1>1, ConformedType DEF Schemas
<1>4. CASE j.command \in {"prune", "rollback"}
  <2>1. \A t \in Tables : Reconciled(current, j)[t] = j.desired[t]
    BY <1>2, <1>4 DEF Reconciled
  <2>2. Reconciled(current, j) = [t \in Tables |-> Reconciled(current, j)[t]]
    BY DEF Reconciled
  <2> QED BY <1>1, <1>4, <2>1, <2>2 DEF Goal, Schemas
<1>5. CASE j.command \notin {"prune", "rollback"}
  BY <1>2, <1>5 DEF Reconciled, Goal
<1> QED BY <1>4, <1>5

LEMMA PlainRefersNowhere ==
    ASSUME NEW d \in Definitions, ~Detailed(d)
    PROVE  Referred(d) = {}
<1>1. \A c \in DOMAIN d : References[d[c].detail] = None
  BY ExecutionAssumption DEF Detailed
<1> QED BY <1>1 DEF Referred

\* A plan of several statements creates no foreign key: a text with one would be created alone.
LEMMA NothingRefers ==
    ASSUME NEW current \in Schemas, NEW j \in JobType, ~Unsupported(current, j),
           Len(PlanOf(current, j)) > 1, NEW i \in DOMAIN PlanOf(current, j),
           PlanOf(current, j)[i].action \in {"create", "add"}
    PROVE  Referred(PlanOf(current, j)[i].columns) = {}
<1> DEFINE stmt == PlanOf(current, j)[i]
           t == stmt.table
           d == j.desired[t]
<1>1. j.desired \in Schemas /\ Parsed(j)
  BY DEF JobType
<1>2. Planned(stmt, current, j.desired)
  BY <1>1, PlanSound DEF Composed
<1>3. t \in Tables /\ d # Absent /\ d \in Definitions
  BY <1>1, <1>2 DEF Planned, Present, Schemas
<1>4. t \notin j.raw => ~Detailed(d)
  BY <1>1, <1>3 DEF Parsed
<1>5. CASE stmt.action = "create"
  <2>1. t \notin j.raw
    BY <1>5 DEF Unsupported
  <2>2. stmt.columns = d
    BY <1>2, <1>5 DEF Planned
  <2> QED BY <1>3, <1>4, <2>1, <2>2, PlainRefersNowhere
<1>6. CASE stmt.action = "add"
  <2>1. PICK c \in DOMAIN d \ DOMAIN current[t] : stmt.columns = One(c, d[c])
    BY <1>2, <1>6 DEF Planned
  <2>2. current[t] # Absent
    BY <1>2, <1>6 DEF Planned
  <2>3. t \notin j.raw
    BY <1>3, <2>1, <2>2, OpaqueKept
  <2>4. d[c].detail = "plain" /\ DOMAIN One(c, d[c]) = {c} /\ One(c, d[c])[c] = d[c]
    BY <1>4, <2>1, <2>3 DEF Detailed, One
  <2>5. \A x \in DOMAIN One(c, d[c]) : References[One(c, d[c])[x].detail] = None
    BY <2>4, ExecutionAssumption
  <2> HIDE DEF stmt, d
  <2> QED BY <2>1, <2>5 DEF Referred, stmt
<1> QED BY <1>5, <1>6

\* What is said of a column refers to nothing, or is what schema s says of it.
Kept(w, s) ==
    \A u \in Tables : \A c \in DOMAIN w[u] :
        \/ References[w[u][c].detail] = None
        \/ c \in DOMAIN s[u] /\ w[u][c].detail = s[u][c].detail

LEMMA KeptOn ==
    ASSUME NEW s \in Schemas, NEW w \in Schemas, Kept(w, s), NEW stmt \in Changes,
           stmt.action \in {"create", "add"} => Referred(stmt.columns) = {}
    PROVE  Kept(Executed(stmt, w), s)
<1> DEFINE t == stmt.table
           old == w[t]
           new == stmt.columns
           Said(field, c) ==
             \/ References[field.detail] = None
             \/ c \in DOMAIN s[t] /\ field.detail = s[t][c].detail
<1>1. t \in Tables /\ DOMAIN w = Tables /\ stmt.action \in {"create", "add", "modify", "dropColumn", "dropTable"}
  BY DEF Changes, Schemas
<1>2. /\ Executed(stmt, w)[t] = Made(stmt, old)
      /\ \A u \in Tables \ {t} : Executed(stmt, w)[u] = w[u]
  BY <1>1, ExecutedMade
<1>3. \A c \in DOMAIN old : Said(old[c], c)
  BY <1>1 DEF Kept
<1>4. stmt.action \in {"create", "add"} => \A c \in DOMAIN new : References[new[c].detail] = None
  BY DEF Referred
<1> HIDE DEF Said
<1>5. \A c \in DOMAIN Made(stmt, old) : Said(Made(stmt, old)[c], c)
  <2>1. CASE stmt.action = "create"
    BY <1>4, <2>1 DEF Made, Said
  <2>2. CASE stmt.action = "add"
    <3>1. Made(stmt, old) = Overlaid(new, old)
      BY <2>2 DEF Made
    <3>2. \A c \in DOMAIN new : Said(new[c], c)
      BY <1>4, <2>2 DEF Said
    <3> QED BY <1>3, <3>1, <3>2 DEF Overlaid
  <2>3. CASE stmt.action = "modify"
    <3>1. Made(stmt, old) = Retyped(new, old)
      BY <2>3 DEF Made
    <3>2. DOMAIN Retyped(new, old) = DOMAIN old /\ \A c \in DOMAIN old : Retyped(new, old)[c].detail = old[c].detail
      BY DEF Retyped
    <3> QED BY <1>3, <3>1, <3>2 DEF Said
  <2>4. CASE stmt.action = "dropColumn"
    <3>1. Made(stmt, old) = [c \in DOMAIN old \ DOMAIN new |-> old[c]]
      BY <2>4 DEF Made
    <3> QED BY <1>3, <3>1
  <2>5. CASE stmt.action = "dropTable"
    <3>1. Made(stmt, old) = Absent /\ DOMAIN Absent = {}
      BY <2>5 DEF Made, Absent
    <3> QED BY <3>1
  <2> QED BY <1>1, <2>1, <2>2, <2>3, <2>4, <2>5
<1> HIDE DEF t, old, new
<1> QED BY <1>2, <1>5 DEF Kept, Said, t

\* Schema s without some of its tables.
Without(s, gone) == [t \in Tables |-> IF t \in gone THEN Absent ELSE s[t]]

\* What foreign keys allow in s without the tables that are gone, they allow where no key came.
LEMMA KeysFollow ==
    ASSUME NEW s \in Schemas, NEW w \in Schemas, Kept(w, s), NEW gone,
           \A u \in gone : w[u] = Absent, NEW stmt \in Changes,
           stmt.action \in {"create", "add"} => Referred(stmt.columns) = {},
           KeysAllow(stmt, Without(s, gone))
    PROVE  KeysAllow(stmt, w)
<1> DEFINE v == Without(s, gone)
           t == stmt.table
           columns == DOMAIN stmt.columns
<1>1. t \in Tables
  BY DEF Changes
<1>2. \A u \in Tables : \A c \in DOMAIN w[u] :
        \/ References[w[u][c].detail] = None
        \/ c \in DOMAIN v[u] /\ w[u][c].detail = v[u][c].detail
  <2>1. DOMAIN Absent = {}
    BY DEF Absent
  <2> QED BY <2>1 DEF Kept, Without
<1> HIDE DEF v
<1>3. \A u \in Tables : Referred(w[u]) \subseteq Referred(v[u])
  BY <1>2 DEF Referred
<1>4. InUse(w, t) \subseteq InUse(v, t)
  BY <1>3 DEF InUse
<1>5. stmt.action \in {"modify", "dropColumn"} => columns \cap InUse(w, t) = {}
  BY <1>4 DEF KeysAllow, v
<1>6. stmt.action = "dropTable" => InUse(w, t) = {}
  BY <1>4 DEF KeysAllow, v
<1>7. stmt.action = "modify" \/ (stmt.action = "dropColumn" /\ Engine = "mysql") =>
        \A c \in columns \cap DOMAIN w[t] : References[w[t][c].detail] = None
  <2>1. stmt.action = "modify" \/ (stmt.action = "dropColumn" /\ Engine = "mysql") =>
          \A c \in columns \cap DOMAIN v[t] : References[v[t][c].detail] = None
    BY DEF KeysAllow, v
  <2> QED BY <1>1, <1>2, <2>1
<1> QED BY <1>5, <1>6, <1>7 DEF KeysAllow

\* The tables that the statements of a plan before one of them dropped.
Dropped(plan, i) == {plan[k].table : k \in {n \in 1..i : plan[n].action = "dropTable"}}

\* A table that a plan drops, it does not mention otherwise.
DroppedOnce(plan) ==
    \A i, k \in DOMAIN plan :
      plan[i].action = "dropTable" /\ plan[k].table = plan[i].table => i = k

\* A plan that creates no foreign key.
Keyless(plan) ==
    \A i \in DOMAIN plan :
      plan[i].action \in {"create", "add"} => Referred(plan[i].columns) = {}

\* On the way of a plan without new foreign keys, the keys are those of the schema it starts
\* from, and what was dropped stays away.
LEMMA KeptAlong ==
    ASSUME NEW s \in Schemas, NEW plan \in Seq(Changes), NEW h, Path(plan, h), h[0] = s,
           DroppedOnce(plan), Keyless(plan), NEW i \in 0..Len(plan)
    PROVE  Kept(h[i], s) /\ \A u \in Dropped(plan, i) : h[i][u] = Absent
<1> DEFINE n == Len(plan)
           Good(m) == Kept(h[m], s) /\ \A u \in Dropped(plan, m) : h[m][u] = Absent
           Bad == {m \in 0..n : ~Good(m)}
<1>1. n \in Nat /\ DOMAIN plan = 1..n /\ \A k \in 1..n : plan[k] \in Changes
  OBVIOUS
<1>2. Good(0)
  <2>1. Kept(s, s)
    BY DEF Kept
  <2>2. Dropped(plan, 0) = {}
    BY DEF Dropped
  <2> QED BY <2>1, <2>2
<1>3. ASSUME NEW m \in 1..n, Good(m - 1) PROVE Good(m)
  <2> DEFINE stmt == plan[m]
             w == h[m - 1]
  <2>1. w \in Schemas /\ stmt \in Changes /\ h[m] = Executed(stmt, w)
    BY <1>1, <1>3 DEF Path
  <2>2. stmt.action \in {"create", "add"} => Referred(stmt.columns) = {}
    BY <1>1, <1>3 DEF Keyless
  <2>3. Kept(h[m], s)
    BY <1>3, <2>1, <2>2, KeptOn
  <2>4. ASSUME NEW u \in Dropped(plan, m) PROVE h[m][u] = Absent
    <3>1. PICK k \in 1..m : plan[k].action = "dropTable" /\ plan[k].table = u
      BY <2>4 DEF Dropped
    <3>2. u \in Tables
      BY <1>1, <1>3, <3>1 DEF Changes
    <3>3. h[m] = [w EXCEPT ![stmt.table] = Made(stmt, w[stmt.table])] /\ DOMAIN w = Tables
      BY <2>1, ExecutedMade DEF Schemas
    <3>4. CASE k = m
      <4>1. Made(stmt, w[stmt.table]) = Absent
        BY <3>1, <3>4 DEF Made
      <4> QED BY <3>1, <3>2, <3>3, <3>4, <4>1
    <3>5. CASE k # m
      <4>1. stmt.table # u
        BY <1>1, <1>3, <3>1, <3>5 DEF DroppedOnce
      <4>2. u \in Dropped(plan, m - 1)
        BY <1>3, <3>1, <3>5 DEF Dropped
      <4> QED BY <1>3, <3>2, <3>3, <4>1, <4>2
    <3> QED BY <3>4, <3>5
  <2> QED BY <2>3, <2>4
<1> HIDE DEF Good
<1>4. Bad = {}
  <2>1. SUFFICES ASSUME Bad # {} PROVE FALSE
    OBVIOUS
  <2>2. Bad \subseteq Nat
    BY <1>1
  <2> HIDE DEF Bad
  <2>3. PICK m \in Bad : \A k \in Bad : m <= k
    BY <2>1, <2>2, LeastNumber
  <2>4. m \in 0..n /\ ~Good(m) /\ m # 0
    BY <1>2, <2>3 DEF Bad
  <2>5. m - 1 \in 0..n /\ m \in 1..n /\ m - 1 < m
    BY <1>1, <2>4
  <2>6. Good(m - 1)
    BY <2>2, <2>3, <2>5 DEF Bad
  <2> QED BY <1>3, <2>4, <2>5, <2>6
<1> QED BY <1>4 DEF Good

\* Every statement of an accepted plan finds what it speaks of, and the server executes it
\* when no foreign key stands in the way of the order of the plan.
LEMMA PlanExecutable ==
    ASSUME NEW current \in Schemas, NEW j \in JobType, ~Unsupported(current, j),
           InKeyOrder(PlanOf(current, j), current), NEW i \in DOMAIN PlanOf(current, j)
    PROVE  Executable(PlanOf(current, j)[i], Reached(PlanOf(current, j), i - 1, current))
<1> DEFINE plan == PlanOf(current, j)
           before == [t \in Tables |->
                        IF \E k \in 1..(i - 1) : plan[k].action = "dropTable" /\ plan[k].table = t
                        THEN Absent ELSE current[t]]
<1>1. j.desired \in Schemas
  BY DEF JobType
<1>2. Leads(plan, current, Reconciled(current, j)) /\ Composed(plan, current, j.desired)
  BY <1>1, PlanSound
<1>3. PICK h : Path(plan, h) /\ h[0] = current
  BY <1>2 DEF Leads
<1>4. /\ plan \in Seq(Changes) /\ DOMAIN plan = 1..Len(plan) /\ Len(plan) \in Nat
      /\ Course(plan, current) = h
  <2>1. plan \in Seq(Changes)
    BY <1>2 DEF Leads
  <2> HIDE DEF plan
  <2> QED BY <1>3, <2>1, CourseIsPath, LenProperties
<1>5. KeysAllow(plan[i], before)
  BY DEF InKeyOrder
<1>6. ASSUME Len(plan) > 1, NEW k \in DOMAIN plan, plan[k].action \in {"create", "add"}
      PROVE  Referred(plan[k].columns) = {}
  BY <1>6, NothingRefers
<1> HIDE DEF plan
<1>7. Reached(plan, i - 1, current) = h[i - 1] /\ Fits(plan[i], h[i - 1])
  BY <1>3, <1>4 DEF Reached, Path, plan
<1>8. KeysAllow(plan[i], h[i - 1])
  <2>1. CASE Len(plan) > 1
    <3>1. i - 1 \in 0..Len(plan) /\ plan[i] \in Changes /\ h[i - 1] \in Schemas
      BY <1>3, <1>4 DEF Path, plan
    <3>2. Kept(h[i - 1], current) /\ \A u \in Dropped(plan, i - 1) : h[i - 1][u] = Absent
      <4>1. DroppedOnce(plan)
        BY <1>2 DEF Composed, DroppedOnce
      <4>2. Keyless(plan)
        BY <1>6, <2>1 DEF Keyless
      <4> QED BY <1>3, <1>4, <3>1, <4>1, <4>2, KeptAlong
    <3>3. before = Without(current, Dropped(plan, i - 1))
      BY DEF Without, Dropped
    <3>4. plan[i].action \in {"create", "add"} => Referred(plan[i].columns) = {}
      BY <1>6, <2>1 DEF plan
    <3> HIDE DEF before
    <3> QED BY <1>5, <3>1, <3>2, <3>3, <3>4, KeysFollow
  <2>2. CASE ~(Len(plan) > 1)
    <3>1. i = 1
      BY <1>4, <2>2 DEF plan
    <3>2. before = [t \in Tables |-> current[t]]
      BY <3>1
    <3>3. before = current
      BY <3>2 DEF Schemas
    <3> HIDE DEF before
    <3> QED BY <1>3, <1>5, <3>1, <3>3
  <2> QED BY <2>1, <2>2
<1> QED BY <1>7, <1>8 DEF Executable, plan

-----------------------------------------------------------------------------
(* The plans of the runs. *)

LEMMA PlanType ==
    ASSUME Ledgers, Readings, NEW p \in Runs
    PROVE  /\ Statements(p) \in Seq(Changes) /\ PlanLength(p) \in 0..MaxCount
           /\ DOMAIN Statements(p) = 1..PlanLength(p)
<1>1. base[p] \in Schemas /\ job[p].desired \in Schemas
  BY DEF Ledgers, Readings, JobType
<1>2. Leads(Statements(p), base[p], Reconciled(base[p], job[p])) /\ PlanLength(p) \in 0..MaxCount
  BY <1>1, PlanSound DEF Statements, PlanLength
<1>3. Statements(p) \in Seq(Changes)
  BY <1>2 DEF Leads
<1> QED BY <1>2, <1>3 DEF PlanLength

-----------------------------------------------------------------------------
(* Outcomes. *)

LEMMA SchemaErrors ==
    /\ NoError \in Errors /\ CommitError \in Errors /\ BackendError \in Errors
    /\ ~Failed(NoError) /\ Failed(CommitError) /\ Failed(BackendError)
    /\ IsCommitIndeterminate(CommitError)
    /\ ~IsCommitIndeterminate(NoError) /\ ~IsCommitIndeterminate(BackendError)
    /\ \A code \in {"CONFLICT", "BACKEND_ERROR"} : [code |-> code, effect |-> "known"] \in Errors
BY ExecutionAssumption, AccountingAssumption
   DEF NoError, CommitError, BackendError, Errors, Failed, IsCommitIndeterminate, Unset

\* A run that stops before its statements says that none was tried.
LEMMA SkippedHonest ==
    ASSUME NEW n \in 0..MaxCount, NEW code \in {"CONFLICT", "BACKEND_ERROR"}
    PROVE  LET o == SkippedOutcome(n, [code |-> code, effect |-> "known"])
           IN  /\ o \in Outcomes /\ o # None /\ ValidMutationOutcome(o, n)
               /\ o.succeeded = 0 /\ o.skipped = n
<1> DEFINE error == [code |-> code, effect |-> "known"]
           o == SkippedOutcome(n, error)
<1>1. error \in Errors
  BY SchemaErrors
<1> HIDE DEF error
<1>2. n \in Nat
  BY AccountingAssumption
<1>3. o \in Outcomes
  BY <1>1, <1>2, ProgressForm DEF SkippedOutcome
<1>4. o.succeeded = 0 /\ o.skipped = n
  BY <1>1, <1>2, ProgressFields DEF SkippedOutcome
<1>5. ValidMutationOutcome(o, n)
  BY <1>1, SkippedOutcomeValid
<1>6. o # None
  BY <1>3, ExecutionAssumption
<1> HIDE DEF o
<1> QED BY <1>3, <1>4, <1>5, <1>6 DEF o, error

\* What ExecDDL returns makes an outcome that is accepted and says no more than is known.
LEMMA DDLHonest ==
    ASSUME NEW p \in Runs, PlanLength(p) \in 0..MaxCount, done[p] \in Nat, Returned(p)
    PROVE  LET o == DDLOutcome(PlanLength(p), done[p], err[p])
           IN  /\ o \in Outcomes /\ o # None /\ ValidMutationOutcome(o, PlanLength(p))
               /\ 1..o.succeeded \subseteq applied[p]
               /\ applied[p] \subseteq 1..(PlanLength(p) - o.skipped)
               /\ Engine = "postgres" /\ o.uncertain = 0 => applied[p] = 1..o.succeeded
<1> DEFINE n == PlanLength(p)
           o == DDLOutcome(n, done[p], err[p])
<1>1. n \in 0..MaxCount /\ n \in Nat /\ done[p] \in 0..n
  BY AccountingAssumption DEF Returned
<1>2. err[p] \in Errors /\ (Failed(err[p]) \/ done[p] = n)
  BY SchemaErrors DEF Returned
<1>3. ValidMutationOutcome(o, n)
  BY <1>1, <1>2, DDLOutcomeValid
<1>4. CASE IsCommitIndeterminate(err[p])
  <2>1. Engine = "postgres" /\ err[p] = CommitError /\ applied[p] \in {{}, 1..n} /\ done[p] = n
    BY <1>4, SchemaErrors DEF Returned
  <2>2. o = Tally("failed", err[p].code, 0, 0, n, 0, n)
    BY <1>4, <2>1 DEF DDLOutcome, Completed, Tally, Unset
  <2>3. err[p].code \in Codes
    BY <1>2, <1>4, ErrorCodes
  <2> HIDE DEF n, o
  <2>4. o \in Outcomes
    BY <1>1, <2>2, <2>3, OutcomeForm
  <2>5. o.succeeded = 0 /\ o.skipped = 0 /\ o.uncertain = n
    BY <2>2 DEF Tally
  <2>6. o # None
    BY <2>4, ExecutionAssumption
  <2>7. /\ 1..o.succeeded \subseteq applied[p] /\ applied[p] \subseteq 1..(n - o.skipped)
        /\ o.uncertain = 0 => applied[p] = 1..o.succeeded
    BY <1>1, <2>1, <2>5
  <2> QED BY <1>3, <2>4, <2>6, <2>7 DEF n, o
<1>5. CASE ~IsCommitIndeterminate(err[p])
  <2>1. BatchAttempted(n, done[p], err[p]) \in done[p]..n
    BY <1>1 DEF BatchAttempted
  <2>2. o = ProgressOutcome(n, done[p], BatchAttempted(n, done[p], err[p]), err[p])
    BY <1>5 DEF DDLOutcome, BatchOutcome
  <2>3. o \in Outcomes
    BY <1>1, <1>2, <2>1, <2>2, ProgressForm
  <2>4. /\ o.succeeded = done[p] /\ o.uncertain = 0
        /\ Failed(err[p]) /\ done[p] < n => o.skipped = n - done[p] - 1
        /\ ~Failed(err[p]) \/ done[p] = n => o.skipped = n - done[p]
    BY <1>1, <1>2, <1>5, DDLOutcomeLocatesFailure
  <2>5. o # None
    BY <2>3, ExecutionAssumption
  <2> HIDE DEF o
  <2>6. /\ 1..o.succeeded \subseteq applied[p] /\ applied[p] \subseteq 1..(n - o.skipped)
        /\ Engine = "postgres" => applied[p] = 1..o.succeeded
    <3>1. CASE err[p] = NoError
      BY <1>1, <2>4, <3>1, <1>5, SchemaErrors, ExecutionAssumption DEF Returned
    <3>2. CASE err[p] # NoError
      <4>1. /\ err[p] = BackendError /\ done[p] < n
            /\ Engine = "postgres" => done[p] = 0 /\ applied[p] = {}
            /\ 1..done[p] \subseteq applied[p] /\ applied[p] \subseteq 1..(done[p] + 1)
        BY <1>1, <3>2, <1>5, SchemaErrors, ExecutionAssumption DEF Returned
      <4>2. o.skipped = n - done[p] - 1
        BY <2>4, <4>1, SchemaErrors
      <4>3. n - o.skipped = done[p] + 1
        BY <1>1, <4>2
      <4> QED BY <2>4, <4>1, <4>3
    <3> QED BY <3>1, <3>2
  <2> QED BY <1>3, <2>3, <2>5, <2>6 DEF o
<1> QED BY <1>4, <1>5

-----------------------------------------------------------------------------
(* Types. *)

LEMMA ViewType ==
    ASSUME Worlds, NEW p \in Runs
    PROVE  TransactionView(p) \in Schemas
BY DEF Worlds, TransactionView, Schemas, LockedBy

LEMMA ReadingsStep ==
    ASSUME Readings, Worlds, Ledgers, NEW p \in Runs, Command(p)
    PROVE  Readings'
<1> USE DEF Readings, Worlds, Unread
<1>0. Nothing \in Schemas /\ Present(db) \subseteq Tables
  BY NoColumns DEF Present
<1>1. CASE Load(p) \/ Begin(p) \/ PlanFromDDL(p)
  BY <1>1 DEF Load, Begin, PlanFromDDL
<1>2. CASE Introspect(p)
  BY <1>0, <1>2 DEF Introspect
<1>3. CASE ReadTableDDL(p)
  <2>1. /\ \/ ddl' = ddl
           \/ \E t : ddl' = [ddl EXCEPT ![p][t] = db[t]]
        /\ todo' = todo \/ \E t : todo' = [todo EXCEPT ![p] = @ \ {t}]
        /\ UNCHANGED <<base, seen, first, witness, missed>>
    BY <1>3 DEF ReadTableDDL
  <2>2. ddl' \in [Runs -> Schemas]
    <3>1. ddl[p] \in [Tables -> Definitions] /\ db \in [Tables -> Definitions]
      BY DEF Schemas
    <3>2. \A t : [ddl[p] EXCEPT ![t] = db[t]] \in Schemas
      BY <3>1 DEF Schemas
    <3>3. ddl' = ddl \/ \E t : ddl' = [ddl EXCEPT ![p] = [ddl[p] EXCEPT ![t] = db[t]]]
      BY <2>1
    <3>4. ASSUME NEW t, ddl' = [ddl EXCEPT ![p] = [ddl[p] EXCEPT ![t] = db[t]]]
          PROVE  ddl' \in [Runs -> Schemas]
      <4>1. PICK s \in Schemas : s = [ddl[p] EXCEPT ![t] = db[t]]
        BY <3>2
      <4>2. ddl' = [ddl EXCEPT ![p] = s]
        BY <3>4, <4>1
      <4> QED BY <4>2
    <3> QED BY <3>3, <3>4
  <2>3. todo' \in [Runs -> SUBSET Tables]
    BY <2>1
  <2> QED BY <2>1, <2>2, <2>3
<1>4. CASE FirstIntrospection(p)
  <2>1. /\ \/ seen' = seen /\ ddl' = ddl /\ todo' = todo
           \/ /\ seen' = [seen EXCEPT ![p] = db]
              /\ ddl' = [ddl EXCEPT ![p] = Nothing]
              /\ todo' = [todo EXCEPT ![p] = Present(db)]
        /\ UNCHANGED <<base, first, witness, missed>>
    BY <1>4 DEF FirstIntrospection
  <2> QED BY <1>0, <2>1
<1>5. CASE SecondIntrospection(p)
  <2>1. /\ seen' = seen \/ seen' = [seen EXCEPT ![p] = db]
        /\ first' = first \/ first' = [first EXCEPT ![p] = ddl[p]]
        /\ ddl' = ddl \/ ddl' = [ddl EXCEPT ![p] = Nothing]
        /\ todo' = todo \/ todo' = [todo EXCEPT ![p] = Present(db)]
        /\ witness' = witness \/ witness' = [witness EXCEPT ![p] = db]
        /\ missed' = missed \/ missed' = [missed EXCEPT ![p] = hidden]
        /\ base' = base
    BY <1>5 DEF SecondIntrospection
  <2>2. hidden \subseteq Tables
    BY <1>0
  <2> QED BY <1>0, <2>1, <2>2
<1>6. CASE TakeSnapshot(p)
  BY <1>6 DEF TakeSnapshot
<1>7. CASE ExecuteOnMySQL(p) \/ ExecuteInTransaction(p) \/ CommitTransaction(p)
  BY <1>7 DEF ExecuteOnMySQL, ExecuteInTransaction, CommitTransaction
<1>8. CASE Finish(p) \/ Crash(p)
  BY <1>8 DEF Finish, Crash
<1> QED BY <1>1, <1>2, <1>3, <1>4, <1>5, <1>6, <1>7, <1>8 DEF Command

LEMMA LedgersStep ==
    ASSUME Readings, Worlds, Ledgers, NEW p \in Runs, Command(p), AccountInv(p)
    PROVE  Ledgers'
<1> USE DEF Ledgers, Goto, Calm, Control, AfterIntent
<1>1. CASE Load(p)
  <2>1. job[p].from \in Runs /\ job[p] \in JobType /\ snapshot[job[p].from] \in Schemas \cup {None}
    BY <1>1 DEF Load
  <2> DEFINE saved == snapshot[job[p].from]
             raw == {t \in Present(saved) : OpaqueText(saved[t])}
             new == [job[p] EXCEPT !.desired = saved, !.raw = raw]
  <2>2. job' = job \/ (saved \in Schemas /\ job' = [job EXCEPT ![p] = new])
    BY <1>1, <2>1 DEF Load
  <2>3. job' \in [Runs -> JobType] /\ \A q \in Runs : job'[q].from = job[q].from
    <3>1. CASE job' = job
      BY <3>1
    <3>2. CASE saved \in Schemas /\ job' = [job EXCEPT ![p] = new]
      <4>1. raw \subseteq Present(saved) /\ raw \subseteq Tables
        BY DEF Present
      <4>2. \A t \in Tables : Detailed(saved[t]) => t \in raw
        BY DEF Present, Absent, Detailed, OpaqueText
      <4> HIDE DEF raw, saved
      <4>3. /\ new \in [command : Commands, desired : Schemas, raw : SUBSET Tables,
                        from : Runs \cup {None}, grant : Grants, protected : BOOLEAN]
            /\ new.command = job[p].command /\ new.desired = saved /\ new.raw = raw
            /\ new.from = job[p].from
        BY <2>1, <3>2, <4>1 DEF JobType
      <4>4. job[p].command = "rollback"
        BY <2>1, ExecutionAssumption DEF JobType, Parsed
      <4> HIDE DEF new
      <4>5. new \in JobType
        BY <4>1, <4>2, <4>3, <4>4 DEF JobType, Parsed
      <4> QED BY <3>2, <4>3, <4>5
    <3> QED BY <2>2, <3>1, <3>2
  <2>4. pc' = [pc EXCEPT ![p] = "done"] \/ pc' = [pc EXCEPT ![p] = "read"]
    BY <1>1 DEF Load
  <2> QED BY <1>1, <2>3, <2>4 DEF Load
<1>2. CASE Begin(p) \/ PlanFromDDL(p) \/ Introspect(p)
  BY <1>2 DEF Begin, PlanFromDDL, Introspect
<1>3. CASE ReadTableDDL(p) \/ FirstIntrospection(p) \/ SecondIntrospection(p)
  <2>1. /\ \E where \in Control \ {"load"} : pc' = [pc EXCEPT ![p] = where] \/ pc' = pc
        /\ outcome' = outcome \/ \E o : outcome' = [outcome EXCEPT ![p] = o]
        /\ UNCHANGED <<job, snapshot, done, err, applied>>
    <3>1. CASE ReadTableDDL(p)
      BY <3>1 DEF ReadTableDDL, Skip
    <3>2. CASE FirstIntrospection(p)
      BY <3>2 DEF FirstIntrospection, Skip
    <3>3. CASE SecondIntrospection(p)
      BY <3>3 DEF SecondIntrospection, Skip
    <3> QED BY <1>3, <3>1, <3>2, <3>3
  <2> QED BY <2>1
<1>4. CASE TakeSnapshot(p)
  <2>1. /\ \E where \in Control \ {"load"} : pc' = [pc EXCEPT ![p] = where]
        /\ outcome' = outcome \/ \E o : outcome' = [outcome EXCEPT ![p] = o]
        /\ snapshot' = snapshot \/ snapshot' = [snapshot EXCEPT ![p] = ddl[p]]
        /\ UNCHANGED <<job, done, err, applied>>
    BY <1>4 DEF TakeSnapshot, Skip
  <2>2. ddl[p] \in Schemas
    BY DEF Readings
  <2> QED BY <2>1, <2>2
<1>5. CASE ExecuteOnMySQL(p) \/ ExecuteInTransaction(p) \/ CommitTransaction(p)
  <2>1. /\ pc' = pc \/ pc' = [pc EXCEPT ![p] = "finish"]
        /\ err' = err \/ \E e \in {NoError, CommitError, BackendError} : err' = [err EXCEPT ![p] = e]
        /\ done' = done \/ \E d \in {done[p] + 1, 0} : done' = [done EXCEPT ![p] = d]
        /\ applied' = applied \/ \E S : applied' = [applied EXCEPT ![p] = S]
        /\ UNCHANGED <<job, snapshot, outcome>>
    <3>1. CASE ExecuteOnMySQL(p)
      BY <3>1 DEF ExecuteOnMySQL, Return
    <3>2. CASE ExecuteInTransaction(p)
      BY <3>2 DEF ExecuteInTransaction, Return
    <3>3. CASE CommitTransaction(p)
      BY <3>3 DEF CommitTransaction, Return
    <3> QED BY <1>5, <3>1, <3>2, <3>3
  <2> QED BY <2>1, SchemaErrors
<1>6. CASE Finish(p) \/ Crash(p)
  BY <1>6 DEF Finish, Crash
<1> QED BY <1>1, <1>2, <1>3, <1>4, <1>5, <1>6 DEF Command

\* A statement touches tables, its own among them.
LEMMA TouchedTables ==
    ASSUME NEW s \in Schemas, NEW stmt \in Changes
    PROVE  stmt.table \in Touched(stmt, s) /\ Touched(stmt, s) \subseteq Tables
<1>1. ASSUME NEW d \in Definitions PROVE Referred(d) \subseteq Tables \X Columns
  <2>1. d \in [DOMAIN d -> Fields]
    BY DefinitionParts
  <2>2. \A c \in DOMAIN d : References[d[c].detail] \in (Tables \X Columns) \cup {None}
    BY <2>1, ExecutionAssumption DEF Fields
  <2> QED BY <2>2 DEF Referred
<1>2. stmt.table \in Tables /\ stmt.columns \in Definitions /\ s[stmt.table] \in Definitions
  BY DEF Changes, Schemas
<1> DEFINE old == IF stmt.action \in {"dropColumn", "dropTable"} THEN Referred(s[stmt.table]) ELSE {}
<1>3. Referred(stmt.columns) \cup old \subseteq Tables \X Columns
  BY <1>1, <1>2
<1> HIDE DEF old
<1>4. {to[1] : to \in Referred(stmt.columns) \cup old} \subseteq Tables
  BY <1>3
<1> QED BY <1>2, <1>4 DEF Touched, old

\* The changes of the database, whoever makes them.
LEMMA WorldsStep ==
    ASSUME Readings, Ledgers, Worlds, Next
    PROVE  Worlds'
<1>0. \A s : Changed(s) => db' = s /\ hidden' \subseteq Present(db')
  BY DEF Worlds, Changed
<1>1. faults' \in 0..MaxFaults /\ foreign' \in 0..MaxForeign
  <2>1. /\ faults' = faults \/ (faults < MaxFaults /\ faults' = faults + 1)
        /\ foreign' = foreign \/ (foreign < MaxForeign /\ foreign' = foreign + 1)
    <3> USE DEF Fault, Calm, Skip
    <3>1. ASSUME NEW p \in Runs, Command(p)
          PROVE  /\ faults' = faults \/ (faults < MaxFaults /\ faults' = faults + 1)
                 /\ foreign' = foreign
      <4>1. CASE Load(p) \/ Introspect(p) \/ PlanFromDDL(p) \/ Begin(p)
        BY <4>1 DEF Load, Introspect, PlanFromDDL, Begin
      <4>2. CASE ReadTableDDL(p)
        BY <4>2 DEF ReadTableDDL
      <4>3. CASE FirstIntrospection(p) \/ SecondIntrospection(p) \/ TakeSnapshot(p)
        BY <4>3 DEF FirstIntrospection, SecondIntrospection, TakeSnapshot
      <4>4. CASE ExecuteOnMySQL(p)
        BY <4>4 DEF ExecuteOnMySQL
      <4>5. CASE ExecuteInTransaction(p) \/ CommitTransaction(p)
        BY <4>5 DEF ExecuteInTransaction, CommitTransaction
      <4>6. CASE Finish(p) \/ Crash(p)
        BY <4>6 DEF Finish, Crash
      <4> QED BY <3>1, <4>1, <4>2, <4>3, <4>4, <4>5, <4>6 DEF Command
    <3>2. CASE ForeignDDL \/ ForeignStructure \/ AllEnded
      BY <3>2 DEF ForeignDDL, ForeignStructure, AllEnded, vars
    <3> QED BY <3>1, <3>2 DEF Next, Command
  <2> QED BY <2>1, ExecutionAssumption DEF Worlds
<1> DEFINE WorkShape ==
             /\ DOMAIN work = Runs
             /\ \A p \in Runs : LockedBy(p) \subseteq Tables /\ work[p] \in [LockedBy(p) -> Definitions]
<1>2. ASSUME NEW p \in Runs, work' = work \/ work' = [work EXCEPT ![p] = Untouched]
      PROVE  WorkShape'
  <2>1. DOMAIN Untouched = {} /\ Untouched \in [{} -> Definitions]
    BY DEF Untouched
  <2> HIDE DEF Untouched
  <2> QED BY <1>2, <2>1 DEF Worlds, LockedBy
<1>3. CASE \E p \in Runs : ExecuteOnMySQL(p)
  <2>1. PICK p \in Runs : ExecuteOnMySQL(p)
    BY <1>3
  <2> DEFINE stmt == Statements(p)[done[p] + 1]
  <2>2. /\ done[p] + 1 \in 1..PlanLength(p) /\ work' = work
        /\ Changed(Executed(stmt, db)) \/ UNCHANGED <<db, hidden>>
    BY <2>1, PlanType DEF ExecuteOnMySQL, PlanLength, Ledgers
  <2>3. stmt \in Changes
    BY <2>2, PlanType
  <2> HIDE DEF stmt
  <2>4. Executed(stmt, db) \in Schemas
    BY <2>3, ExecutedType DEF Changes, Worlds
  <2> QED BY <1>0, <1>1, <1>2, <2>2, <2>4 DEF Worlds
<1>4. CASE \E p \in Runs : ExecuteInTransaction(p)
  <2>1. PICK p \in Runs : ExecuteInTransaction(p)
    BY <1>4
  <2> DEFINE stmt == Statements(p)[done[p] + 1]
             touched == LockedBy(p) \cup Touched(stmt, TransactionView(p))
             made == [t \in touched |-> Executed(stmt, TransactionView(p))[t]]
  <2>2. /\ done[p] + 1 \in 1..PlanLength(p) /\ UNCHANGED <<db, hidden>>
        /\ work' \in {[work EXCEPT ![p] = made], [work EXCEPT ![p] = Untouched]}
    BY <2>1, PlanType DEF ExecuteInTransaction, PlanLength, Ledgers, Calm
  <2>3. stmt \in Changes
    BY <2>2, PlanType
  <2> HIDE DEF stmt
  <2>4. Executed(stmt, TransactionView(p)) \in Schemas /\ touched \subseteq Tables
    BY <2>3, ExecutedType, TouchedTables, ViewType DEF Changes, Worlds
  <2>5. made \in [touched -> Definitions] /\ DOMAIN made = touched
    BY <2>4 DEF Schemas
  <2> HIDE DEF made, touched
  <2>6. WorkShape'
    <3>1. CASE work' = [work EXCEPT ![p] = made]
      BY <2>4, <2>5, <3>1 DEF Worlds, LockedBy
    <3>2. CASE work' = [work EXCEPT ![p] = Untouched]
      BY <1>2, <3>2
    <3> QED BY <2>2, <3>1, <3>2
  <2> QED BY <1>1, <2>2, <2>6 DEF Worlds
<1>5. CASE \E p \in Runs : CommitTransaction(p)
  <2>1. PICK p \in Runs : CommitTransaction(p)
    BY <1>5
  <2>2. /\ Changed(TransactionView(p)) \/ UNCHANGED <<db, hidden>>
        /\ work' = [work EXCEPT ![p] = Untouched]
    BY <2>1 DEF CommitTransaction
  <2>3. WorkShape'
    BY <1>2, <2>2
  <2>4. db' \in Schemas /\ hidden' \subseteq Present(db')
    <3>1. CASE Changed(TransactionView(p))
      BY <1>0, <3>1, ViewType
    <3>2. CASE UNCHANGED <<db, hidden>>
      BY <3>2 DEF Worlds, Present
    <3> QED BY <2>2, <3>1, <3>2
  <2> HIDE DEF WorkShape
  <2> QED BY <1>1, <2>3, <2>4 DEF Worlds, WorkShape
<1>6. CASE ForeignDDL
  <2>1. PICK t \in Tables, c \in Columns, field \in ForeignFields,
             action \in {"create", "add", "modify", "dropColumn", "dropTable"} :
               Changed(Executed(Statement(action, t, One(c, field)), db))
    BY <1>6 DEF ForeignDDL
  <2> DEFINE stmt == Statement(action, t, One(c, field))
  <2>2. One(c, field) \in Definitions
    <3>1. One(c, field) \in [{c} -> Fields] /\ {c} \subseteq Columns
      BY ExecutionAssumption DEF One
    <3> QED BY <3>1, DefinitionForm
  <2>3. stmt.columns = One(c, field) /\ stmt.action = action
    BY DEF Statement
  <2> HIDE DEF stmt
  <2>4. Executed(stmt, db) \in Schemas
    BY <2>2, <2>3, ExecutedType DEF Worlds
  <2>5. UNCHANGED work
    BY <1>6 DEF ForeignDDL
  <2>6. WorkShape'
    BY <2>5 DEF Worlds, LockedBy
  <2>7. Changed(Executed(stmt, db))
    BY <2>1 DEF stmt
  <2> QED BY <1>0, <1>1, <2>4, <2>6, <2>7 DEF Worlds
<1>7. CASE ForeignStructure
  <2>1. UNCHANGED <<db, work>> /\ hidden' \subseteq Present(db)
    BY <1>7 DEF ForeignStructure, Worlds
  <2> QED BY <1>1, <2>1 DEF Worlds, LockedBy, Present
<1>8. CASE \E p \in Runs : /\ Command(p)
                           /\ ~ExecuteOnMySQL(p) /\ ~ExecuteInTransaction(p) /\ ~CommitTransaction(p)
  <2>1. PICK p \in Runs : /\ Command(p)
                          /\ ~ExecuteOnMySQL(p) /\ ~ExecuteInTransaction(p) /\ ~CommitTransaction(p)
    BY <1>8
  <2>2. UNCHANGED <<db, hidden>> /\ work' \in {work, [work EXCEPT ![p] = Untouched]}
    BY <2>1 DEF Command, Load, Introspect, ReadTableDDL, PlanFromDDL, Begin, FirstIntrospection,
           SecondIntrospection, TakeSnapshot, Finish, Crash, Calm
  <2> QED BY <1>1, <1>2, <2>1, <2>2 DEF Worlds
<1>9. CASE AllEnded
  BY <1>1, <1>9 DEF AllEnded, vars, Worlds, LockedBy
<1> QED BY <1>3, <1>4, <1>5, <1>6, <1>7, <1>8, <1>9 DEF Next, Command

-----------------------------------------------------------------------------
(* What every step does to the account of a run. *)

\* A run leaves the account of another alone.
LEMMA OtherAccounts ==
    ASSUME Ledgers, Readings, NEW p \in Runs, Command(p), NEW q \in Runs \ {p}
    PROVE  /\ pc'[q] = pc[q] /\ job'[q] = job[q] /\ base'[q] = base[q] /\ done'[q] = done[q]
           /\ err'[q] = err[q] /\ outcome'[q] = outcome[q] /\ applied'[q] = applied[q]
<1> USE DEF Ledgers, Readings, Goto, Calm, Unread
<1>1. CASE Load(p) \/ Introspect(p) \/ PlanFromDDL(p) \/ Begin(p)
  BY <1>1 DEF Load, Introspect, PlanFromDDL, Begin
<1>2. CASE ReadTableDDL(p)
  BY <1>2 DEF ReadTableDDL, Skip
<1>3. CASE FirstIntrospection(p) \/ SecondIntrospection(p) \/ TakeSnapshot(p)
  BY <1>3 DEF FirstIntrospection, SecondIntrospection, TakeSnapshot, Skip
<1>4. CASE ExecuteOnMySQL(p)
  BY <1>4 DEF ExecuteOnMySQL, Return
<1>5. CASE ExecuteInTransaction(p) \/ CommitTransaction(p)
  BY <1>5 DEF ExecuteInTransaction, CommitTransaction, Return
<1>6. CASE Finish(p) \/ Crash(p)
  BY <1>6 DEF Finish, Crash
<1> QED BY <1>1, <1>2, <1>3, <1>4, <1>5, <1>6 DEF Command

LEMMA AccountFrame ==
    ASSUME NEW q \in Runs, AccountInv(q),
           /\ pc'[q] = pc[q] /\ job'[q] = job[q] /\ base'[q] = base[q] /\ done'[q] = done[q]
           /\ err'[q] = err[q] /\ outcome'[q] = outcome[q] /\ applied'[q] = applied[q]
    PROVE  AccountInv(q)'
<1>1. PlanLength(q)' = PlanLength(q)
  BY DEF PlanLength, Statements
<1> QED BY <1>1 DEF AccountInv, Returned, HonestOf

\* Before its statements a run has nothing to account for.
LEMMA PlanningAccount ==
    ASSUME Ledgers', Readings', NEW p \in Runs, AccountInv(p), Ledgers,
           Load(p) \/ Introspect(p) \/ PlanFromDDL(p) \/ Begin(p)
    PROVE  AccountInv(p)'
<1>1. pc[p] \in BeforeExecution /\ UNCHANGED <<done, err, outcome, applied>>
  BY DEF Load, Introspect, PlanFromDDL, Begin, Calm, BeforeExecution, Unplanned
<1>2. pc'[p] \in BeforeExecution \cup {"done"}
  BY DEF Load, Introspect, PlanFromDDL, Begin, Goto, BeforeExecution, Unplanned, Ledgers
<1>3. PlanLength(p)' \in Nat
  <2>1. Statements(p)' \in Seq(Changes)
    <3>1. base'[p] \in Schemas /\ job'[p].desired \in Schemas
      BY DEF Ledgers, Readings, JobType
    <3>2. Leads(PlanOf(base'[p], job'[p]), base'[p], Reconciled(base'[p], job'[p]))
      BY <3>1, PlanSound
    <3> QED BY <3>2 DEF Leads, Statements
  <2> QED BY <2>1 DEF PlanLength
<1>4. done[p] = 0 /\ applied[p] = {} /\ err[p] = NoError /\ outcome[p] = None
  BY <1>1 DEF AccountInv, BeforeExecution, Unplanned
<1> QED BY <1>1, <1>2, <1>3, <1>4 DEF AccountInv, BeforeExecution, Unplanned

\* finishSkippedMutationAudit accounts for the plan as skipped.
LEMMA SkipAccount ==
    ASSUME Ledgers, Readings, NEW p \in Runs, AccountInv(p),
           NEW code \in {"CONFLICT", "BACKEND_ERROR"}, Skip(p, code),
           pc[p] \in BeforeExecution, UNCHANGED <<job, base, done, err, applied>>
    PROVE  /\ AccountInv(p)'
           /\ outcome'[p] # None /\ ValidMutationOutcome(outcome'[p], PlanLength(p))
<1> DEFINE o == SkippedOutcome(PlanLength(p), [code |-> code, effect |-> "known"])
<1>1. PlanLength(p) \in 0..MaxCount /\ PlanLength(p)' = PlanLength(p) /\ PlanLength(p) \in Nat
  BY PlanType, AccountingAssumption DEF PlanLength, Statements
<1>2. /\ o \in Outcomes /\ o # None /\ ValidMutationOutcome(o, PlanLength(p))
      /\ o.succeeded = 0 /\ o.skipped = PlanLength(p)
  BY <1>1, SkippedHonest
<1>3. pc'[p] = "done" /\ outcome'[p] = o
  BY DEF Skip, Goto, Ledgers, PlanLength
<1>4. applied[p] = {}
  BY DEF AccountInv
<1> HIDE DEF o
<1>5. HonestOf(p)'
  BY <1>1, <1>2, <1>3, <1>4 DEF HonestOf
<1> QED BY <1>1, <1>2, <1>3, <1>5 DEF AccountInv, BeforeExecution, Unplanned

LEMMA CollectionAccount ==
    ASSUME Ledgers, Readings, NEW p \in Runs, AccountInv(p),
           ReadTableDDL(p) \/ FirstIntrospection(p) \/ SecondIntrospection(p) \/ TakeSnapshot(p)
    PROVE  /\ AccountInv(p)'
           /\ pc[p] \in AfterIntent /\ pc'[p] = "done" =>
                outcome'[p] # None /\ ValidMutationOutcome(outcome'[p], PlanLength(p))
<1>1. pc[p] \in BeforeExecution /\ UNCHANGED <<job, base, done, err, applied>>
  BY DEF ReadTableDDL, FirstIntrospection, SecondIntrospection, TakeSnapshot, Calm, Unread,
         BeforeExecution, Unplanned
<1>2. CASE \E code \in {"CONFLICT", "BACKEND_ERROR"} : Skip(p, code)
  BY <1>1, <1>2, SkipAccount
<1>3. CASE ~\E code \in {"CONFLICT", "BACKEND_ERROR"} : Skip(p, code)
  <2>1. /\ pc'[p] \in BeforeExecution \cup {"execute", "done"} /\ UNCHANGED outcome
        /\ pc'[p] = "done" => pc[p] = "baseDDL"
    <3>1. CASE ReadTableDDL(p)
      BY <1>3, <3>1 DEF ReadTableDDL, Goto, Ledgers, BeforeExecution, Unplanned
    <3>2. CASE FirstIntrospection(p)
      BY <1>3, <3>2 DEF FirstIntrospection, Goto, Ledgers, BeforeExecution, Unplanned
    <3>3. CASE SecondIntrospection(p)
      BY <1>3, <3>3 DEF SecondIntrospection, Goto, Ledgers, BeforeExecution, Unplanned
    <3>4. CASE TakeSnapshot(p)
      BY <1>3, <3>4 DEF TakeSnapshot, Goto, Ledgers, BeforeExecution, Unplanned
    <3> QED BY <3>1, <3>2, <3>3, <3>4
  <2>2. PlanLength(p)' = PlanLength(p)
    BY <1>1 DEF PlanLength, Statements
  <2>3. done[p] = 0 /\ applied[p] = {} /\ err[p] = NoError /\ outcome[p] = None
    BY <1>1 DEF AccountInv, BeforeExecution, Unplanned
  <2>4. AccountInv(p)'
    BY <1>1, <2>1, <2>2, <2>3 DEF AccountInv, BeforeExecution, Unplanned
  <2> QED BY <2>1, <2>4 DEF AfterIntent
<1> QED BY <1>2, <1>3

LEMMA ExecutionAccount ==
    ASSUME Ledgers, Readings, NEW p \in Runs, AccountInv(p),
           ExecuteOnMySQL(p) \/ ExecuteInTransaction(p) \/ CommitTransaction(p)
    PROVE  AccountInv(p)' /\ pc'[p] \in {"execute", "finish"}
<1>1. /\ pc[p] = "execute" /\ UNCHANGED <<job, base, outcome>>
      /\ pc'[p] \in {"execute", "finish"}
  BY DEF ExecuteOnMySQL, ExecuteInTransaction, CommitTransaction, Unread, Return, Goto, Ledgers
<1>2. /\ PlanLength(p)' = PlanLength(p) /\ PlanLength(p) \in Nat /\ done[p] \in Nat
      /\ DOMAIN Statements(p) = 1..PlanLength(p)
  BY <1>1, PlanType, AccountingAssumption DEF PlanLength, Statements, Ledgers
<1>3. /\ err[p] = NoError /\ applied[p] = (IF Engine = "mysql" THEN 1..done[p] ELSE {})
      /\ outcome'[p] = None /\ done[p] <= PlanLength(p)
  BY <1>1 DEF AccountInv
<1>4. CASE ExecuteOnMySQL(p)
  <2>1. done[p] < PlanLength(p) /\ Engine = "mysql"
    BY <1>4 DEF ExecuteOnMySQL, PlanLength
  <2>2. \/ /\ pc'[p] = "execute" /\ err'[p] = NoError /\ done'[p] = done[p] + 1
           /\ applied'[p] = applied[p] \cup {done[p] + 1}
        \/ /\ pc'[p] = "finish" /\ err'[p] = BackendError /\ done'[p] = done[p]
           /\ applied'[p] \in {applied[p], applied[p] \cup {done[p] + 1}}
    BY <1>1, <1>3, <1>4 DEF ExecuteOnMySQL, Return, Goto, Ledgers
  <2>3. /\ 1..done[p] \cup {done[p] + 1} = 1..(done[p] + 1)
        /\ 1..done[p] \subseteq 1..(done[p] + 1)
        /\ 1..(done[p] + 1) \subseteq 1..PlanLength(p)
        /\ done[p] + 1 <= PlanLength(p)
    BY <1>2, <2>1
  <2> QED BY <1>2, <1>3, <2>1, <2>2, <2>3 DEF AccountInv, Returned, BeforeExecution, Unplanned
<1>5. CASE ExecuteInTransaction(p)
  <2>1. done[p] < PlanLength(p) /\ Engine = "postgres" /\ applied' = applied
    BY <1>5 DEF ExecuteInTransaction, PlanLength, Calm
  <2>2. \/ pc'[p] = "execute" /\ err'[p] = NoError /\ done'[p] = done[p] + 1
        \/ pc'[p] = "finish" /\ err'[p] = BackendError /\ done'[p] = 0
    BY <1>1, <1>3, <1>5 DEF ExecuteInTransaction, Return, Goto, Ledgers
  <2> QED BY <1>2, <1>3, <2>1, <2>2 DEF AccountInv, Returned, BeforeExecution, Unplanned
<1>6. CASE CommitTransaction(p)
  <2>1. done[p] = PlanLength(p) /\ Engine = "postgres" /\ done' = done
    BY <1>6 DEF CommitTransaction, PlanLength
  <2>2. /\ pc'[p] = "finish"
        /\ \/ err'[p] \in {NoError, CommitError} /\ applied'[p] = DOMAIN Statements(p)
           \/ err'[p] = CommitError /\ applied'[p] = applied[p]
    BY <1>6 DEF CommitTransaction, Return, Goto, Ledgers
  <2> QED BY <1>2, <1>3, <2>1, <2>2 DEF AccountInv, Returned, BeforeExecution, Unplanned
<1> QED BY <1>1, <1>4, <1>5, <1>6

\* finishDDLMutationAudit.
LEMMA FinishAccount ==
    ASSUME Ledgers, Readings, NEW p \in Runs, AccountInv(p), Finish(p)
    PROVE  /\ AccountInv(p)'
           /\ outcome'[p] # None /\ ValidMutationOutcome(outcome'[p], PlanLength(p))
<1> DEFINE o == DDLOutcome(PlanLength(p), done[p], err[p])
<1>1. /\ PlanLength(p) \in 0..MaxCount /\ PlanLength(p)' = PlanLength(p) /\ done[p] \in Nat
      /\ UNCHANGED <<done, err, applied>> /\ pc'[p] = "done"
      /\ outcome'[p] = IF ValidMutationOutcome(o, PlanLength(p)) THEN o ELSE None
  BY PlanType DEF PlanLength, Statements, Ledgers, Finish, Calm, Unread, Goto
<1>2. Returned(p)
  <2>1. CASE pc[p] = "finish"
    BY <2>1 DEF AccountInv
  <2>2. CASE pc[p] # "finish"
    <3>1. pc[p] = "execute" /\ Engine = "mysql" /\ done[p] = PlanLength(p)
      BY <2>2 DEF Finish, PlanLength
    <3> QED BY <3>1 DEF AccountInv, Returned
  <2> QED BY <2>1, <2>2
<1>3. /\ o \in Outcomes /\ o # None /\ ValidMutationOutcome(o, PlanLength(p))
      /\ 1..o.succeeded \subseteq applied[p]
      /\ applied[p] \subseteq 1..(PlanLength(p) - o.skipped)
      /\ Engine = "postgres" /\ o.uncertain = 0 => applied[p] = 1..o.succeeded
  BY <1>1, <1>2, DDLHonest
<1> HIDE DEF o
<1>4. outcome'[p] = o
  BY <1>1, <1>3
<1>5. HonestOf(p)'
  BY <1>1, <1>3, <1>4 DEF HonestOf
<1> QED BY <1>1, <1>3, <1>4, <1>5 DEF AccountInv, BeforeExecution, Unplanned

LEMMA CrashAccount ==
    ASSUME Ledgers, NEW p \in Runs, AccountInv(p), Crash(p)
    PROVE  AccountInv(p)' /\ pc'[p] = "dead"
<1>1. /\ pc'[p] = "dead" /\ pc[p] \notin {"done", "dead"}
      /\ UNCHANGED <<job, base, done, err, outcome, applied>>
  BY DEF Crash, Goto, Ledgers, Calm, Unread, Ended
<1>2. PlanLength(p)' = PlanLength(p)
  BY <1>1 DEF PlanLength, Statements
<1> QED BY <1>1, <1>2 DEF AccountInv, BeforeExecution, Unplanned

-----------------------------------------------------------------------------
LEMMA ExecutionInit == Init => ExecutionInv
<1> SUFFICES ASSUME Init PROVE ExecutionInv
  OBVIOUS
<1>1. Ledgers
  <2>1. job \in [Runs -> JobType]
    BY ExecutionAssumption DEF Init
  <2>2. \A p \in Runs : job[p].from \in Runs \cup {None}
    BY <2>1 DEF JobType
  <2> QED BY <2>1, <2>2, SchemaErrors DEF Init, Ledgers, Control
<1>2. Readings
  BY NoColumns DEF Init, Readings
<1>3. Worlds
  <2>1. Untouched \in [{} -> Definitions] /\ DOMAIN Untouched = {}
    BY DEF Untouched
  <2> HIDE DEF Untouched
  <2> QED BY <2>1, ExecutionAssumption DEF Init, Worlds, LockedBy
<1>4. ASSUME NEW p \in Runs PROVE AccountInv(p)
  <2>1. PlanLength(p) \in 0..MaxCount
    BY <1>1, <1>2, PlanType
  <2>2. /\ done[p] = 0 /\ applied[p] = {} /\ err[p] = NoError /\ outcome[p] = None
        /\ pc[p] \in {"load", "read"}
    BY DEF Init
  <2> QED BY <2>1, <2>2, AccountingAssumption DEF AccountInv
<1> QED BY <1>1, <1>2, <1>3, <1>4 DEF ExecutionInv

LEMMA ExecutionStep == ExecutionInv /\ [Next]_vars => ExecutionInv'
<1> SUFFICES ASSUME ExecutionInv, [Next]_vars PROVE ExecutionInv'
  OBVIOUS
<1>0. Ledgers /\ Readings /\ Worlds /\ \A p \in Runs : AccountInv(p)
  BY DEF ExecutionInv
<1>1. CASE Next
  <2>1. Worlds'
    BY <1>0, <1>1, WorldsStep
  <2>2. CASE \E p \in Runs : Command(p)
    <3>1. PICK p \in Runs : Command(p)
      BY <2>2
    <3>2. Ledgers' /\ Readings'
      BY <1>0, <3>1, LedgersStep, ReadingsStep
    <3>3. AccountInv(p)'
      BY <1>0, <3>1, <3>2, PlanningAccount, CollectionAccount, ExecutionAccount, FinishAccount,
         CrashAccount DEF Command
    <3>4. \A q \in Runs \ {p} : AccountInv(q)'
      BY <1>0, <3>1, OtherAccounts, AccountFrame
    <3> QED BY <2>1, <3>2, <3>3, <3>4 DEF ExecutionInv
  <2>3. CASE UNCHANGED <<pc, job, base, seen, first, ddl, todo, snapshot, done, err, outcome, witness,
                         missed, applied>>
    <3>1. Ledgers' /\ Readings'
      BY <1>0, <2>3 DEF Ledgers, Readings
    <3>2. \A q \in Runs : AccountInv(q)'
      BY <1>0, <2>3, AccountFrame
    <3> QED BY <2>1, <3>1, <3>2 DEF ExecutionInv
  <2> QED BY <1>1, <2>2, <2>3 DEF Next, Command, ForeignDDL, ForeignStructure, AllEnded, vars, Unread
<1>2. CASE UNCHANGED vars
  <2>1. Ledgers' /\ Readings' /\ Worlds'
    BY <1>0, <1>2 DEF vars, Ledgers, Readings, Worlds, LockedBy, Present
  <2>2. \A q \in Runs : AccountInv(q)'
    BY <1>0, <1>2, AccountFrame DEF vars
  <2> QED BY <2>1, <2>2 DEF ExecutionInv
<1> QED BY <1>1, <1>2

\* Every variable keeps its type, and progress stays within the plan, for any number of runs
\* and whatever other sessions do.
THEOREM SchemaTypeCorrect ==
    Spec => []TypeOK
<1>1. ASSUME ExecutionInv PROVE TypeOK
  <2>1. Ledgers /\ Readings /\ Worlds
    BY <1>1 DEF ExecutionInv
  <2>2. ASSUME NEW p \in Runs
        PROVE  /\ done[p] \in 0..Len(Statements(p)) /\ applied[p] \subseteq DOMAIN Statements(p)
               /\ outcome[p] = None \/ outcome[p] \in Outcomes
    <3>1. AccountInv(p) /\ done[p] \in Nat
      BY <1>1, <2>1 DEF ExecutionInv, Ledgers
    <3>2. PlanLength(p) \in 0..MaxCount /\ DOMAIN Statements(p) = 1..PlanLength(p)
      BY <2>1, PlanType
    <3> QED BY <3>1, <3>2, AccountingAssumption DEF AccountInv, HonestOf, PlanLength
  <2>3. pc \in [Runs -> AfterIntent \cup {"load", "read", "baseDDL", "plan", "done", "dead"}]
    BY <2>1 DEF Ledgers, Control
  <2> QED BY <2>1, <2>2, <2>3 DEF TypeOK, Ledgers, Readings, Worlds
<1> QED BY <1>1, ExecutionInit, ExecutionStep, PTL DEF Spec

\* On both databases, for every plan, failure and lost reply, the outcome on record claims no
\* success that did not happen and no skip of what did.
THEOREM SchemaOutcomeTrue ==
    Spec => []OutcomeHonest
<1>1. ExecutionInv => OutcomeHonest
  BY DEF ExecutionInv, AccountInv, HonestOf, OutcomeHonest, PlanLength
<1> QED BY <1>1, ExecutionInit, ExecutionStep, PTL DEF Spec

\* No governed schema command that recorded its intent and lived ends without an outcome the
\* audit log accepts.
THEOREM SchemaIntentsAccounted ==
    Spec => EveryIntentAccounted
<1> DEFINE Accounted == \A p \in Runs : pc[p] \in AfterIntent /\ pc'[p] = "done" =>
                           /\ outcome'[p] # None
                           /\ ValidMutationOutcome(outcome'[p], Len(Statements(p)))
<1>1. ASSUME ExecutionInv, [Next]_vars PROVE [Accounted]_vars
  <2>1. SUFFICES ASSUME Next, NEW q \in Runs, pc[q] \in AfterIntent, pc'[q] = "done"
                 PROVE  /\ outcome'[q] # None
                        /\ ValidMutationOutcome(outcome'[q], PlanLength(q))
    BY <1>1 DEF PlanLength
  <2>2. Ledgers /\ Readings /\ AccountInv(q) /\ pc'[q] # pc[q]
    BY <1>1, <2>1 DEF ExecutionInv, AfterIntent
  <2>3. PICK p \in Runs : Command(p)
    BY <2>1, <2>2 DEF Next, Command, ForeignDDL, ForeignStructure, AllEnded, vars
  <2>4. p = q
    BY <2>2, <2>3, OtherAccounts
  <2>5. ~(Load(q) \/ Introspect(q) \/ PlanFromDDL(q) \/ Begin(q))
    BY <2>1 DEF Load, Introspect, PlanFromDDL, Begin, AfterIntent
  <2> QED BY <2>1, <2>2, <2>3, <2>4, <2>5, CollectionAccount, ExecutionAccount, FinishAccount,
             CrashAccount DEF Command
<1> HIDE DEF Accounted
<1>2. Spec => [][Accounted]_vars
  BY <1>1, ExecutionInit, ExecutionStep, PTL DEF Spec
<1> QED BY <1>2 DEF Accounted, EveryIntentAccounted

-----------------------------------------------------------------------------
(* A statement that takes something away was planned by a run that may, given *)
(* which statements a plan that drops a table has.                            *)

Cut(old, new) == \E c \in DOMAIN old : c \notin DOMAIN new \/ new[c] # old[c]

\* What the open transaction of a run took from a table, a statement of it took.
Traced(p, t) ==
    /\ db[t] # Absent /\ work[p][t] = Absent =>
         \E i \in 1..done[p] : Statements(p)[i].action = "dropTable" /\ Statements(p)[i].table = t
    /\ db[t] # Absent /\ work[p][t] # Absent /\ Cut(db[t], work[p][t]) =>
         \E i \in 1..done[p] : Statements(p)[i].action \in {"modify", "dropColumn"}

Transactions ==
    /\ \A p \in Runs : pc[p] # "execute" \/ Engine = "mysql" => LockedBy(p) = {}
    /\ \A p, q \in Runs : p # q => LockedBy(p) \cap LockedBy(q) = {}
    /\ \A p \in Runs : \A t \in LockedBy(p) : Traced(p, t)

\* The schemas and the commands whose plans are accepted and authorized.
Begun ==
    {x \in Schemas \X JobType :
        ~Unsupported(x[1], x[2]) /\ Authorized(PlanOf(x[1], x[2]), x[2])}

AuthorityInv == \A p \in Runs : pc[p] \in AfterIntent => <<base[p], job[p]>> \in Begun

LossInv == ExecutionInv /\ Transactions /\ AuthorityInv

-----------------------------------------------------------------------------
(* What one statement takes. *)

LEMMA EmptyDefinition ==
    ASSUME NEW d \in Definitions, DOMAIN d = {}
    PROVE  d = Absent
<1>1. d \in [{} -> Fields]
  BY DefinitionParts
<1>2. Absent \in [{} -> Fields]
  BY DEF Absent
<1> QED BY <1>1, <1>2

LEMMA StatementEffect ==
    ASSUME NEW s \in Schemas, NEW stmt \in Changes, Fits(stmt, s)
    PROVE  LET t == stmt.table
               new == Executed(stmt, s)[t]
           IN  /\ \A u \in Tables \ {t} : Executed(stmt, s)[u] = s[u]
               /\ s[t] # Absent /\ new = Absent => stmt.action = "dropTable"
               /\ s[t] # Absent /\ new # Absent /\ Cut(s[t], new) =>
                    stmt.action \in {"modify", "dropColumn"}
<1> DEFINE t == stmt.table
           cols == stmt.columns
           old == s[t]
           made == Made(stmt, old)
<1>1. Executed(stmt, s) = [s EXCEPT ![t] = made]
  BY ExecutedMade
<1>2. t \in Tables /\ old \in Definitions /\ cols \in Definitions
  BY DEF Changes, Schemas
<1>3. DOMAIN s = Tables
  BY DEF Schemas
<1> HIDE DEF made
<1>4. /\ Executed(stmt, s)[t] = made
      /\ \A u \in Tables \ {t} : Executed(stmt, s)[u] = s[u]
  BY <1>1, <1>2, <1>3
<1>5. ASSUME old # Absent
      PROVE  /\ made = Absent => stmt.action = "dropTable"
             /\ made # Absent /\ Cut(old, made) => stmt.action \in {"modify", "dropColumn"}
  <2>1. DOMAIN old # {}
    BY <1>2, <1>5, EmptyDefinition
  <2>2. DOMAIN Absent = {}
    BY DEF Absent
  <2>3. stmt.action # "create"
    BY <1>5 DEF Fits
  <2>4. CASE stmt.action = "add"
    <3>1. made = Overlaid(cols, old)
      BY <2>4 DEF made, Made
    <3>2. DOMAIN made = DOMAIN cols \cup DOMAIN old
      BY <3>1 DEF Overlaid
    <3>3. DOMAIN cols \cap DOMAIN old = {}
      BY <2>4 DEF Fits
    <3>4. ~Cut(old, made)
      BY <3>1, <3>3 DEF Cut, Overlaid
    <3> QED BY <2>1, <2>2, <3>2, <3>4
  <2>5. CASE stmt.action = "modify"
    <3>1. made = Retyped(cols, old)
      BY <2>5 DEF made, Made
    <3>2. DOMAIN made = DOMAIN old
      BY <3>1 DEF Retyped
    <3> QED BY <2>1, <2>2, <2>5, <3>2
  <2>6. CASE stmt.action = "dropColumn"
    <3>1. made = [c \in DOMAIN old \ DOMAIN cols |-> old[c]]
      BY <2>6 DEF made, Made
    <3>2. DOMAIN cols \subseteq DOMAIN old /\ DOMAIN cols # DOMAIN old
      BY <2>6 DEF Fits
    <3>3. DOMAIN made # {}
      BY <3>1, <3>2
    <3> QED BY <2>2, <2>6, <3>3
  <2>7. CASE stmt.action = "dropTable"
    BY <2>7 DEF made, Made
  <2>8. stmt.action \in {"create", "add", "modify", "dropColumn", "dropTable"}
    BY DEF Changes
  <2> QED BY <2>3, <2>4, <2>5, <2>6, <2>7, <2>8
<1> HIDE DEF old, cols, t
<1> QED BY <1>4, <1>5 DEF old, t

\* Max of a set of risks.
LEMMA HighestRisk ==
    ASSUME NEW S, S \subseteq 1..3, S # {}
    PROVE  Max(S) \in S /\ \A x \in S : x <= Max(S)
<1>1. \E m \in S : \A x \in S : m >= x
  <2>1. CASE 3 \in S
    BY <2>1
  <2>2. CASE 3 \notin S /\ 2 \in S
    <3>1. \A x \in S : 2 >= x
      BY <2>2
    <3> QED BY <2>2, <3>1
  <2>3. CASE 3 \notin S /\ 2 \notin S
    <3>1. \A x \in S : x = 1
      BY <2>3
    <3>2. PICK x \in S : x = 1
      BY <3>1
    <3> QED BY <3>1, <3>2
  <2> QED BY <2>1, <2>2, <2>3
<1>2. Max(S) \in S /\ \A x \in S : Max(S) >= x
  BY <1>1 DEF Max
<1> QED BY <1>2

\* What an authorized plan was granted.
LEMMA GrantCovers ==
    ASSUME NEW plan, NEW j \in JobType, Authorized(plan, j)
    PROVE  /\ "yes" \in j.grant
           /\ j.command = "rollback" \/ j.protected => "ticket" \in j.grant
           /\ \A i \in DOMAIN plan :
                /\ plan[i].action = "dropTable" => {"ticket", "prune"} \subseteq j.grant
                /\ plan[i].action \in {"modify", "dropColumn"} =>
                     {"ticket", "destructive"} \subseteq j.grant
<1> DEFINE risks == {LeastRisk(j)} \cup {RiskOf(plan[i], j) : i \in DOMAIN plan}
<1>1. risks \subseteq 1..3 /\ risks # {}
  BY DEF LeastRisk, RiskOf
<1>2. LeastRisk(j) \in risks /\ \A i \in DOMAIN plan : RiskOf(plan[i], j) \in risks
  OBVIOUS
<1>3. OverallRisk(plan, j) = Max(risks)
  BY DEF OverallRisk
<1> HIDE DEF risks
<1>4. /\ OverallRisk(plan, j) \in 1..3 /\ LeastRisk(j) <= OverallRisk(plan, j)
      /\ \A i \in DOMAIN plan : RiskOf(plan[i], j) <= OverallRisk(plan, j)
  BY <1>1, <1>2, <1>3, HighestRisk
<1>5. ASSUME 2 <= OverallRisk(plan, j) \/ j.protected PROVE "ticket" \in j.grant
  <2>1. EffectiveRisk(plan, j) >= 2
    BY <1>4, <1>5 DEF EffectiveRisk
  <2> QED BY <2>1 DEF Authorized
<1>6. j.command = "rollback" => LeastRisk(j) = 2
  BY DEF LeastRisk
<1>7. ASSUME NEW i \in DOMAIN plan
      PROVE  /\ plan[i].action = "dropTable" => {"ticket", "prune"} \subseteq j.grant
             /\ plan[i].action \in {"modify", "dropColumn"} =>
                  {"ticket", "destructive"} \subseteq j.grant
  <2>1. RequiredFlags(plan, j) \subseteq j.grant
    BY DEF Authorized
  <2>2. CASE plan[i].action = "dropTable"
    <3>1. RiskOf(plan[i], j) = 3
      BY <2>2 DEF RiskOf
    <3>2. "prune" \in RequiredFlags(plan, j)
      BY <2>2 DEF RequiredFlags
    <3> QED BY <1>4, <1>5, <2>1, <2>2, <3>1, <3>2
  <2>3. CASE plan[i].action \in {"modify", "dropColumn"}
    <3>1. Destroys(plan[i], j)
      BY <2>3 DEF Destroys
    <3>2. RiskOf(plan[i], j) = 3
      BY <3>1 DEF RiskOf
    <3>3. "destructive" \in RequiredFlags(plan, j)
      BY <3>1 DEF RequiredFlags
    <3> QED BY <1>4, <1>5, <2>1, <2>3, <3>2, <3>3
  <2> QED BY <2>2, <2>3
<1> QED BY <1>4, <1>5, <1>6, <1>7 DEF Authorized

-----------------------------------------------------------------------------
(* Transactions keep each other out. *)

LEMMA OtherLocks ==
    ASSUME Worlds, NEW p \in Runs, Command(p), NEW q \in Runs \ {p}
    PROVE  work'[q] = work[q]
BY DEF Worlds, Command, Load, Introspect, ReadTableDDL, PlanFromDDL, Begin, FirstIntrospection,
       SecondIntrospection, TakeSnapshot, ExecuteOnMySQL, ExecuteInTransaction, CommitTransaction,
       Finish, Crash

LEMMA TracedFrame ==
    ASSUME NEW q \in Runs, NEW t, Traced(q, t), db'[t] = db[t], work'[q] = work[q],
           done'[q] = done[q], base'[q] = base[q], job'[q] = job[q]
    PROVE  Traced(q, t)'
<1>1. Statements(q)' = Statements(q)
  BY DEF Statements
<1> QED BY <1>1 DEF Traced

\* When every other run keeps its locks, and the tables locked stay as they are.
LEMMA OthersKeepLocks ==
    ASSUME Ledgers, Readings, Worlds, Transactions, NEW p \in Runs, Command(p),
           \A q \in Runs \ {p} : \A t \in LockedBy(q) : db'[t] = db[t],
           LockedBy(p)' \cap UNION {LockedBy(q) : q \in Runs \ {p}} = {},
           pc'[p] # "execute" \/ Engine = "mysql" => LockedBy(p)' = {},
           \A t \in LockedBy(p)' : Traced(p, t)'
    PROVE  Transactions'
<1>1. ASSUME NEW q \in Runs \ {p}
      PROVE  /\ pc'[q] = pc[q] /\ LockedBy(q)' = LockedBy(q)
             /\ \A t \in LockedBy(q) : Traced(q, t)'
  <2>1. /\ pc'[q] = pc[q] /\ job'[q] = job[q] /\ base'[q] = base[q] /\ done'[q] = done[q]
        /\ work'[q] = work[q]
    BY OtherAccounts, OtherLocks
  <2>2. ASSUME NEW t \in LockedBy(q) PROVE Traced(q, t)'
    BY <2>1, TracedFrame DEF Transactions
  <2> QED BY <2>1, <2>2 DEF LockedBy
<1>2. \A q \in Runs : pc'[q] # "execute" \/ Engine = "mysql" => LockedBy(q)' = {}
  BY <1>1 DEF Transactions
<1>3. ASSUME NEW q \in Runs, NEW r \in Runs, q # r
      PROVE  LockedBy(q)' \cap LockedBy(r)' = {}
  <2>1. CASE q # p /\ r # p
    BY <1>1, <1>3, <2>1 DEF Transactions
  <2>2. CASE q = p
    BY <1>1, <1>3, <2>2
  <2>3. CASE r = p
    BY <1>1, <1>3, <2>3
  <2> QED BY <2>1, <2>2, <2>3
<1>4. \A q \in Runs : \A t \in LockedBy(q)' : Traced(q, t)'
  BY <1>1
<1> QED BY <1>2, <1>3, <1>4 DEF Transactions

\* One more statement of a transaction.
LEMMA StatementTraced ==
    ASSUME ExecutionInv, Transactions,
           NEW p \in Runs, ExecuteInTransaction(p)
    PROVE  Transactions'
<1> DEFINE stmt == Statements(p)[done[p] + 1]
           view == TransactionView(p)
           touched == LockedBy(p) \cup Touched(stmt, view)
<1>1. /\ Ledgers /\ Readings /\ Worlds /\ Command(p) /\ Engine = "postgres"
      /\ pc[p] = "execute" /\ UNCHANGED <<db, base, job>> /\ done[p] \in Nat
      /\ done[p] + 1 \in 1..PlanLength(p) /\ DOMAIN Statements(p) = 1..PlanLength(p)
  BY PlanType DEF ExecutionInv, ExecuteInTransaction, Command, Calm, Unread, PlanLength, Ledgers
<1>2. stmt \in Changes /\ view \in Schemas
  BY <1>1, PlanType, ViewType
<1>3. CASE done'[p] = 0
  <2>1. work'[p] = Untouched
    BY <1>1, <1>3 DEF ExecuteInTransaction, Worlds, Ledgers
  <2>2. LockedBy(p)' = {}
    BY <2>1 DEF LockedBy, Untouched
  <2> QED BY <1>1, <2>2, OthersKeepLocks
<1>4. CASE done'[p] # 0
  <2>1. /\ \A t \in Touched(stmt, view) : ~Blocked(p, t)
        /\ Fits(stmt, view) /\ done'[p] = done[p] + 1 /\ pc'[p] = "execute"
        /\ work' = [work EXCEPT ![p] = [t \in touched |-> Executed(stmt, view)[t]]]
    BY <1>1, <1>4 DEF ExecuteInTransaction, Ledgers, Executable
  <2>2. /\ work'[p] = [t \in touched |-> Executed(stmt, view)[t]] /\ LockedBy(p)' = touched
    BY <1>1, <2>1 DEF LockedBy, Worlds
  <2>3. touched \cap UNION {LockedBy(q) : q \in Runs \ {p}} = {}
    BY <2>1 DEF Blocked, Transactions
  <2>4. Statements(p)' = Statements(p)
    BY <1>1 DEF Statements
  <2>5. \A t \in Tables : view[t] = IF t \in LockedBy(p) THEN work[p][t] ELSE db[t]
    BY DEF TransactionView
  <2>6. /\ \A u \in Tables \ {stmt.table} : Executed(stmt, view)[u] = view[u]
        /\ view[stmt.table] # Absent /\ Executed(stmt, view)[stmt.table] = Absent =>
             stmt.action = "dropTable"
        /\ (view[stmt.table] # Absent /\ Executed(stmt, view)[stmt.table] # Absent
              /\ Cut(view[stmt.table], Executed(stmt, view)[stmt.table])) =>
             stmt.action \in {"modify", "dropColumn"}
    BY <1>2, <2>1, StatementEffect
  <2>7. touched \subseteq Tables /\ stmt.table \in Tables /\ stmt.table \in touched
    BY <1>1, <1>2, TouchedTables DEF Worlds, Changes
  <2>8. ASSUME NEW i \in 1..done[p], Statements(p)[i].action = "dropTable"
        PROVE  Statements(p)[i].table # stmt.table
    <3>1. base[p] \in Schemas /\ job[p].desired \in Schemas
      BY <1>1 DEF Ledgers, Readings, JobType
    <3>2. \A k, l \in DOMAIN Statements(p) :
            Statements(p)[k].action = "dropTable"
              /\ Statements(p)[l].table = Statements(p)[k].table => k = l
      BY <3>1, PlanSound DEF Statements, Composed
    <3>3. PlanLength(p) \in Nat
      BY <1>1, PlanType, AccountingAssumption
    <3>4. i \in DOMAIN Statements(p) /\ done[p] + 1 \in DOMAIN Statements(p) /\ i # done[p] + 1
      BY <1>1, <3>3
    <3> QED BY <2>8, <3>2, <3>4
  <2>9. 1..done[p] \subseteq 1..(done[p] + 1) /\ done[p] + 1 \in 1..(done[p] + 1)
    BY <1>1
  <2>10. ASSUME NEW t \in touched PROVE Traced(p, t)'
    <3> DEFINE new == Executed(stmt, view)[t]
    <3>1. work'[p][t] = new /\ db'[t] = db[t] /\ t \in Tables
      BY <1>1, <2>2, <2>7
    <3>2. CASE t # stmt.table
      <4>1. new = IF t \in LockedBy(p) THEN work[p][t] ELSE db[t]
        BY <2>5, <2>6, <2>7, <3>2
      <4>2. t \in LockedBy(p) => Traced(p, t)
        BY DEF Transactions
      <4>3. ~Cut(db[t], db[t])
        BY DEF Cut
      <4> HIDE DEF stmt, view, touched, new
      <4> QED BY <2>1, <2>4, <2>9, <3>1, <4>1, <4>2, <4>3 DEF Traced
    <3>3. CASE t = stmt.table
      <4>1. CASE view[t] = Absent
        <5>1. db[t] = Absent
          <6>1. CASE t \notin LockedBy(p)
            BY <2>5, <3>1, <4>1, <6>1
          <6>2. CASE t \in LockedBy(p)
            <7>1. Traced(p, t) /\ work[p][t] = Absent
              BY <2>5, <3>1, <4>1, <6>2 DEF Transactions
            <7> QED BY <2>8, <3>3, <7>1 DEF Traced
          <6> QED BY <6>1, <6>2
        <5> QED BY <3>1, <5>1 DEF Traced
      <4>2. CASE view[t] # Absent
        <5>1. CASE new = Absent
          <6>1. stmt.action = "dropTable"
            BY <2>6, <3>3, <4>2, <5>1
          <6> QED BY <2>1, <2>4, <2>9, <3>1, <3>3, <5>1, <6>1 DEF Traced
        <5>2. CASE new # Absent
          <6>1. ASSUME db[t] # Absent, Cut(db[t], new)
                PROVE  \E i \in 1..(done[p] + 1) : Statements(p)[i].action \in {"modify", "dropColumn"}
            <7>1. CASE Cut(view[t], new)
              <8>1. stmt.action \in {"modify", "dropColumn"}
                BY <2>6, <3>3, <4>2, <5>2, <7>1
              <8> QED BY <2>9, <8>1
            <7>2. CASE ~Cut(view[t], new)
              <8>1. Cut(db[t], view[t])
                BY <6>1, <7>2 DEF Cut
              <8>2. t \in LockedBy(p) /\ view[t] = work[p][t]
                <9>1. ~Cut(db[t], db[t])
                  BY DEF Cut
                <9> QED BY <2>5, <3>1, <8>1, <9>1
              <8>3. Traced(p, t)
                BY <8>2 DEF Transactions
              <8>4. \E i \in 1..done[p] : Statements(p)[i].action \in {"modify", "dropColumn"}
                BY <4>2, <6>1, <8>1, <8>2, <8>3 DEF Traced
              <8> QED BY <2>9, <8>4
            <7> QED BY <7>1, <7>2
          <6> HIDE DEF stmt, view, touched, new
          <6> QED BY <2>1, <2>4, <3>1, <5>2, <6>1 DEF Traced
        <5> QED BY <5>1, <5>2
      <4> QED BY <4>1, <4>2
    <3> QED BY <3>2, <3>3
  <2> HIDE DEF touched
  <2> QED BY <1>1, <2>1, <2>2, <2>3, <2>10, OthersKeepLocks, ExecutionAssumption
<1> QED BY <1>3, <1>4

LEMMA TransactionsStep ==
    ASSUME ExecutionInv, Transactions, Next
    PROVE  Transactions'
<1>0. Ledgers /\ Readings /\ Worlds
  BY DEF ExecutionInv
<1>1. CASE \E p \in Runs : ExecuteInTransaction(p)
  BY <1>1, StatementTraced
<1>2. CASE \E p \in Runs : CommitTransaction(p)
  <2>1. PICK p \in Runs : CommitTransaction(p)
    BY <1>2
  <2>2. /\ db' = db \/ db' = TransactionView(p)
        /\ work' = [work EXCEPT ![p] = Untouched] /\ Command(p)
    BY <2>1 DEF CommitTransaction, Changed, Command
  <2>3. ASSUME NEW q \in Runs \ {p}, NEW t \in LockedBy(q) PROVE db'[t] = db[t]
    <3>1. t \in Tables /\ t \notin LockedBy(p)
      BY <1>0 DEF Worlds, Transactions
    <3> QED BY <2>2, <3>1 DEF TransactionView
  <2>4. LockedBy(p)' = {}
    BY <1>0, <2>2 DEF LockedBy, Untouched, Worlds
  <2> QED BY <1>0, <2>2, <2>3, <2>4, OthersKeepLocks
<1>3. CASE \E p \in Runs : ExecuteOnMySQL(p)
  <2>1. UNCHANGED work /\ Engine = "mysql"
    BY <1>3 DEF ExecuteOnMySQL
  <2>2. \A q \in Runs : LockedBy(q)' = {}
    BY <2>1 DEF Transactions, LockedBy
  <2> QED BY <2>2 DEF Transactions
<1>4. CASE \E p \in Runs : /\ Command(p)
                           /\ ~ExecuteOnMySQL(p) /\ ~ExecuteInTransaction(p) /\ ~CommitTransaction(p)
  <2>1. PICK p \in Runs : /\ Command(p)
                          /\ ~ExecuteOnMySQL(p) /\ ~ExecuteInTransaction(p) /\ ~CommitTransaction(p)
    BY <1>4
  <2>2. /\ UNCHANGED db
        /\ \/ work' = [work EXCEPT ![p] = Untouched]
           \/ work' = work /\ (pc[p] # "execute" \/ Engine = "mysql")
    BY <2>1 DEF Command, Load, Introspect, ReadTableDDL, PlanFromDDL, Begin, FirstIntrospection,
           SecondIntrospection, TakeSnapshot, Finish, Crash, Calm
  <2>3. LockedBy(p)' = {}
    BY <1>0, <2>2 DEF LockedBy, Untouched, Worlds, Transactions
  <2> QED BY <1>0, <2>1, <2>2, <2>3, OthersKeepLocks
<1>5. CASE ForeignDDL \/ ForeignStructure \/ AllEnded
  <2>1. UNCHANGED <<pc, job, base, done, work>>
    BY <1>5 DEF ForeignDDL, ForeignStructure, AllEnded, vars, Unread
  <2>2. ASSUME NEW q \in Runs, NEW t \in LockedBy(q) PROVE db'[t] = db[t]
    <3>1. CASE ForeignStructure \/ AllEnded
      BY <3>1 DEF ForeignStructure, AllEnded, vars
    <3>2. CASE ForeignDDL
      <4>1. PICK u \in Tables, c \in Columns, field \in ForeignFields,
                 action \in {"create", "add", "modify", "dropColumn", "dropTable"} :
              /\ \A p \in Runs : Touched(Statement(action, u, One(c, field)), db) \cap LockedBy(p) = {}
              /\ Changed(Executed(Statement(action, u, One(c, field)), db))
        BY <3>2 DEF ForeignDDL
      <4> DEFINE stmt == Statement(action, u, One(c, field))
      <4>2. \E v : Executed(stmt, db) = [db EXCEPT ![stmt.table] = v]
        BY Zenon DEF Executed
      <4>3. stmt.table = u /\ u # t
        BY <4>1 DEF Statement, Touched
      <4>4. db' = Executed(stmt, db)
        BY <4>1 DEF Changed
      <4> HIDE DEF stmt
      <4>5. t \in Tables /\ DOMAIN db = Tables
        BY <1>0 DEF Worlds, Schemas
      <4> QED BY <4>2, <4>3, <4>4, <4>5
    <3> QED BY <1>5, <3>1, <3>2
  <2>3. \A q \in Runs : LockedBy(q)' = LockedBy(q)
    BY <2>1 DEF LockedBy
  <2>4. \A q \in Runs : \A t \in LockedBy(q) : Traced(q, t)'
    BY <2>1, <2>2, TracedFrame DEF Transactions
  <2> QED BY <2>1, <2>3, <2>4 DEF Transactions
<1> QED BY <1>1, <1>2, <1>3, <1>4, <1>5 DEF Next, Command

\* The plan a run executes is the plan that was authorized.
LEMMA AuthorityStep ==
    ASSUME ExecutionInv, AuthorityInv, Next
    PROVE  AuthorityInv'
<1>0. Ledgers /\ Readings
  BY DEF ExecutionInv
<1>2. CASE \E p \in Runs : Command(p)
  <2>1. PICK p \in Runs : Command(p)
    BY <1>2
  <2>2. ASSUME NEW q \in Runs, pc'[q] \in AfterIntent
        PROVE  <<base'[q], job'[q]>> \in Begun
    <3>1. CASE q # p
      BY <1>0, <2>1, <2>2, <3>1, OtherAccounts DEF AuthorityInv
    <3>2. CASE q = p /\ Begin(p)
      <4>1. /\ ~Unsupported(base[q], job[q]) /\ Authorized(PlanOf(base[q], job[q]), job[q])
            /\ UNCHANGED <<base, job>>
        BY <1>0, <2>2, <3>2 DEF Begin, Goto, AfterIntent, Ledgers, Unread, Statements
      <4>2. base[q] \in Schemas /\ job[q] \in JobType
        BY <1>0 DEF Ledgers, Readings
      <4> QED BY <4>1, <4>2 DEF Begun
    <3>3. CASE q = p /\ ~Begin(p)
      <4>1. CASE Load(p) \/ Introspect(p) \/ PlanFromDDL(p)
        BY <1>0, <2>2, <3>3, <4>1 DEF Load, Introspect, PlanFromDDL, Goto, AfterIntent, Ledgers
      <4>2. CASE ReadTableDDL(p) /\ pc[p] = "baseDDL"
        BY <1>0, <2>2, <3>3, <4>2 DEF ReadTableDDL, Goto, AfterIntent, Ledgers
      <4>3. CASE /\ ~(Load(p) \/ Introspect(p) \/ PlanFromDDL(p))
                 /\ ~(ReadTableDDL(p) /\ pc[p] = "baseDDL")
        <5>1. UNCHANGED <<base, job>>
          BY <2>1, <3>3, <4>3 DEF Command, ReadTableDDL, FirstIntrospection, SecondIntrospection,
                 TakeSnapshot, ExecuteOnMySQL, ExecuteInTransaction, CommitTransaction, Finish,
                 Crash, Unread
        <5>2. pc[p] \in AfterIntent \/ pc'[p] = "dead"
          BY <1>0, <2>1, <3>3, <4>3 DEF Command, ReadTableDDL, FirstIntrospection,
                 SecondIntrospection, TakeSnapshot, ExecuteOnMySQL, ExecuteInTransaction,
                 CommitTransaction, Finish, Crash, AfterIntent, Goto, Ledgers
        <5> QED BY <2>2, <3>3, <5>1, <5>2 DEF AfterIntent, AuthorityInv
      <4> QED BY <4>1, <4>2, <4>3
    <3> QED BY <3>1, <3>2, <3>3
  <2> QED BY <2>2 DEF AuthorityInv
<1>3. CASE UNCHANGED <<pc, job, base>>
  BY <1>3 DEF AuthorityInv
<1> QED BY <1>2, <1>3 DEF Next, Command, ForeignDDL, ForeignStructure, AllEnded, vars, Unread

LEMMA LossInit == Init => LossInv
<1> SUFFICES ASSUME Init PROVE LossInv
  OBVIOUS
<1>1. \A p \in Runs : LockedBy(p) = {} /\ pc[p] \in {"load", "read"}
  BY DEF Init, LockedBy, Untouched
<1> QED BY <1>1, ExecutionInit DEF LossInv, Transactions, AuthorityInv, AfterIntent

LEMMA LossStep == LossInv /\ [Next]_vars => LossInv'
<1> SUFFICES ASSUME LossInv, [Next]_vars PROVE LossInv'
  OBVIOUS
<1>1. ExecutionInv'
  BY ExecutionStep DEF LossInv
<1>2. CASE Next
  BY <1>1, <1>2, TransactionsStep, AuthorityStep DEF LossInv
<1>3. CASE UNCHANGED vars
  <2>1. Transactions'
    BY <1>3 DEF LossInv, Transactions, Traced, LockedBy, Statements, vars
  <2>2. AuthorityInv'
    BY <1>3 DEF LossInv, AuthorityInv, vars
  <2> QED BY <1>1, <2>1, <2>2 DEF LossInv
<1> QED BY <1>2, <1>3

\* Every statement of an accepted plan finds what it speaks of where the ones before it lead,
\* and the last one leads to the schema that was asked for, details and foreign keys included;
\* and when no foreign key stands in the way of the order of the plan, which is that of the
\* names, the server executes every statement. For all tables, columns, types and references,
\* on both databases.
THEOREM PlansReachDesired ==
    Spec => []PlanReachesDesired
<1>1. ASSUME LossInv PROVE PlanReachesDesired
  <2>1. ASSUME NEW p \in Runs, pc[p] \in AfterIntent
        PROVE  LET plan == Statements(p)
               IN  /\ \A i \in DOMAIN plan : Fits(plan[i], Reached(plan, i - 1, base[p]))
                   /\ Reached(plan, Len(plan), base[p]) = Goal(base[p], job[p])
                   /\ InKeyOrder(plan, base[p]) =>
                        \A i \in DOMAIN plan : Executable(plan[i], Reached(plan, i - 1, base[p]))
    <3>1. base[p] \in Schemas /\ job[p] \in JobType /\ ~Unsupported(base[p], job[p])
      BY <1>1, <2>1 DEF LossInv, AuthorityInv, Begun
    <3>2. job[p].desired \in Schemas
      BY <3>1 DEF JobType
    <3>3. Leads(Statements(p), base[p], Goal(base[p], job[p]))
      BY <3>1, <3>2, PlanSound, GoalReconciled DEF Statements
    <3>4. InKeyOrder(Statements(p), base[p]) =>
            \A i \in DOMAIN Statements(p) :
              Executable(Statements(p)[i], Reached(Statements(p), i - 1, base[p]))
      BY <3>1, PlanExecutable DEF Statements
    <3> QED BY <3>3, <3>4, LeadsReached
  <2> QED BY <2>1 DEF PlanReachesDesired
<1> QED BY <1>1, LossInit, LossStep, PTL DEF Spec

\* What a step of a run takes from the database, its own statements take.
LEMMA LossesAreOwn ==
    ASSUME LossInv, Next, NEW p \in Runs, applied'[p] # applied[p],
           NEW t \in Tables, db[t] # Absent
    PROVE  /\ db'[t] = Absent =>
                \E i \in DOMAIN Statements(p) : Statements(p)[i].action = "dropTable"
           /\ db'[t] # Absent /\ Cut(db[t], db'[t]) =>
                \E i \in DOMAIN Statements(p) : Statements(p)[i].action \in {"modify", "dropColumn"}
<1>1. Ledgers /\ Readings /\ Worlds /\ AccountInv(p) /\ Transactions
  BY DEF LossInv, ExecutionInv
<1>2. ExecuteOnMySQL(p) \/ CommitTransaction(p)
  <2>1. PICK r \in Runs : Command(r)
    BY <1>1 DEF Next, Command, ForeignDDL, ForeignStructure, AllEnded, vars
  <2>2. r = p
    BY <1>1, <2>1, OtherAccounts
  <2> QED BY <2>1, <2>2 DEF Command, Load, Introspect, ReadTableDDL, PlanFromDDL, Begin,
             FirstIntrospection, SecondIntrospection, TakeSnapshot, ExecuteInTransaction, Finish,
             Crash, Calm
<1>3. /\ DOMAIN Statements(p) = 1..PlanLength(p) /\ PlanLength(p) \in Nat /\ done[p] \in Nat
      /\ Statements(p) \in Seq(Changes)
  BY <1>1, PlanType, AccountingAssumption DEF Ledgers
<1>4. CASE ExecuteOnMySQL(p)
  <2> DEFINE stmt == Statements(p)[done[p] + 1]
  <2>1. /\ done[p] + 1 \in 1..PlanLength(p)
        /\ \/ Fits(stmt, db) /\ db' = Executed(stmt, db)
           \/ applied' = applied
    BY <1>3, <1>4 DEF ExecuteOnMySQL, Changed, PlanLength, Executable
  <2>2. stmt \in Changes /\ db \in Schemas
    BY <1>1, <1>3, <2>1 DEF Worlds
  <2>3. Fits(stmt, db) /\ db' = Executed(stmt, db)
    BY <2>1
  <2>4. \E i \in DOMAIN Statements(p) : Statements(p)[i] = stmt
    BY <1>3, <2>1
  <2> HIDE DEF stmt
  <2>5. CASE t # stmt.table
    <3>1. db'[t] = db[t]
      BY <2>2, <2>3, <2>5, StatementEffect
    <3> QED BY <3>1 DEF Cut
  <2>6. CASE t = stmt.table
    <3>1. /\ db'[t] = Absent => stmt.action = "dropTable"
          /\ db'[t] # Absent /\ Cut(db[t], db'[t]) => stmt.action \in {"modify", "dropColumn"}
      BY <2>2, <2>3, <2>6, StatementEffect
    <3> QED BY <2>4, <3>1
  <2> QED BY <2>5, <2>6
<1>5. CASE CommitTransaction(p)
  <2>1. db' = TransactionView(p) /\ done[p] = PlanLength(p)
    BY <1>5 DEF CommitTransaction, Changed, PlanLength
  <2>2. db'[t] = IF t \in LockedBy(p) THEN work[p][t] ELSE db[t]
    BY <2>1 DEF TransactionView
  <2>3. CASE t \in LockedBy(p)
    <3>1. Traced(p, t)
      BY <1>1, <2>3 DEF Transactions
    <3> QED BY <1>3, <2>1, <2>2, <2>3, <3>1 DEF Traced
  <2>4. CASE t \notin LockedBy(p)
    BY <2>2, <2>4 DEF Cut
  <2> QED BY <2>3, <2>4
<1> QED BY <1>2, <1>4, <1>5

\* A governed schema command takes from the database only what its flags and its ticket allow,
\* however the schema changed since the plan was authorized, for any number of runs.
THEOREM LossesAreGranted ==
    Spec => LossesGranted
<1> DEFINE Granted ==
      \A p \in Runs : applied'[p] # applied[p] =>
          LET dropped == Present(db) \ Present(db')
              cut == {t \in Present(db) \cap Present(db') :
                        \E c \in DOMAIN db[t] : c \notin DOMAIN db'[t] \/ db'[t][c] # db[t][c]}
              grant == job[p].grant
          IN  /\ "yes" \in grant
              /\ dropped # {} => {"ticket", "prune"} \subseteq grant
              /\ cut # {} => {"ticket", "destructive"} \subseteq grant
              /\ job[p].command = "rollback" \/ job[p].protected => "ticket" \in grant
<1>1. ASSUME LossInv, Next, NEW p \in Runs, applied'[p] # applied[p]
      PROVE  LET dropped == Present(db) \ Present(db')
                 cut == {t \in Present(db) \cap Present(db') :
                           \E c \in DOMAIN db[t] : c \notin DOMAIN db'[t] \/ db'[t][c] # db[t][c]}
                 grant == job[p].grant
             IN  /\ "yes" \in grant
                 /\ dropped # {} => {"ticket", "prune"} \subseteq grant
                 /\ cut # {} => {"ticket", "destructive"} \subseteq grant
                 /\ job[p].command = "rollback" \/ job[p].protected => "ticket" \in grant
  <2>1. Ledgers /\ Readings
    BY <1>1 DEF LossInv, ExecutionInv
  <2>2. pc[p] = "execute"
    <3>1. PICK r \in Runs : Command(r)
      BY <1>1 DEF Next, Command, ForeignDDL, ForeignStructure, AllEnded, vars
    <3>2. r = p
      BY <1>1, <2>1, <3>1, OtherAccounts
    <3> QED BY <1>1, <3>1, <3>2 DEF Command, Load, Introspect, ReadTableDDL, PlanFromDDL, Begin,
               FirstIntrospection, SecondIntrospection, TakeSnapshot, ExecuteOnMySQL,
               CommitTransaction, ExecuteInTransaction, Finish, Crash, Calm
  <2>3. Authorized(Statements(p), job[p]) /\ job[p] \in JobType
    BY <1>1, <2>1, <2>2 DEF LossInv, AuthorityInv, Begun, AfterIntent, Ledgers, Statements
  <2>4. ASSUME NEW t \in Present(db) \ Present(db')
        PROVE  \E i \in DOMAIN Statements(p) : Statements(p)[i].action = "dropTable"
    BY <1>1, LossesAreOwn DEF Present
  <2>5. ASSUME NEW t \in Present(db) \cap Present(db'),
               \E c \in DOMAIN db[t] : c \notin DOMAIN db'[t] \/ db'[t][c] # db[t][c]
        PROVE  \E i \in DOMAIN Statements(p) : Statements(p)[i].action \in {"modify", "dropColumn"}
    BY <1>1, <2>5, LossesAreOwn DEF Present, Cut
  <2> QED BY <2>3, <2>4, <2>5, GrantCovers
<1>2. ASSUME LossInv, [Next]_vars PROVE [Granted]_vars
  BY <1>1, <1>2
<1> HIDE DEF Granted
<1>3. Spec => [][Granted]_vars
  BY <1>2, LossInit, LossStep, PTL DEF Spec
<1> QED BY <1>3 DEF Granted, LossesGranted

-----------------------------------------------------------------------------
(* A run that reports success reached its schema, given where a plan leads.   *)

\* Undisturbed: nobody changed the schema since the second introspection, and the collection
\* saw at most two changes.
Trusted(p) == ~disturbed[p] /\ drift[p] <= 2

ReachedBy(p, i) == Reached(Statements(p), i, base[p])

Underway(p) ==
    IF Engine = "mysql" THEN db = ReachedBy(p, done[p])
    ELSE db = base[p] /\ TransactionView(p) = ReachedBy(p, done[p])

\* A rollback runs on the snapshot that the run it goes back to has saved.
Source(p) ==
    job[p].from # None /\ pc[p] \notin {"load", "done", "dead"} =>
        snapshot[job[p].from] # None /\ job[p].desired = snapshot[job[p].from]

CourseInv(p) ==
    /\ pc[p] = "secondDDL" /\ ~disturbed[p] => db = witness[p]
    /\ pc[p] = "execute" /\ Trusted(p) => Underway(p)
    /\ pc[p] = "finish" /\ Trusted(p) /\ err[p] = NoError => db = ReachedBy(p, PlanLength(p))
    /\ Source(p)

Watched == {"secondDDL", "execute", "finish"}

SuccessInv ==
    /\ SnapshotInv /\ ExecutionInv /\ Transactions /\ AuthorityInv
    /\ disturbed \in [Runs -> BOOLEAN]
    /\ \A p \in Runs : CourseInv(p)

-----------------------------------------------------------------------------
\* Nobody changes the schema without disturbing the others.
LEMMA WorldWatched ==
    ASSUME Next, disturbed \in [Runs -> BOOLEAN]
    PROVE  /\ disturbed' \in [Runs -> BOOLEAN]
           /\ \/ db' = db /\ disturbed' = disturbed
              \/ \E p \in Runs : Command(p) /\ pc[p] = "execute" /\ Noticed(p)
              \/ Noticed(None) /\ UNCHANGED <<pc, job, base, seen, first, snapshot, done, work, err,
                                               witness, applied>>
<1>0. \A p : Noticed(p) => disturbed' \in [Runs -> BOOLEAN]
  BY DEF Noticed
<1>1. ASSUME NEW p \in Runs, Command(p)
      PROVE  \/ db' = db /\ disturbed' = disturbed
             \/ pc[p] = "execute" /\ Noticed(p)
  <2>1. CASE ExecuteOnMySQL(p)
    BY <2>1 DEF ExecuteOnMySQL
  <2>2. CASE CommitTransaction(p)
    BY <2>2 DEF CommitTransaction
  <2>3. CASE ~ExecuteOnMySQL(p) /\ ~CommitTransaction(p)
    BY <1>1, <2>3 DEF Command, Load, Introspect, ReadTableDDL, PlanFromDDL, Begin,
           FirstIntrospection, SecondIntrospection, TakeSnapshot, ExecuteInTransaction, Finish,
           Crash, Calm
  <2> QED BY <2>1, <2>2, <2>3
<1>2. CASE ForeignDDL \/ ForeignStructure
  <2>1. Noticed(None) /\ UNCHANGED <<pc, job, base, seen, first, snapshot, done, work, err, witness,
                                      applied>>
    BY <1>2 DEF ForeignDDL, ForeignStructure, Unread
  <2> QED BY <1>0, <2>1
<1>3. CASE AllEnded
  BY <1>3 DEF AllEnded, vars
<1> QED BY <1>0, <1>1, <1>2, <1>3 DEF Next, Command

LEMMA OtherWitness ==
    ASSUME Ledgers, Readings, NEW p \in Runs, Command(p), NEW q \in Runs \ {p}
    PROVE  witness'[q] = witness[q]
BY DEF Readings, Command, Load, Introspect, ReadTableDDL, PlanFromDDL, Begin, FirstIntrospection,
       SecondIntrospection, TakeSnapshot, ExecuteOnMySQL, ExecuteInTransaction, CommitTransaction,
       Finish, Crash, Unread

\* A snapshot once saved stays.
LEMMA SnapshotStays ==
    ASSUME SnapshotInv, Next, NEW r \in Runs, snapshot[r] # None
    PROVE  snapshot'[r] = snapshot[r]
<1>1. pc[r] \in {"execute", "finish", "done", "dead"} /\ DOMAIN snapshot = Runs
  BY DEF SnapshotInv, RunInv, SnapshotTrue, Shapes
<1>2. \A p \in Runs : TakeSnapshot(p) => snapshot'[r] = snapshot[r]
  BY <1>1 DEF TakeSnapshot
<1>3. ASSUME NEW p \in Runs, Command(p), ~TakeSnapshot(p) PROVE snapshot' = snapshot
  BY <1>3 DEF Command, Load, Introspect, ReadTableDDL, PlanFromDDL, Begin, FirstIntrospection,
         SecondIntrospection, ExecuteOnMySQL, ExecuteInTransaction, CommitTransaction, Finish, Crash
<1>4. CASE ForeignDDL \/ ForeignStructure \/ AllEnded
  BY <1>4 DEF ForeignDDL, ForeignStructure, AllEnded, vars
<1> QED BY <1>2, <1>3, <1>4 DEF Next, Command

LEMMA CourseFrame ==
    ASSUME NEW q \in Runs, CourseInv(q), SnapshotInv, Next,
           /\ pc'[q] = pc[q] /\ job'[q] = job[q] /\ base'[q] = base[q] /\ done'[q] = done[q]
           /\ err'[q] = err[q] /\ work'[q] = work[q] /\ witness'[q] = witness[q],
           job[q].from \in Runs \cup {None},
           drift'[q] = drift[q] \/ pc[q] \notin {"execute", "finish"},
           pc[q] \in Watched /\ ~disturbed'[q] => db' = db /\ ~disturbed[q]
    PROVE  CourseInv(q)'
<1>1. Statements(q)' = Statements(q)
  BY DEF Statements
<1>2. PlanLength(q)' = PlanLength(q) /\ \A i : ReachedBy(q, i)' = ReachedBy(q, i)
  BY <1>1 DEF PlanLength, ReachedBy
<1>3. db' = db => TransactionView(q)' = TransactionView(q)
  BY DEF TransactionView, LockedBy
<1>4. Source(q)'
  BY SnapshotStays DEF Source, CourseInv
<1>6. ReachedBy(q, done[q])' = ReachedBy(q, done[q])
  BY <1>1 DEF ReachedBy
<1>7. pc'[q] = "secondDDL" /\ ~disturbed'[q] => db' = witness'[q]
  BY DEF CourseInv, Watched
<1>8. pc'[q] = "execute" /\ Trusted(q)' => Underway(q)'
  BY <1>3, <1>6 DEF CourseInv, Watched, Trusted, Underway
<1>9. ReachedBy(q, PlanLength(q))' = ReachedBy(q, PlanLength(q))
  BY <1>1, <1>2 DEF ReachedBy
<1>10. pc'[q] = "finish" /\ Trusted(q)' /\ err'[q] = NoError => db' = ReachedBy(q, PlanLength(q))'
  BY <1>9 DEF CourseInv, Watched, Trusted
<1> QED BY <1>4, <1>7, <1>8, <1>10 DEF CourseInv

-----------------------------------------------------------------------------
(* The course of a run. *)

LEMMA PlanLeads ==
    ASSUME Ledgers, Readings, NEW p \in Runs
    PROVE  /\ ReachedBy(p, 0) = base[p]
           /\ \A i \in 1..PlanLength(p) :
                ReachedBy(p, i) = Executed(Statements(p)[i], ReachedBy(p, i - 1))
           /\ ReachedBy(p, PlanLength(p)) = Reconciled(base[p], job[p])
<1>1. base[p] \in Schemas /\ job[p].desired \in Schemas
  BY DEF Ledgers, Readings, JobType
<1>2. Leads(Statements(p), base[p], Reconciled(base[p], job[p]))
  BY <1>1, PlanSound DEF Statements
<1>3. DOMAIN Statements(p) = 1..PlanLength(p)
  BY PlanType
<1> QED BY <1>2, <1>3, LeadsReached DEF ReachedBy, PlanLength

LEMMA SourceKept ==
    ASSUME NEW p \in Runs, SnapshotInv, Next, CourseInv(p), job'[p] = job[p],
           pc[p] \notin {"load", "done", "dead"}, job[p].from \in Runs \cup {None}
    PROVE  Source(p)'
BY SnapshotStays DEF CourseInv, Source

\* Up to the snapshot.
LEMMA CoursePlanned ==
    ASSUME ExecutionInv, SnapshotInv, Next, NEW p \in Runs, CourseInv(p),
           disturbed \in [Runs -> BOOLEAN],
           \/ Load(p) \/ Introspect(p) \/ PlanFromDDL(p) \/ Begin(p)
           \/ FirstIntrospection(p) \/ ReadTableDDL(p) \/ SecondIntrospection(p)
    PROVE  CourseInv(p)'
<1>1. Ledgers /\ Readings /\ job[p].from \in Runs \cup {None}
  BY DEF ExecutionInv, Ledgers, JobType
<1>2. CASE Load(p)
  <2>1. /\ pc'[p] \in {"read", "done"} /\ job[p].from \in Runs
        /\ pc'[p] = "read" =>
             /\ snapshot[job[p].from] # None /\ snapshot' = snapshot
             /\ \E raw : job' = [job EXCEPT ![p].desired = snapshot[job[p].from], ![p].raw = raw]
    BY <1>1, <1>2 DEF Load, Goto, Ledgers
  <2>2. ASSUME pc'[p] = "read" PROVE Source(p)'
    <3>1. job[p] \in JobType
      BY <1>1 DEF Ledgers
    <3>2. job'[p].from = job[p].from /\ job'[p].desired = snapshot[job[p].from]
      BY <1>1, <2>1, <2>2, <3>1 DEF Ledgers, JobType
    <3> QED BY <2>1, <2>2, <3>2 DEF Source
  <2> QED BY <2>1, <2>2 DEF CourseInv, Source, AfterIntent
<1>3. CASE Introspect(p) \/ PlanFromDDL(p) \/ Begin(p)
  <2>1. /\ pc[p] \in {"read", "baseDDL", "plan"} /\ UNCHANGED job
        /\ pc'[p] \in {"baseDDL", "plan", "first", "done"}
    BY <1>1, <1>3 DEF Introspect, PlanFromDDL, Begin, Goto, Ledgers
  <2>2. Source(p)'
    BY <1>1, <2>1, SourceKept
  <2> QED BY <2>1, <2>2 DEF CourseInv
<1>4. CASE FirstIntrospection(p) \/ ReadTableDDL(p) \/ SecondIntrospection(p)
  <2>1. /\ pc[p] \in {"baseDDL", "first", "firstDDL", "secondDDL"}
        /\ UNCHANGED <<job, base, db, disturbed>>
    BY <1>4 DEF FirstIntrospection, ReadTableDDL, SecondIntrospection, Calm
  <2>2. /\ pc'[p] \in {"baseDDL", "firstDDL", "secondDDL", "done"}
        /\ pc'[p] = "secondDDL" =>
             \/ pc[p] = "secondDDL" /\ witness' = witness
             \/ witness'[p] = db
        /\ pc'[p] # "done" => (pc'[p] = "baseDDL" <=> pc[p] = "baseDDL")
    <3>1. CASE FirstIntrospection(p)
      BY <1>1, <3>1 DEF FirstIntrospection, Skip, Goto, Ledgers
    <3>2. CASE ReadTableDDL(p)
      BY <1>1, <3>2 DEF ReadTableDDL, Skip, Goto, Ledgers
    <3>3. CASE SecondIntrospection(p)
      BY <1>1, <3>3 DEF SecondIntrospection, Skip, Goto, Ledgers, Readings
    <3> QED BY <1>4, <3>1, <3>2, <3>3
  <2>3. Source(p)'
    BY <1>1, <2>1, SourceKept
  <2> QED BY <2>1, <2>2, <2>3 DEF CourseInv
<1> QED BY <1>2, <1>3, <1>4

\* The statements start on the schema they were planned for.
LEMMA CourseBegun ==
    ASSUME SuccessInv, Next, NEW p \in Runs, TakeSnapshot(p)
    PROVE  CourseInv(p)'
<1>1. /\ Ledgers /\ Readings /\ Worlds /\ SnapshotInv /\ CourseInv(p) /\ AccountInv(p)
      /\ job[p].from \in Runs \cup {None} /\ pc[p] = "secondDDL"
      /\ UNCHANGED <<job, base, db, disturbed, done, work, witness>>
  BY DEF SuccessInv, ExecutionInv, Ledgers, JobType, TakeSnapshot, Calm, Unread
<1>2. Source(p)'
  BY <1>1, SourceKept
<1>4. CASE pc'[p] = "execute"
  <2>1. RunInv(p)'
    BY <1>1, SnapshotTaken
  <2>2. drift'[p] <= 2 => witness[p] = base[p]
    BY <1>1, <1>4, <2>1 DEF RunInv, SnapshotTrue
  <2>3. ~disturbed[p] => db = witness[p]
    BY <1>1 DEF CourseInv
  <2>4. done[p] = 0
    BY <1>1 DEF AccountInv, BeforeExecution
  <2>5. TransactionView(p) = db
    <3>1. LockedBy(p) = {}
      BY <1>1 DEF SuccessInv, Transactions
    <3> QED BY <1>1, <3>1 DEF TransactionView, Worlds, Schemas
  <2>6. ReachedBy(p, 0) = base[p]
    BY <1>1, PlanLeads
  <2>7. Trusted(p)' => Underway(p)
    BY <1>1, <2>2, <2>3, <2>4, <2>5, <2>6 DEF Trusted, Underway
  <2>8. Underway(p)' = Underway(p)
    <3>1. Statements(p)' = Statements(p)
      BY <1>1 DEF Statements
    <3>2. ReachedBy(p, done[p])' = ReachedBy(p, done[p]) /\ TransactionView(p)' = TransactionView(p)
      BY <1>1, <3>1 DEF ReachedBy, TransactionView, LockedBy
    <3> QED BY <1>1, <3>2 DEF Underway
  <2> QED BY <1>1, <1>2, <1>4, <2>7, <2>8 DEF CourseInv
<1>5. CASE pc'[p] # "execute"
  <2>1. pc'[p] = "done"
    BY <1>1, <1>5 DEF TakeSnapshot, Skip, Goto, Ledgers
  <2> QED BY <1>2, <2>1 DEF CourseInv, AfterIntent
<1> QED BY <1>4, <1>5

\* A statement leads from one schema of the plan to the next.
LEMMA CourseExecuted ==
    ASSUME SuccessInv, Next, NEW p \in Runs,
           ExecuteOnMySQL(p) \/ ExecuteInTransaction(p) \/ CommitTransaction(p)
    PROVE  CourseInv(p)'
<1>1. /\ Ledgers /\ Readings /\ Worlds /\ SnapshotInv /\ CourseInv(p) /\ AccountInv(p)
      /\ job[p].from \in Runs \cup {None} /\ pc[p] = "execute" /\ UNCHANGED <<job, base>>
      /\ pc'[p] \in {"execute", "finish"}
  BY ExecutionAccount DEF SuccessInv, ExecutionInv, Ledgers, JobType, ExecuteOnMySQL,
     ExecuteInTransaction, CommitTransaction, Unread
<1>2. Source(p)'
  BY <1>1, SourceKept
<1>3. /\ Statements(p)' = Statements(p) /\ PlanLength(p)' = PlanLength(p)
      /\ \A i : Reached(Statements(p)', i, base'[p]) = ReachedBy(p, i)
  BY <1>1 DEF Statements, PlanLength, ReachedBy
<1>4. /\ PlanLength(p) \in Nat /\ done[p] \in Nat /\ done[p] <= PlanLength(p)
      /\ Statements(p) \in Seq(Changes) /\ DOMAIN Statements(p) = 1..PlanLength(p)
  BY <1>1, PlanType, AccountingAssumption DEF Ledgers, AccountInv
<1>5. disturbed'[p] = disturbed[p] /\ drift'[p] = drift[p] /\ err[p] = NoError
  <2>1. disturbed \in [Runs -> BOOLEAN] /\ drift \in [Runs -> Nat]
    BY <1>1 DEF SuccessInv, SnapshotInv, Shapes
  <2> QED BY <1>1, <2>1 DEF ExecuteOnMySQL, ExecuteInTransaction, CommitTransaction, Noticed, Calm,
             AccountInv
<1>6. Trusted(p)' => Trusted(p) /\ Underway(p)
  BY <1>1, <1>5 DEF Trusted, CourseInv
<1>7. BackendError # NoError /\ CommitError # NoError
  BY SchemaErrors
<1> DEFINE stmt == Statements(p)[done[p] + 1]
<1>8. done[p] < PlanLength(p) =>
        stmt \in Changes /\ ReachedBy(p, done[p] + 1) = Executed(stmt, ReachedBy(p, done[p]))
  BY <1>1, <1>2, <1>4, PlanLeads
<1>9. CASE ExecuteOnMySQL(p)
  <2>1. done[p] < PlanLength(p) /\ Engine = "mysql"
    BY <1>9 DEF ExecuteOnMySQL, PlanLength
  <2>2. \/ pc'[p] = "execute" /\ done'[p] = done[p] + 1 /\ db' = Executed(stmt, db)
        \/ pc'[p] = "finish" /\ err'[p] = BackendError
    BY <1>1, <1>9 DEF ExecuteOnMySQL, Return, Goto, Ledgers, Changed
  <2> HIDE DEF stmt
  <2>3. pc'[p] = "execute" /\ Trusted(p)' => Underway(p)'
    BY <1>3, <1>6, <1>8, <2>1, <2>2 DEF Underway, ReachedBy
  <2> QED BY <1>2, <1>7, <2>2, <2>3 DEF CourseInv
<1>10. CASE ExecuteInTransaction(p)
  <2>1. done[p] < PlanLength(p) /\ Engine = "postgres" /\ UNCHANGED db
    BY <1>10 DEF ExecuteInTransaction, PlanLength, Calm
  <2> DEFINE touched == LockedBy(p) \cup Touched(stmt, TransactionView(p))
  <2>2. \/ /\ pc'[p] = "execute" /\ done'[p] = done[p] + 1
           /\ work'[p] = [t \in touched |-> Executed(stmt, TransactionView(p))[t]]
        \/ pc'[p] = "finish" /\ err'[p] = BackendError
    BY <1>1, <1>10 DEF ExecuteInTransaction, Return, Goto, Ledgers, Worlds
  <2>3. stmt \in Changes /\ TransactionView(p) \in Schemas /\ stmt.table \in touched
    BY <1>1, <1>8, <2>1, ViewType, TouchedTables
  <2> HIDE DEF stmt
  <2>4. Executed(stmt, TransactionView(p)) \in Schemas
    BY <2>3, ExecutedType DEF Changes
  <2>5. \A t \in Tables \ {stmt.table} :
          Executed(stmt, TransactionView(p))[t] = TransactionView(p)[t]
    <3>1. \E v : Executed(stmt, TransactionView(p)) = [TransactionView(p) EXCEPT ![stmt.table] = v]
      BY Zenon DEF Executed
    <3> QED BY <2>3, <3>1 DEF Schemas
  <2>6. ASSUME pc'[p] = "execute"
        PROVE  TransactionView(p)' = Executed(stmt, TransactionView(p))
    <3>1. work'[p] = [t \in touched |-> Executed(stmt, TransactionView(p))[t]]
      BY <2>2, <2>6
    <3>2. ASSUME NEW t \in Tables
          PROVE  TransactionView(p)'[t] = Executed(stmt, TransactionView(p))[t]
      <4>1. TransactionView(p)'[t] = IF t \in touched THEN Executed(stmt, TransactionView(p))[t]
                                     ELSE db[t]
        BY <2>1, <3>1 DEF TransactionView, LockedBy
      <4>2. t \notin touched => TransactionView(p)[t] = db[t] /\ t # stmt.table
        BY <2>3 DEF TransactionView
      <4> HIDE DEF touched
      <4> QED BY <2>5, <4>1, <4>2
    <3>3. TransactionView(p)' = [t \in Tables |-> TransactionView(p)'[t]]
      BY DEF TransactionView
    <3>4. Executed(stmt, TransactionView(p)) = [t \in Tables |-> Executed(stmt, TransactionView(p))[t]]
      BY <2>4 DEF Schemas
    <3> QED BY <3>2, <3>3, <3>4
  <2>7. pc'[p] = "execute" /\ Trusted(p)' => Underway(p)'
    <3>1. Engine # "mysql"
      BY <2>1
    <3> QED BY <1>1, <1>3, <1>6, <1>8, <2>1, <2>2, <2>6, <3>1 DEF Underway, ReachedBy
  <2> QED BY <1>2, <1>7, <2>2, <2>7 DEF CourseInv
<1>11. CASE CommitTransaction(p)
  <2>1. done[p] = PlanLength(p) /\ Engine # "mysql" /\ pc'[p] = "finish"
    BY <1>1, <1>11 DEF CommitTransaction, PlanLength, Return, Goto, Ledgers
  <2>2. err'[p] = NoError => db' = TransactionView(p)
    BY <1>1, <1>7, <1>11 DEF CommitTransaction, Return, Changed, Ledgers
  <2>3. Trusted(p)' /\ err'[p] = NoError => db' = ReachedBy(p, PlanLength(p))
    BY <1>6, <2>1, <2>2 DEF Underway
  <2>4. ReachedBy(p, PlanLength(p))' = ReachedBy(p, PlanLength(p))
    BY <1>3 DEF ReachedBy
  <2> QED BY <1>2, <2>1, <2>3, <2>4 DEF CourseInv
<1> QED BY <1>9, <1>10, <1>11

LEMMA SuccessInit == Init => SuccessInv
<1> SUFFICES ASSUME Init PROVE SuccessInv
  OBVIOUS
<1>1. /\ \A p \in Runs : LockedBy(p) = {} /\ pc[p] \in {"load", "read"}
      /\ \A p \in Runs : job[p].from # None => pc[p] = "load"
      /\ disturbed \in [Runs -> BOOLEAN]
  BY DEF Init, LockedBy, Untouched
<1>2. \A p \in Runs : CourseInv(p)
  BY <1>1 DEF CourseInv, Source, AfterIntent
<1> QED BY <1>1, <1>2, ExecutionInit, SnapshotInit DEF SuccessInv, Transactions, AuthorityInv, AfterIntent

LEMMA SuccessStep ==
    SuccessInv /\ [Next]_vars => SuccessInv'
<1> SUFFICES ASSUME SuccessInv, [Next]_vars
             PROVE  SuccessInv'
  OBVIOUS
<1>1. SnapshotInv' /\ ExecutionInv'
  BY SnapshotStep, ExecutionStep DEF SuccessInv
<1>2. CASE Next
  <2>1. Transactions' /\ AuthorityInv'
    BY <1>2, TransactionsStep, AuthorityStep DEF SuccessInv
  <2>2. disturbed' \in [Runs -> BOOLEAN]
    BY <1>2, WorldWatched DEF SuccessInv
  <2>3. /\ Ledgers /\ Readings /\ Worlds /\ ExecutionInv /\ SnapshotInv /\ Shapes
        /\ disturbed \in [Runs -> BOOLEAN] /\ drift \in [Runs -> Nat]
        /\ \A q \in Runs : CourseInv(q) /\ job[q].from \in Runs \cup {None}
    BY DEF SuccessInv, ExecutionInv, SnapshotInv, Shapes, Ledgers, JobType
  <2>4. ASSUME NEW q \in Runs, NEW changer, Noticed(changer), changer # q
        PROVE  /\ drift'[q] = drift[q] \/ pc[q] \notin {"execute", "finish"}
               /\ pc[q] \in Watched => disturbed'[q]
    BY <2>3, <2>4 DEF Noticed, Watched
  <2>5. CASE \E p \in Runs : Command(p)
    <3>1. PICK p \in Runs : Command(p)
      BY <2>5
    <3>2. CourseInv(p)'
      <4>1. CASE Finish(p) \/ Crash(p)
        <5>1. pc'[p] \in {"done", "dead"}
          BY <2>3, <4>1 DEF Finish, Crash, Goto, Ledgers
        <5> QED BY <5>1 DEF CourseInv, Source, AfterIntent
      <4>2. CASE ~Finish(p) /\ ~Crash(p)
        BY <1>2, <2>3, <3>1, <4>2, CoursePlanned, CourseBegun, CourseExecuted DEF Command
      <4> QED BY <4>1, <4>2
    <3>3. ASSUME NEW q \in Runs \ {p} PROVE CourseInv(q)'
      <4>1. /\ pc'[q] = pc[q] /\ job'[q] = job[q] /\ base'[q] = base[q] /\ done'[q] = done[q]
            /\ err'[q] = err[q] /\ work'[q] = work[q] /\ witness'[q] = witness[q]
        BY <2>3, <3>1, OtherAccounts, OtherLocks, OtherWitness
      <4>2. \/ db' = db /\ disturbed' = disturbed
            \/ Noticed(p)
        <5>1. CASE ExecuteOnMySQL(p)
          BY <5>1 DEF ExecuteOnMySQL
        <5>2. CASE CommitTransaction(p)
          BY <5>2 DEF CommitTransaction
        <5>3. CASE ~ExecuteOnMySQL(p) /\ ~CommitTransaction(p)
          BY <3>1, <5>3 DEF Command, Load, Introspect, ReadTableDDL, PlanFromDDL, Begin,
                 FirstIntrospection, SecondIntrospection, TakeSnapshot, ExecuteInTransaction,
                 Finish, Crash, Calm
        <5> QED BY <5>1, <5>2, <5>3
      <4>3. drift'[q] = drift[q] \/ pc[q] \notin {"execute", "finish"}
        <5>1. drift' = drift \/ Noticed(p)
          <6>1. CASE ExecuteOnMySQL(p)
            BY <6>1 DEF ExecuteOnMySQL
          <6>2. CASE CommitTransaction(p)
            BY <6>2 DEF CommitTransaction
          <6>3. CASE ~ExecuteOnMySQL(p) /\ ~CommitTransaction(p)
            BY <3>1, <6>3 DEF Command, Load, Introspect, ReadTableDDL, PlanFromDDL, Begin,
                   FirstIntrospection, SecondIntrospection, TakeSnapshot, ExecuteInTransaction,
                   Finish, Crash, Calm
          <6> QED BY <6>1, <6>2, <6>3
        <5> QED BY <2>4, <5>1
      <4>4. pc[q] \in Watched /\ ~disturbed'[q] => db' = db /\ ~disturbed[q]
        BY <2>4, <4>2
      <4> QED BY <1>2, <2>3, <4>1, <4>3, <4>4, CourseFrame
    <3> QED BY <1>1, <2>1, <2>2, <3>2, <3>3 DEF SuccessInv
  <2>6. CASE ForeignDDL \/ ForeignStructure
    <3>1. Noticed(None) /\ UNCHANGED <<pc, job, base, done, work, err, witness>>
      BY <2>6 DEF ForeignDDL, ForeignStructure, Unread
    <3>2. ASSUME NEW q \in Runs PROVE CourseInv(q)'
      <4>1. None # q
        BY ExecutionAssumption
      <4> QED BY <1>2, <2>3, <2>4, <3>1, <4>1, CourseFrame
    <3> QED BY <1>1, <2>1, <2>2, <3>2 DEF SuccessInv
  <2>7. CASE AllEnded
    <3>1. \A q \in Runs : CourseInv(q)'
      BY <1>2, <2>3, <2>7, CourseFrame DEF AllEnded, vars
    <3> QED BY <1>1, <2>1, <2>2, <3>1 DEF SuccessInv
  <2> QED BY <1>2, <2>5, <2>6, <2>7 DEF Next, Command
<1>3. CASE UNCHANGED vars
  <2>1. Transactions' /\ AuthorityInv' /\ disturbed' \in [Runs -> BOOLEAN]
    BY <1>3 DEF SuccessInv, Transactions, AuthorityInv, Traced, LockedBy, Statements, vars
  <2>2. ASSUME NEW q \in Runs PROVE CourseInv(q)'
    <3>1. CourseInv(q)
      BY DEF SuccessInv
    <3>2. Statements(q)' = Statements(q) /\ TransactionView(q)' = TransactionView(q)
      BY <1>3 DEF Statements, vars, TransactionView, LockedBy
    <3>3. /\ PlanLength(q)' = PlanLength(q) /\ Source(q)' = Source(q)
          /\ ReachedBy(q, done[q])' = ReachedBy(q, done[q])
          /\ ReachedBy(q, PlanLength(q))' = ReachedBy(q, PlanLength(q))
          /\ Trusted(q)' = Trusted(q)
      BY <1>3, <3>2 DEF PlanLength, Source, ReachedBy, Trusted, vars
    <3>4. Underway(q)' = Underway(q)
      BY <1>3, <3>2, <3>3 DEF Underway, vars
    <3> QED BY <1>3, <3>1, <3>3, <3>4 DEF CourseInv, vars
  <2> QED BY <1>1, <2>1, <2>2 DEF SuccessInv
<1> QED BY <1>2, <1>3

-----------------------------------------------------------------------------
\* Only finishDDLMutationAudit after an error-free ExecDDL reports success.
LEMMA SuccessReported ==
    ASSUME SuccessInv, Next, NEW p \in Runs, pc'[p] = "done",
           outcome'[p] # outcome[p], outcome'[p].status = "succeeded"
    PROVE  /\ Finish(p) /\ err[p] = NoError
           /\ pc[p] = "finish" \/ (pc[p] = "execute" /\ Engine = "mysql" /\ done[p] = PlanLength(p))
<1>1. Ledgers /\ Readings /\ AccountInv(p)
  BY DEF SuccessInv, ExecutionInv
<1>2. Command(p)
  <2>1. PICK r \in Runs : Command(r)
    BY DEF Next, Command, ForeignDDL, ForeignStructure, AllEnded, vars
  <2> QED BY <1>1, <2>1, OtherAccounts
<1>3. PlanLength(p) \in 0..MaxCount /\ PlanLength(p) \in Nat
  BY <1>1, PlanType, AccountingAssumption
<1>4. ASSUME NEW code \in {"CONFLICT", "BACKEND_ERROR"}, Skip(p, code) PROVE FALSE
  <2> DEFINE error == [code |-> code, effect |-> "known"]
  <2>1. error \in Errors /\ Failed(error)
    BY SchemaErrors, ExecutionAssumption, AccountingAssumption DEF Failed, Unset
  <2>2. outcome'[p] = SkippedOutcome(PlanLength(p), error)
    BY <1>1, <1>4 DEF Skip, Ledgers, PlanLength
  <2> HIDE DEF error
  <2>3. SkippedOutcome(PlanLength(p), error).status \in {"failed", "partial"}
    BY <1>3, <2>1, ProgressFields DEF SkippedOutcome
  <2> QED BY <2>2, <2>3
<1>5. Finish(p)
  <2>1. CASE ReadTableDDL(p)
    BY <1>4, <2>1 DEF ReadTableDDL
  <2>2. CASE FirstIntrospection(p)
    BY <1>4, <2>2 DEF FirstIntrospection
  <2>3. CASE SecondIntrospection(p)
    BY <1>4, <2>3 DEF SecondIntrospection
  <2>4. CASE TakeSnapshot(p)
    BY <1>4, <2>4 DEF TakeSnapshot
  <2>5. CASE Load(p) \/ Introspect(p) \/ PlanFromDDL(p) \/ Begin(p) \/ Crash(p)
    BY <2>5 DEF Load, Introspect, PlanFromDDL, Begin, Crash
  <2>6. CASE ExecuteOnMySQL(p) \/ ExecuteInTransaction(p) \/ CommitTransaction(p)
    BY <2>6 DEF ExecuteOnMySQL, ExecuteInTransaction, CommitTransaction
  <2> QED BY <1>2, <2>1, <2>2, <2>3, <2>4, <2>5, <2>6 DEF Command
<1>6. pc[p] = "finish" \/ (pc[p] = "execute" /\ Engine = "mysql" /\ done[p] = PlanLength(p))
  BY <1>5 DEF Finish, PlanLength
<1>7. err[p] = NoError
  <2>1. CASE pc[p] = "execute"
    BY <1>1, <2>1 DEF AccountInv
  <2>2. CASE pc[p] = "finish"
    <3> DEFINE n == PlanLength(p)
               o == DDLOutcome(n, done[p], err[p])
    <3>1. Returned(p) /\ outcome[p] = None /\ done[p] \in 0..n /\ n \in 0..MaxCount
      BY <1>1, <1>3, <2>2 DEF AccountInv, Ledgers
    <3>2. outcome'[p] = IF ValidMutationOutcome(o, n) THEN o ELSE None
      BY <1>1, <1>5 DEF Finish, PlanLength, Ledgers
    <3>3. outcome'[p] = o
      BY <3>1, <3>2
    <3>4. ASSUME Failed(err[p]) PROVE o.status # "succeeded"
      <4>1. err[p] \in Errors /\ err[p].code \in Codes
        BY <1>1, <3>4, ErrorCodes DEF Ledgers
      <4>2. CASE IsCommitIndeterminate(err[p])
        <5>1. o = Completed(Tally("failed", Unset, 0, 0, n, 0, done[p]), err[p])
          BY <4>2 DEF DDLOutcome
        <5>2. n \in Nat /\ done[p] \in Nat
          BY <1>3, <3>1
        <5> HIDE DEF n, o
        <5>3. o = Tally("failed", err[p].code, 0, 0, n, 0, done[p])
          BY <4>1, <5>1, <5>2, CompletedForm
        <5> QED BY <5>3 DEF Tally
      <4>3. CASE ~IsCommitIndeterminate(err[p])
        <5>1. BatchAttempted(n, done[p], err[p]) \in done[p]..n
          BY <1>3, <3>1 DEF BatchAttempted
        <5>2. o = ProgressOutcome(n, done[p], BatchAttempted(n, done[p], err[p]), err[p])
          BY <4>3 DEF DDLOutcome, BatchOutcome
        <5>3. o.status \in {"failed", "partial"}
          BY <3>1, <3>4, <4>1, <5>1, <5>2, ProgressFields
        <5> QED BY <5>3
      <4> QED BY <4>2, <4>3
    <3>5. ~Failed(err[p])
      BY <3>3, <3>4
    <3> QED BY <3>1, <3>5, SchemaErrors DEF Returned
  <2> QED BY <1>6, <2>1, <2>2
<1> QED BY <1>5, <1>6, <1>7

\* What the plan was made for is what was asked for, where the snapshot a rollback goes back to
\* is the database that the run which saved it saw.
LEMMA DesiredIsAsked ==
    ASSUME SuccessInv, NEW p \in Runs, Reliable(p), pc[p] \in AfterIntent
    PROVE  job[p].desired = Asked(p)
<1>1. CASE job[p].from = None
  BY <1>1 DEF Asked
<1>2. CASE job[p].from # None
  <2> DEFINE r == job[p].from
  <2>1. r \in Runs /\ Source(p) /\ RunInv(r)
    BY <1>2 DEF SuccessInv, ExecutionInv, Ledgers, JobType, SnapshotInv, CourseInv
  <2>2. snapshot[r] # None /\ job[p].desired = snapshot[r]
    BY <1>2, <2>1 DEF Source, AfterIntent
  <2>3. snapshot[r] = witness[r]
    BY <1>2, <2>1, <2>2 DEF RunInv, SnapshotTrue, Reliable
  <2> QED BY <1>2, <2>2, <2>3 DEF Asked
<1> QED BY <1>1, <1>2

\* A governed schema command that reports success and that nobody disturbed leaves the schema
\* it was asked for, on both databases, with any number of other runs; and a rollback leaves
\* the schema that the database really had.
THEOREM SuccessIsReal ==
    Spec => SuccessMeansDesired
<1> DEFINE Left(p) == /\ \A t \in Present(Asked(p)) :
                           IF job[p].command = "apply" THEN Alike(db[t], Asked(p)[t])
                           ELSE db[t] = Asked(p)[t]
                      /\ job[p].command \in {"prune", "rollback"} => db = Asked(p)
           Meant == \A p \in Runs :
                      (/\ pc'[p] = "done" /\ outcome'[p] # outcome[p]
                       /\ outcome'[p].status = "succeeded"
                       /\ ~disturbed[p] /\ Reliable(p)) => Left(p)
<1>1. ASSUME SuccessInv, Next, NEW p \in Runs, pc'[p] = "done", outcome'[p] # outcome[p],
             outcome'[p].status = "succeeded", ~disturbed[p], Reliable(p)
      PROVE  Left(p)
  <2>1. /\ err[p] = NoError
        /\ pc[p] = "finish" \/ (pc[p] = "execute" /\ Engine = "mysql" /\ done[p] = PlanLength(p))
    BY <1>1, SuccessReported
  <2>2. CourseInv(p) /\ Ledgers /\ Readings /\ Trusted(p)
    BY <1>1 DEF SuccessInv, ExecutionInv, Trusted, Reliable
  <2>3. db = ReachedBy(p, PlanLength(p))
    BY <2>1, <2>2 DEF CourseInv, Underway, AfterIntent
  <2>4. /\ base[p] \in Schemas /\ job[p] \in JobType /\ ~Unsupported(base[p], job[p])
        /\ pc[p] \in AfterIntent
    BY <1>1, <2>1 DEF SuccessInv, AuthorityInv, Begun, AfterIntent
  <2>5. db = Goal(base[p], job[p])
    BY <2>2, <2>3, <2>4, PlanLeads, GoalReconciled
  <2>6. job[p].desired = Asked(p)
    BY <1>1, <2>4, DesiredIsAsked
  <2>7. ASSUME NEW t \in Present(Asked(p)), job[p].command = "apply"
        PROVE  Alike(db[t], Asked(p)[t])
    <3>1. db[t] = Conformed(base[p][t], Asked(p)[t])
      BY <2>5, <2>6, <2>7 DEF Goal, Present
    <3> QED BY <3>1 DEF Conformed, Alike
  <2>8. ASSUME NEW t \in Present(Asked(p)), job[p].command # "apply"
        PROVE  db[t] = Asked(p)[t]
    BY <2>5, <2>6, <2>8 DEF Goal, Present
  <2>9. job[p].command \in {"prune", "rollback"} => db = Asked(p)
    BY <2>5, <2>6 DEF Goal
  <2> QED BY <2>7, <2>8, <2>9
<1>2. ASSUME SuccessInv, [Next]_vars PROVE [Meant]_vars
  BY <1>1, <1>2
<1> HIDE DEF Meant
<1>3. Spec => [][Meant]_vars
  BY <1>2, SuccessInit, SuccessStep, PTL DEF Spec
<1> QED BY <1>3 DEF Meant, SuccessMeansDesired
=============================================================================
