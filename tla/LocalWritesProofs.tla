-------------------------- MODULE LocalWritesProofs --------------------------
(* The files of the tool proved, for any number of invocations, requests    *)
(* and directories: what a power loss leaves of what was counted as         *)
(* written, what the outcome on record says of a dump, an export or an      *)
(* install, and which snapshots a rollback list shows.                      *)
EXTENDS LocalWrites, OutcomeAccountingProofs

Workers == Writers \cup Savers
Control == {"start", "root", "item", "file", "temp", "settle", "execute", "load", "done", "dead"}
Items(p) == Len(job[p].items)

JobsInv ==
    /\ \A p \in Writers :
         job[p] \in Requests /\ (pc[p] \notin {"start", "done"} => ~Reserved(job[p].root))
    /\ \A p \in Savers : job[p] = [root |-> SnapshotDir, items |-> <<SnapshotPath(p)>>]

LocalTypes ==
    /\ pc \in [Procs -> Control] /\ JobsInv
    /\ \A v \in Viewers : pc[v] \in {"start", "load", "done", "dead"}
    /\ attempted \in [Procs -> Nat] /\ written \in [Procs -> Nat]
    /\ DOMAIN outcome = Procs /\ touched \in [Procs -> SUBSET Nat]
    /\ faults \in 0..MaxFaults

TreeTypes ==
    /\ dirs \subseteq Dirs /\ firmDirs \subseteq dirs
    /\ files \in [Paths -> Contents] /\ firm \in [Paths -> Contents]
    /\ temp \in [Procs -> Dirs \cup {None}] /\ owed \in [Procs -> Dirs \cup {None}]
    /\ DOMAIN maker = Dirs

ViewTypes ==
    /\ changed \subseteq Savers
    /\ view \in [Procs -> (SUBSET (Savers \cup {None})) \cup {None}]
    /\ expected \in [Procs -> SUBSET Savers] /\ DOMAIN cause = Procs

\* The account of an invocation: nothing is counted that was not put in place.
Account(p) ==
    /\ attempted[p] <= Items(p) /\ written[p] <= attempted[p]
    /\ pc[p] \in {"start", "root"} => attempted[p] = 0
    /\ pc[p] \in {"start", "root", "item", "execute"} => attempted[p] = written[p]
    /\ pc[p] \in {"file", "temp", "settle"} => attempted[p] = written[p] + 1
    /\ pc[p] = "execute" \/ p \in changed => p \in Savers /\ written[p] = 1
    /\ pc[p] # "load"
    /\ touched[p] \subseteq 1..attempted[p] /\ 1..written[p] \subseteq touched[p]
    /\ pc[p] = "settle" => attempted[p] \in touched[p]
    /\ pc[p] # "done" => outcome[p] = None
    /\ p \in Writers /\ pc[p] = "done" /\ attempted[p] > 0 => outcome[p] # None
    /\ outcome[p] # None =>
         /\ 1..outcome[p].succeeded \subseteq touched[p]
         /\ touched[p] \subseteq 1..(Items(p) - outcome[p].skipped)

AccountsInv == LocalTypes /\ ViewTypes /\ \A p \in Workers : Account(p)

-----------------------------------------------------------------------------
(* Paths. *)

LEMMA LocalNames ==
    /\ \A p \in Writers : p \notin Savers /\ p \in Procs /\ p # None /\ p \in Workers
    /\ \A p \in Savers : p \notin Writers /\ p \in Procs /\ p # None /\ p \in Workers
    /\ Workers \subseteq Procs /\ None \notin Savers
    /\ \A v \in Viewers : v \notin Workers
BY LocalAssumption DEF Workers, Procs

LEMMA ItemPlace ==
    ASSUME LocalTypes, NEW p \in Workers
    PROVE  /\ Items(p) \in 0..MaxCount /\ Items(p) \in Nat /\ DOMAIN job[p].items = 1..Items(p)
           /\ \A i \in 1..Items(p) :
                /\ job[p].items[i] \in Paths /\ job[p].items[i].dir \in Dirs
                /\ p \in Savers => i = 1 /\ job[p].items[i] = SnapshotPath(p)
                /\ p \in Writers => /\ job[p].items[i].name \in Names
                                    /\ job[p].root \in Chain(job[p].items[i].dir)
           /\ job[p].root \in Dirs
           /\ p \in Savers => Items(p) = 1
<1>1. CASE p \in Writers
  <2>1. job[p] \in Requests
    BY <1>1 DEF LocalTypes, JobsInv
  <2>2. /\ job[p].items \in Seq([dir : Dirs, name : Names]) /\ job[p].root \in Dirs
        /\ Items(p) <= MaxCount
        /\ \A i \in DOMAIN job[p].items : job[p].root \in Chain(job[p].items[i].dir)
    BY <2>1, LocalAssumption DEF Items
  <2>3. Items(p) \in Nat /\ DOMAIN job[p].items = 1..Items(p)
    BY <2>2 DEF Items
  <2>4. \A i \in 1..Items(p) : job[p].items[i] \in Paths
    <3> TAKE i \in 1..Items(p)
    <3>1. job[p].items[i] \in Range(job[p].items)
      BY <2>3 DEF Range
    <3>2. Range(job[p].items) \in {Range(r.items) : r \in Requests}
      BY <2>1
    <3> QED BY <3>1, <3>2 DEF Paths
  <2>5. \A i \in 1..Items(p) : job[p].items[i] \in [dir : Dirs, name : Names]
    <3> TAKE i \in 1..Items(p)
    <3>1. i \in 1..Len(job[p].items)
      BY DEF Items
    <3> DEFINE T == [dir : Dirs, name : Names]
               list == job[p].items
    <3>2. list \in Seq(T) /\ i \in 1..Len(list)
      BY <2>2, <3>1
    <3> HIDE DEF T, list
    <3>3. list[i] \in T
      BY <3>2
    <3> QED BY <3>3 DEF T, list
  <2>6. p \notin Savers
    BY <1>1, LocalNames
  <2> QED BY <1>1, <2>2, <2>3, <2>4, <2>5, <2>6, AccountingAssumption
<1>2. CASE p \in Savers
  <2>1. /\ job[p] = [root |-> SnapshotDir, items |-> <<SnapshotPath(p)>>]
        /\ SnapshotPath(p) \in [dir : {SnapshotDir}, name : Savers]
    BY <1>2 DEF LocalTypes, JobsInv, SnapshotPath
  <2>2. SnapshotPath(p) \in Paths /\ SnapshotPath(p).dir = SnapshotDir
    <3> DEFINE Z == [dir : {SnapshotDir}, name : Savers]
    <3>1. SnapshotPath(p) \in Z
      BY <2>1
    <3> DEFINE U == UNION {Range(r.items) : r \in Requests}
    <3>2. Paths = U \cup Z
      BY Zenon DEF Paths
    <3> HIDE DEF Z, U
    <3> QED BY <3>1, <3>2 DEF SnapshotPath
  <2>3. job[p].items = <<SnapshotPath(p)>> /\ job[p].root = SnapshotDir
    BY <2>1
  <2>4. Items(p) = 1 /\ DOMAIN job[p].items = 1..1 /\ job[p].items[1] = SnapshotPath(p)
    BY <2>3 DEF Items
  <2>5. p \notin Writers
    BY <1>2, LocalNames
  <2>6. 1 \in 0..MaxCount
    BY AccountingAssumption
  <2> QED BY <1>2, <2>2, <2>3, <2>4, <2>5, <2>6, LocalAssumption
<1> QED BY <1>1, <1>2 DEF Workers

-----------------------------------------------------------------------------
(* The accounts. *)

LEMMA LocalErrors ==
    /\ NoError \in Errors /\ LocalError \in Errors /\ ~Failed(NoError) /\ Failed(LocalError)
BY LocalAssumption, AccountingAssumption DEF NoError, LocalError, Errors, Failed, Unset

\* The outcome of progress that adds up is recorded and true.
LEMMA ProgressHonestly ==
    ASSUME NEW total \in 0..MaxCount, NEW done \in 0..total, NEW tried \in done..total,
           NEW err \in Errors, Failed(err) \/ done = total
    PROVE  LET o == ProgressOutcome(total, done, tried, err)
           IN  /\ ProgressAccepted(total, done, tried, err)
               /\ ValidMutationOutcome(o, total) /\ o # None
               /\ o.succeeded = done /\ o.skipped = total - tried
<1> DEFINE o == ProgressOutcome(total, done, tried, err)
<1>1. o \in Outcomes /\ ValidMutationOutcome(o, total)
  BY ProgressForm, ProgressValid
<1>2. o.succeeded = done /\ o.skipped = total - tried
  BY ProgressFields
<1>3. ProgressAccepted(total, done, tried, err)
  BY AccountingAssumption DEF ProgressAccepted
<1>4. o # None
  BY <1>1, LocalAssumption
<1> HIDE DEF o
<1> QED BY <1>1, <1>2, <1>3, <1>4 DEF o

LEMMA Concluded ==
    ASSUME AccountsInv, NEW p \in Workers, NEW err \in Errors, Conclude(p, err),
           Failed(err) \/ (p \in Writers /\ written[p] = Items(p)),
           UNCHANGED <<job, attempted, written, changed>>, pc[p] # "done",
           touched'[p] = touched[p]
    PROVE  Account(p)'
<1>1. /\ Account(p) /\ LocalTypes /\ written[p] \in Nat /\ attempted[p] \in Nat
      /\ Items(p) \in 0..MaxCount /\ Items(p) \in Nat /\ Items(p)' = Items(p) /\ p \in Procs
  BY ItemPlace, LocalNames DEF AccountsInv, LocalTypes, Items
<1>2. written[p] \in 0..Items(p) /\ attempted[p] \in written[p]..Items(p)
  BY <1>1 DEF Account
<1> DEFINE o == ProgressOutcome(Items(p), written[p], attempted[p], err)
<1>3. /\ ProgressAccepted(Items(p), written[p], attempted[p], err)
      /\ ValidMutationOutcome(o, Items(p)) /\ o # None
      /\ o.succeeded = written[p] /\ o.skipped = Items(p) - attempted[p]
  BY <1>1, <1>2, ProgressHonestly
<1>4. pc'[p] = "done" /\ outcome'[p] = IF p \in Writers THEN o ELSE None
  BY <1>1, <1>3 DEF Conclude, Goto, Attempts, Items, LocalTypes
<1> HIDE DEF o
<1>5. Items(p) - o.skipped = attempted[p]
  BY <1>1, <1>3
<1> QED BY <1>1, <1>3, <1>4, <1>5 DEF Account

LEMMA WriteAccount ==
    ASSUME AccountsInv, NEW p \in Workers, Write(p)
    PROVE  Account(p)'
<1>1. /\ Account(p) /\ LocalTypes /\ p \in Procs /\ written[p] \in Nat /\ attempted[p] \in Nat
      /\ Items(p) \in Nat /\ touched[p] \in SUBSET Nat
      /\ UNCHANGED job /\ Items(p)' = Items(p)
  <2>1. UNCHANGED job
    BY DEF Write, BeginWriting, BeginSaving, MakeDirectory, SyncParent, NextItem, Complete,
           CreateTemp, Commit, Settle, Fail, Execute
  <2> QED BY <2>1, ItemPlace, LocalNames DEF AccountsInv, LocalTypes, Items
<1> USE DEF LocalTypes, Goto, accounts
<1>2. CASE BeginWriting(p)
  <2>1. /\ pc[p] = "start" /\ pc'[p] \in {"root", "done"}
        /\ UNCHANGED <<attempted, written, outcome, touched, changed>>
    BY <1>1, <1>2 DEF BeginWriting, tree
  <2> QED BY <1>1, <2>1 DEF Account
<1>3. CASE BeginSaving(p)
  <2>1. /\ pc[p] = "start" /\ pc'[p] = "root"
        /\ UNCHANGED <<attempted, written, outcome, touched, changed>>
    BY <1>1, <1>3 DEF BeginSaving, tree
  <2> QED BY <1>1, <2>1 DEF Account
<1>4. CASE MakeDirectory(p) \/ SyncParent(p)
  <2>1. UNCHANGED <<pc, attempted, written, outcome, touched, changed>>
    BY <1>4 DEF MakeDirectory, SyncParent
  <2> QED BY <1>1, <2>1 DEF Account
<1>5. CASE NextItem(p)
  <2>1. /\ pc[p] \in {"item", "root"} /\ pc'[p] = "file" /\ attempted'[p] = attempted[p] + 1
        /\ attempted[p] < Items(p) /\ UNCHANGED <<written, outcome, touched, changed>>
    BY <1>1, <1>5 DEF NextItem, BetweenItems, More, Items, tree
  <2>2. attempted[p] = written[p] /\ 1..attempted[p] \subseteq 1..(attempted[p] + 1)
    BY <1>1, <2>1 DEF Account
  <2> QED BY <1>1, <2>1, <2>2 DEF Account
<1>6. CASE Complete(p)
  <2>1. /\ pc[p] \in {"item", "root"} /\ ~(attempted[p] < Items(p))
        /\ UNCHANGED <<attempted, written, touched, changed>>
    BY <1>6 DEF Complete, BetweenItems, More, Items, tree
  <2>2. written[p] = Items(p) /\ attempted[p] = Items(p)
    BY <1>1, <2>1 DEF Account
  <2>3. CASE p \in Writers
    <3>1. Conclude(p, NoError)
      BY <1>6, <2>3 DEF Complete
    <3> QED BY <1>1, <2>1, <2>2, <2>3, <3>1, Concluded, LocalErrors
  <2>4. CASE p \notin Writers
    <3>1. pc'[p] = "execute" /\ UNCHANGED outcome /\ p \in Savers
      BY <1>1, <1>6, <2>4 DEF Complete, Workers
    <3>2. written[p] = 1
      <4>1. Items(p) = 1
        BY <1>1, <3>1, ItemPlace
      <4> QED BY <2>2, <4>1
    <3> QED BY <1>1, <2>1, <2>2, <3>1, <3>2, LocalNames DEF Account
  <2> QED BY <2>3, <2>4
<1>7. CASE CreateTemp(p)
  <2>1. pc[p] = "file" /\ UNCHANGED <<attempted, written, touched, changed>>
    BY <1>7 DEF CreateTemp
  <2>2. CASE Refused(Item(p))
    <3>1. Conclude(p, LocalError)
      BY <1>7, <2>2 DEF CreateTemp
    <3> QED BY <1>1, <2>1, <3>1, Concluded, LocalErrors
  <2>3. CASE ~Refused(Item(p))
    <3>1. pc'[p] = "temp" /\ UNCHANGED outcome
      BY <1>1, <1>7, <2>3 DEF CreateTemp
    <3> QED BY <1>1, <2>1, <3>1 DEF Account
  <2> QED BY <2>2, <2>3
<1>8. CASE Commit(p)
  <2>1. pc[p] = "temp" /\ UNCHANGED <<attempted, written, changed>>
    BY <1>8 DEF Commit
  <2>2. CASE Conclude(p, LocalError) /\ UNCHANGED touched
    BY <1>1, <2>1, <2>2, Concluded, LocalErrors
  <2>3. CASE ~(Conclude(p, LocalError) /\ UNCHANGED touched)
    <3>1. /\ pc'[p] = "settle" /\ UNCHANGED outcome
          /\ touched'[p] = touched[p] \cup {attempted[p]}
      BY <1>1, <1>8, <2>3 DEF Commit
    <3>2. attempted[p] = written[p] + 1
      BY <1>1, <2>1 DEF Account
    <3> QED BY <1>1, <2>1, <3>1, <3>2 DEF Account
  <2> QED BY <2>2, <2>3
<1>9. CASE Settle(p)
  <2>1. /\ pc[p] = "settle" /\ pc'[p] = "item" /\ written'[p] = written[p] + 1
        /\ UNCHANGED <<attempted, outcome, touched, changed>>
    BY <1>1, <1>9 DEF Settle
  <2>2. attempted[p] = written[p] + 1 /\ 1..(written[p] + 1) = 1..written[p] \cup {written[p] + 1}
    BY <1>1, <2>1 DEF Account
  <2>3. p \notin changed
    <3>1. p \in changed => Items(p) = 1 /\ written[p] = 1
      BY <1>1, ItemPlace DEF Account
    <3> QED BY <1>1, <2>2, <3>1 DEF Account
  <2> QED BY <1>1, <2>1, <2>2, <2>3 DEF Account
<1>10. CASE Fail(p)
  <2>1. /\ pc[p] \in {"root", "file", "temp", "settle"} /\ Conclude(p, LocalError)
        /\ UNCHANGED <<attempted, written, touched, changed>>
    BY <1>10 DEF Fail, AfterFailure
  <2> QED BY <1>1, <2>1, Concluded, LocalErrors
<1>11. CASE Execute(p)
  <2>1. /\ pc[p] = "execute" /\ pc'[p] = "done" /\ changed' = changed \cup {p}
        /\ UNCHANGED <<attempted, written, touched, outcome>>
    BY <1>1, <1>11 DEF Execute, tree
  <2> QED BY <1>1, <2>1, LocalNames DEF Account
<1> QED BY <1>2, <1>3, <1>4, <1>5, <1>6, <1>7, <1>8, <1>9, <1>10, <1>11 DEF Write

\* What an invocation does leaves the accounts of the others alone.
LEMMA WriteLocally ==
    ASSUME LocalTypes, NEW p \in Procs, Write(p), NEW q \in Procs, q # p
    PROVE  /\ pc'[q] = pc[q] /\ attempted'[q] = attempted[q] /\ written'[q] = written[q]
           /\ outcome'[q] = outcome[q] /\ touched'[q] = touched[q]
           /\ q \in changed' <=> q \in changed
           /\ job' = job
<1> USE DEF LocalTypes, Goto, accounts, tree, Conclude
<1>1. CASE BeginWriting(p) \/ BeginSaving(p) \/ MakeDirectory(p) \/ SyncParent(p)
  BY <1>1 DEF BeginWriting, BeginSaving, MakeDirectory, SyncParent
<1>2. CASE NextItem(p) \/ Complete(p) \/ CreateTemp(p)
  BY <1>2 DEF NextItem, Complete, CreateTemp
<1>3. CASE Commit(p) \/ Settle(p)
  BY <1>3 DEF Commit, Settle
<1>4. CASE Fail(p) \/ Execute(p)
  BY <1>4 DEF Fail, AfterFailure, Execute
<1> QED BY <1>1, <1>2, <1>3, <1>4 DEF Write

\* A viewer writes nothing.
LEMMA WritersWrite ==
    ASSUME LocalTypes, NEW p \in Procs, Write(p)
    PROVE  p \in Workers
<1>1. p \in Writers \/ p \in Savers
      \/ pc[p] \in {"root", "file", "item", "temp", "settle", "execute"}
  BY DEF Write, BeginWriting, BeginSaving, MakeDirectory, SyncParent, NextItem, Complete,
         BetweenItems, CreateTemp, Commit, Settle, Fail, Execute
<1> QED BY <1>1 DEF LocalTypes, Workers, Procs

LEMMA WriteTypes ==
    ASSUME AccountsInv, NEW p \in Workers, Write(p)
    PROVE  LocalTypes'
<1>1. /\ LocalTypes /\ p \in Procs /\ p \notin Viewers /\ Account(p)
      /\ written[p] \in Nat /\ attempted[p] \in Nat
  BY LocalNames DEF AccountsInv, LocalTypes
<1>2. job' = job
  BY <1>1 DEF Write, BeginWriting, BeginSaving, MakeDirectory, SyncParent, NextItem, Complete,
              CreateTemp, Commit, Settle, Fail, Execute
<1>3. /\ pc' \in [Procs -> Control]
      /\ p \in Writers /\ pc[p] \in {"start", "done"} /\ pc'[p] \notin {"start", "done"} =>
           ~Reserved(job[p].root)
  <2> USE <1>1 DEF LocalTypes, Goto, accounts, tree, Conclude, Control
  <2>1. CASE BeginWriting(p) \/ BeginSaving(p) \/ MakeDirectory(p) \/ SyncParent(p)
    BY <2>1, LocalNames DEF BeginWriting, BeginSaving, MakeDirectory, SyncParent
  <2>2. CASE NextItem(p) \/ Complete(p) \/ CreateTemp(p)
    BY <2>2 DEF NextItem, Complete, CreateTemp, BetweenItems
  <2>3. CASE Commit(p) \/ Settle(p)
    BY <2>3 DEF Commit, Settle
  <2>4. CASE Fail(p) \/ Execute(p)
    BY <2>4 DEF Fail, AfterFailure, Execute
  <2> QED BY <2>1, <2>2, <2>3, <2>4 DEF Write
<1>4. /\ attempted' \in [Procs -> Nat] /\ written' \in [Procs -> Nat]
      /\ touched' \in [Procs -> SUBSET Nat] /\ DOMAIN outcome' = Procs
      /\ faults' \in 0..MaxFaults
  <2> USE <1>1 DEF LocalTypes, accounts, tree, Conclude
  <2>1. CASE BeginWriting(p) \/ BeginSaving(p) \/ MakeDirectory(p) \/ SyncParent(p)
    BY <2>1 DEF BeginWriting, BeginSaving, MakeDirectory, SyncParent
  <2>2. CASE NextItem(p) \/ Complete(p) \/ CreateTemp(p)
    BY <2>2 DEF NextItem, Complete, CreateTemp
  <2>3. CASE Commit(p)
    <3>1. touched' = touched \/ touched' = [touched EXCEPT ![p] = @ \cup {attempted[p]}]
      BY <2>3 DEF Commit
    <3>2. UNCHANGED <<attempted, written, faults>> /\ DOMAIN outcome' = Procs
      BY <2>3 DEF Commit
    <3> QED BY <3>1, <3>2
  <2>5. CASE Settle(p)
    BY <2>5 DEF Settle
  <2>4. CASE Fail(p) \/ Execute(p)
    BY <2>4, LocalAssumption DEF Fail, Fault, AfterFailure, Execute
  <2> QED BY <2>1, <2>2, <2>3, <2>4, <2>5 DEF Write
<1>5. \A q \in Procs : q # p => pc'[q] = pc[q]
  BY <1>1, WriteLocally
<1>6. \A q \in Writers : pc'[q] \notin {"start", "done"} => ~Reserved(job[q].root)
  <2> TAKE q \in Writers
  <2>1. q \in Procs /\ (pc[q] \notin {"start", "done"} => ~Reserved(job[q].root))
    BY <1>1, LocalNames DEF LocalTypes, JobsInv
  <2> QED BY <1>3, <1>5, <2>1
<1>7. JobsInv'
  BY <1>1, <1>2, <1>6 DEF JobsInv, LocalTypes, Reserved, Chain
<1>8. \A v \in Viewers : pc'[v] \in {"start", "load", "done", "dead"}
  BY <1>1, <1>5 DEF LocalTypes, Procs
<1> QED BY <1>3, <1>4, <1>7, <1>8 DEF LocalTypes

LEMMA WriteViewTypes ==
    ASSUME AccountsInv, NEW p \in Workers, Write(p)
    PROVE  ViewTypes' /\ UNCHANGED <<view, expected, cause>>
<1>1. UNCHANGED <<view, expected, cause>>
  BY DEF Write, BeginWriting, BeginSaving, MakeDirectory, SyncParent, NextItem, Complete,
         CreateTemp, Commit, Settle, Fail, Execute, reading
<1>2. changed' = changed \/ (changed' = changed \cup {p} /\ p \in Savers)
  <2>1. CASE Execute(p)
    BY <2>1 DEF Execute, AccountsInv, Account
  <2>2. CASE ~Execute(p)
    BY <2>2 DEF Write, BeginWriting, BeginSaving, MakeDirectory, SyncParent, NextItem,
                Complete, CreateTemp, Commit, Settle, Fail
  <2> QED BY <2>1, <2>2
<1> QED BY <1>1, <1>2 DEF AccountsInv, ViewTypes

\* An account depends on what is written down of its invocation alone.
LEMMA AccountFrame ==
    ASSUME NEW q, Account(q), job' = job, attempted'[q] = attempted[q],
           written'[q] = written[q], outcome'[q] = outcome[q], touched'[q] = touched[q],
           q \in changed' <=> q \in changed,
           pc'[q] = pc[q] \/ (pc'[q] = "dead" /\ pc[q] # "done")
    PROVE  Account(q)'
<1>1. Items(q)' = Items(q)
  BY DEF Items
<1> QED BY <1>1 DEF Account

Besides ==
    \/ \E p \in Procs : Inspect(p) \/ Load(p) \/ Crash(p)
    \/ Intrude \/ PowerLoss \/ UNCHANGED vars

\* Whatever the other actions do, no account changes, except that its invocation may die.
LEMMA BesidesWriting ==
    ASSUME AccountsInv, Besides
    PROVE  /\ LocalTypes' /\ ViewTypes' /\ UNCHANGED <<job, accounts, touched, changed>>
           /\ \A q \in Workers :
                pc'[q] = pc[q] \/ (pc'[q] = "dead" /\ pc[q] \notin {"start", "done"})
<1>1. LocalTypes /\ ViewTypes /\ \A q \in Workers : q \in Procs /\ q \notin Viewers /\ pc[q] # "load"
  BY LocalNames DEF AccountsInv, Account
<1>2. /\ UNCHANGED <<job, accounts, touched, changed>> /\ faults' \in 0..MaxFaults
  <2>1. UNCHANGED <<job, accounts, touched, changed>>
    BY DEF Besides, Inspect, Load, Crash, Intrude, PowerLoss, vars, tree, accounts
  <2>2. UNCHANGED faults \/ Fault
    BY DEF Besides, Inspect, Load, Crash, Intrude, PowerLoss, vars
  <2> QED BY <1>1, <2>1, <2>2, LocalAssumption DEF Fault, LocalTypes
<1>3. /\ pc' \in [Procs -> Control]
      /\ \A v \in Viewers : pc'[v] \in {"start", "load", "done", "dead"}
      /\ \A q \in Workers :
           pc'[q] = pc[q] \/ (pc'[q] = "dead" /\ pc[q] \notin {"start", "done"})
      /\ \A q \in Writers : pc'[q] \notin {"start", "done"} => pc[q] \notin {"start", "done"}
  <2> USE DEF LocalTypes, Goto, Control
  <2>1. CASE \E v \in Procs : Inspect(v)
    BY <1>1, <2>1, LocalNames DEF Inspect
  <2>2. CASE \E v \in Procs : Load(v)
    BY <1>1, <2>2, LocalNames DEF Load, Workers
  <2>3. CASE \E p \in Procs : Crash(p)
    BY <1>1, <2>3, LocalNames DEF Crash, Ended
  <2>4. CASE Intrude \/ UNCHANGED vars
    BY <1>1, <2>4 DEF Intrude, vars
  <2>5. CASE PowerLoss
    <3>1. pc' = [q \in Procs |-> IF pc[q] \in {"start", "done"} THEN pc[q] ELSE "dead"]
      BY <2>5 DEF PowerLoss
    <3> QED BY <1>1, <3>1, LocalNames DEF Procs
  <2> QED BY <2>1, <2>2, <2>3, <2>4, <2>5 DEF Besides
<1>4. JobsInv'
  BY <1>1, <1>2, <1>3 DEF JobsInv, LocalTypes, Reserved, Chain
<1>5. ViewTypes'
  <2>1. CASE \E v \in Procs : Inspect(v)
    BY <1>1, <2>1, LocalNames DEF Inspect, ViewTypes
  <2>2. CASE \E v \in Procs : Load(v)
    BY <1>1, <2>2 DEF Load, ViewTypes, Snapshots
  <2>3. CASE ~ \E v \in Procs : Inspect(v) \/ Load(v)
    <3>1. UNCHANGED <<changed, view, expected, cause>>
      BY <2>3 DEF Besides, Crash, Intrude, PowerLoss, vars, reading
    <3> QED BY <1>1, <3>1 DEF ViewTypes
  <2> QED BY <2>1, <2>2, <2>3
<1> QED BY <1>1, <1>2, <1>3, <1>4, <1>5 DEF LocalTypes, accounts

LEMMA AccountsInit == Init => AccountsInv
<1> SUFFICES ASSUME Init PROVE AccountsInv
  OBVIOUS
<1>1. JobsInv
  BY LocalNames DEF Init, JobsInv
<1>2. LocalTypes
  BY <1>1, LocalAssumption DEF Init, LocalTypes, Control, Procs
<1>3. ViewTypes
  BY DEF Init, ViewTypes
<1>4. \A p \in Workers : Account(p)
  <2> TAKE p \in Workers
  <2>1. /\ pc[p] = "start" /\ attempted[p] = 0 /\ written[p] = 0 /\ outcome[p] = None
        /\ touched[p] = {} /\ p \notin changed
    BY LocalNames DEF Init
  <2>2. Items(p) \in Nat
    BY <1>2, ItemPlace
  <2> QED BY <2>1, <2>2 DEF Account
<1> QED BY <1>2, <1>3, <1>4 DEF AccountsInv

LEMMA AccountsStep == AccountsInv /\ [Next]_vars => AccountsInv'
<1> SUFFICES ASSUME AccountsInv, [Next]_vars PROVE AccountsInv'
  OBVIOUS
<1>1. ASSUME NEW p \in Procs, Write(p) PROVE AccountsInv'
  <2>1. p \in Workers /\ LocalTypes /\ \A q \in Workers : q \in Procs /\ Account(q)
    BY <1>1, WritersWrite, LocalNames DEF AccountsInv
  <2>2. LocalTypes' /\ ViewTypes'
    BY <1>1, <2>1, WriteTypes, WriteViewTypes
  <2>3. ASSUME NEW q \in Workers PROVE Account(q)'
    <3>1. CASE q = p
      BY <1>1, <3>1, WriteAccount
    <3>2. CASE q # p
      BY <1>1, <2>1, <3>2, WriteLocally, AccountFrame
    <3> QED BY <3>1, <3>2
  <2> QED BY <2>2, <2>3 DEF AccountsInv
<1>2. CASE Besides
  <2>1. /\ LocalTypes' /\ ViewTypes' /\ UNCHANGED <<job, accounts, touched, changed>>
        /\ \A q \in Workers :
             pc'[q] = pc[q] \/ (pc'[q] = "dead" /\ pc[q] \notin {"start", "done"})
    BY <1>2, BesidesWriting
  <2>2. \A q \in Workers : Account(q)'
    BY <2>1, AccountFrame DEF AccountsInv, accounts
  <2> QED BY <2>1, <2>2 DEF AccountsInv
<1> QED BY <1>1, <1>2 DEF Next, Besides, AllEnded

-----------------------------------------------------------------------------
(* The tree: what it shows, what a power loss leaves of it, and how far each *)
(* invocation has made its own part durable.                                 *)

Solid(c) == c.state = "whole" /\ c.by # None
SolidFiles == [state : {"whole"}, by : Workers]

\* A path is one of a Writer or that of a snapshot.
LEMMA PathForms ==
    \A path \in Paths : \/ path.name \in Names /\ path.name \notin Savers
                        \/ path.name \in Savers /\ path = SnapshotPath(path.name)
<1> DEFINE Z == [dir : {SnapshotDir}, name : Savers]
           U == UNION {Range(r.items) : r \in Requests}
<1>1. Paths = U \cup Z
  BY Zenon DEF Paths
<1>2. ASSUME NEW path \in Z PROVE path.name \in Savers /\ path = SnapshotPath(path.name)
  BY <1>2 DEF SnapshotPath
<1>3. ASSUME NEW path \in U PROVE path.name \in Names
  <2>1. PICK r \in Requests : path \in Range(r.items)
    BY <1>3
  <2> DEFINE T == [dir : Dirs, name : Names]
             list == r.items
  <2>2. list \in Seq(T)
    BY LocalAssumption
  <2>3. PICK i \in DOMAIN list : path = list[i]
    BY <2>1 DEF Range
  <2> HIDE DEF T, list
  <2>4. path \in T
    BY <2>2, <2>3
  <2> QED BY <2>4 DEF T
<1> HIDE DEF U, Z
<1> QED BY <1>1, <1>2, <1>3, LocalAssumption

\* What a path can show: a snapshot is whole from the start, nothing the tool writes
\* appears in the snapshot directory under another name.
Allowed(path) ==
    IF path.name \in Savers THEN {Missing, [state |-> "whole", by |-> path.name]}
    ELSE {Missing, OldFile, AlienFile}
           \cup (IF path.dir = SnapshotDir THEN {} ELSE SolidFiles)

Shown == \A path \in Paths : files[path] \in Allowed(path) /\ firm[path] \in Allowed(path)

\* An item its invocation counted as written, and the directories above it.
Held(p, i) ==
    LET path == job[p].items[i]
    IN  /\ Solid(files[path]) /\ Solid(firm[path])
        /\ Chain(path.dir) \subseteq dirs
        /\ \A d \in Chain(path.dir) : maker[d] = p => d \in firmDirs

Course(p) ==
    /\ ~Ended(p) => \A d \in dirs \ firmDirs : maker[d] = p => owed[p] = d
    /\ owed[p] # None => owed[p] \in dirs /\ pc[p] \in {"root", "file"}
    /\ pc[p] \in {"temp", "settle"} => Chain(Item(p).dir) \subseteq dirs
    /\ pc[p] = "settle" => Solid(files[Item(p)])

TreeInv ==
    /\ TreeTypes /\ Shown
    /\ \A p \in Procs : temp[p] = SnapshotDir => p \in Savers
    /\ \A p \in Workers : Course(p)
    /\ \A p \in Workers : p \notin betrayed => \A i \in 1..written[p] : Held(p, i)

LocalInv == AccountsInv /\ TreeInv

LEMMA Chains ==
    /\ \A d \in Dirs : d \in Chain(d) /\ Chain(d) \subseteq Dirs
    /\ \A d \in Dirs : \A e \in Chain(d) : Chain(e) \subseteq Chain(d)
<1>1. \A d \in Dirs : d \in Chain(d) /\ Chain(d) \subseteq Dirs
  BY DEF Chain
<1>2. ASSUME NEW d \in Dirs, NEW e \in Chain(d), NEW x \in Chain(e) PROVE x \in Chain(d)
  <2>1. x \in Dirs
    BY <1>2 DEF Chain
  <2>2. ASSUME NEW S \in SUBSET Dirs, d \in S, \A y \in S : Parent[y] \in S \cup {Home}
        PROVE  x \in S
    <3>1. e \in S
      BY <2>2 DEF Chain
    <3> QED BY <2>2, <3>1 DEF Chain
  <2> QED BY <2>1, <2>2 DEF Chain
<1> QED BY <1>1, <1>2

LEMMA Forms ==
    /\ Missing \in Contents /\ OldFile \in Contents /\ AlienFile \in Contents
    /\ SolidFiles \subseteq Contents
    /\ ~Solid(Missing) /\ ~Solid(OldFile) /\ ~Solid(AlienFile)
    /\ \A c \in SolidFiles : Solid(c) /\ c # Missing
    /\ Missing.by = None /\ OldFile.by = None /\ AlienFile.by = None
    /\ Missing.state = "missing" /\ OldFile.state = "whole" /\ AlienFile.state = "alien"
<1>1. \A q \in Workers : q \in Procs /\ q # None
  BY LocalNames DEF Workers
<1> QED BY <1>1 DEF Missing, OldFile, AlienFile, SolidFiles, Solid, Contents

LEMMA AllowedForms ==
    ASSUME NEW path \in Paths, NEW c \in Allowed(path)
    PROVE  /\ c \in Contents /\ c.state \in {"missing", "whole", "alien"}
           /\ c.by # None => Solid(c)
           /\ c = Missing <=> c.state = "missing"
           /\ path.name \in Savers => c = Missing \/ (c.state = "whole" /\ c.by = path.name)
           /\ path.name \notin Savers /\ path.dir = SnapshotDir => c.by = None
           /\ Missing \in Allowed(path)
<1>1. CASE path.name \in Savers
  <2>1. c \in {Missing, [state |-> "whole", by |-> path.name]} /\ Missing \in Allowed(path)
    BY <1>1 DEF Allowed
  <2>2. path.name \in Procs /\ path.name # None
    BY <1>1, LocalNames
  <2> QED BY <1>1, <2>1, <2>2 DEF Missing, Contents, Solid
<1>2. CASE path.name \notin Savers
  <2>1. c \in {Missing, OldFile, AlienFile} \/ (path.dir # SnapshotDir /\ c \in SolidFiles)
    BY <1>2 DEF Allowed
  <2>2. Missing \in Allowed(path)
    BY <1>2 DEF Allowed
  <2>3. CASE c \in {Missing, OldFile, AlienFile}
    BY <1>2, <2>2, <2>3 DEF Missing, OldFile, AlienFile, Contents, Solid
  <2>4. CASE path.dir # SnapshotDir /\ c \in SolidFiles
    <3>1. c.state = "whole" /\ c.by \in Workers /\ c \in Contents
      BY <2>4, Forms DEF SolidFiles
    <3>3. c.by # None
      BY <3>1, LocalNames DEF Workers
    <3> QED BY <1>2, <2>2, <2>4, <3>1, <3>3 DEF Missing, Solid
  <2> QED BY <2>1, <2>3, <2>4
<1> QED BY <1>1, <1>2

\* The path an invocation is about to write.
LEMMA ItemNow ==
    ASSUME AccountsInv, NEW p \in Workers, pc[p] \in {"file", "temp", "settle"}
    PROVE  /\ attempted[p] \in 1..Items(p) /\ attempted[p] = written[p] + 1
           /\ Item(p) = job[p].items[attempted[p]] /\ Item(p) \in Paths /\ Item(p).dir \in Dirs
           /\ p \in Savers => Item(p) = SnapshotPath(p)
           /\ p \in Writers => Item(p).name \in Names /\ Item(p).dir # SnapshotDir
<1>1. /\ LocalTypes /\ Account(p) /\ written[p] \in Nat /\ attempted[p] \in Nat
      /\ Items(p) \in Nat /\ p \in Procs
  BY ItemPlace, LocalNames DEF AccountsInv, LocalTypes
<1>2. attempted[p] \in 1..Items(p) /\ attempted[p] = written[p] + 1
  BY <1>1 DEF Account
<1>3. Item(p) = job[p].items[attempted[p]]
  BY DEF Item
<1>4. p \in Writers => Item(p).dir # SnapshotDir
  <2>1. SUFFICES ASSUME p \in Writers, Item(p).dir = SnapshotDir PROVE FALSE
    OBVIOUS
  <2>2. job[p].root \in Chain(SnapshotDir)
    BY <1>1, <1>2, <1>3, <2>1, ItemPlace
  <2>3. ~Reserved(job[p].root)
    BY <1>1, <2>1 DEF LocalTypes, JobsInv
  <2> QED BY <2>2, <2>3 DEF Reserved
<1> QED BY <1>1, <1>2, <1>3, <1>4, ItemPlace

\* Most steps only add to the tree, and leave what was made as it is.
Grows ==
    /\ dirs \subseteq dirs' /\ firmDirs \subseteq firmDirs'
    /\ \A path \in Paths :
         /\ Solid(files[path]) => Solid(files'[path])
         /\ Solid(files[path]) /\ Solid(firm[path]) => Solid(firm'[path])
    /\ \A d \in dirs : maker'[d] = maker[d]

LEMMA SameGrows ==
    ASSUME UNCHANGED <<dirs, firmDirs, files, firm, maker>>
    PROVE  Grows
BY DEF Grows

LEMMA HeldStays ==
    ASSUME LocalInv, Grows, job' = job, NEW p \in Workers, NEW i \in 1..written[p], Held(p, i)
    PROVE  Held(p, i)'
<1> DEFINE path == job[p].items[i]
<1>1. path \in Paths /\ path.dir \in Dirs
  <2>1. LocalTypes /\ Account(p) /\ p \in Procs /\ Items(p) \in Nat /\ written[p] \in Nat
        /\ attempted[p] \in Nat
    BY ItemPlace, LocalNames DEF LocalInv, AccountsInv, LocalTypes
  <2>2. i \in 1..Items(p)
    BY <2>1 DEF Account
  <2> QED BY <2>1, <2>2, ItemPlace
<1>2. /\ Solid(files[path]) /\ Solid(firm[path]) /\ Chain(path.dir) \subseteq dirs
      /\ \A d \in Chain(path.dir) : maker[d] = p => d \in firmDirs
  BY DEF Held
<1>3. job'[p].items[i] = path
  OBVIOUS
<1> HIDE DEF path
<1>4. /\ Solid(files'[path]) /\ Solid(firm'[path]) /\ Chain(path.dir) \subseteq dirs'
      /\ \A d \in Chain(path.dir) : maker'[d] = p => d \in firmDirs'
  BY <1>1, <1>2 DEF Grows
<1> QED BY <1>3, <1>4 DEF Held, Solid, Chain

LEMMA CourseStays ==
    ASSUME LocalInv, Grows, NEW q \in Workers, job' = job, pc'[q] = pc[q],
           attempted'[q] = attempted[q], owed'[q] = owed[q],
           \A d \in dirs' \ dirs : maker'[d] # q
    PROVE  Course(q)'
<1>1. Course(q) /\ AccountsInv /\ Item(q)' = Item(q) /\ (Ended(q)' <=> Ended(q))
  BY DEF LocalInv, TreeInv, Item, Ended
<1>2. ~Ended(q) => \A d \in dirs' \ firmDirs' : maker'[d] = q => owed'[q] = d
  BY <1>1 DEF Course, Grows
<1>3. pc[q] \in {"temp", "settle"} => Item(q) \in Paths /\ Chain(Item(q).dir) \subseteq dirs
  BY <1>1, ItemNow DEF Course
<1>4. pc[q] = "settle" => Solid(files'[Item(q)])
  BY <1>1, <1>3 DEF Course, Grows
<1>5. owed'[q] # None => owed'[q] \in dirs' /\ pc'[q] \in {"root", "file"}
  BY <1>1 DEF Course, Grows
<1>6. pc[q] \in {"temp", "settle"} => Chain(Item(q).dir) \subseteq dirs'
  BY <1>3 DEF Grows
<1> QED BY <1>1, <1>2, <1>4, <1>5, <1>6 DEF Course, Solid, Chain

\* What is left to show of a step of one invocation: what it does to its own course, to
\* what paths show and to its temporary file.
LEMMA WriteTree ==
    ASSUME LocalInv, NEW p \in Workers, Write(p), Grows, TreeTypes', Shown', Course(p)',
           temp'[p] = SnapshotDir => p \in Savers,
           \A q \in Procs : q # p => temp'[q] = temp[q] /\ owed'[q] = owed[q],
           \A d \in dirs' \ dirs : maker'[d] = p,
           betrayed' = betrayed,
           p \notin betrayed => \A i \in 1..written'[p] : i \in 1..written[p] \/ Held(p, i)'
    PROVE  TreeInv'
<1>1. /\ LocalTypes /\ p \in Procs /\ \A q \in Workers : q \in Procs
  BY LocalNames DEF LocalInv, AccountsInv
<1>2. job' = job
  BY <1>1 DEF Write, BeginWriting, BeginSaving, MakeDirectory, SyncParent, NextItem, Complete,
              CreateTemp, Commit, Settle, Fail, Execute
<1>3. \A q \in Workers : q # p =>
        pc'[q] = pc[q] /\ attempted'[q] = attempted[q] /\ written'[q] = written[q]
  BY <1>1, WriteLocally
<1>4. \A q \in Workers : Course(q)'
  <2> TAKE q \in Workers
  <2>1. CASE q # p
    <3>1. owed'[q] = owed[q] /\ \A d \in dirs' \ dirs : maker'[d] # q
      BY <1>1, <2>1
    <3> QED BY <1>2, <1>3, <2>1, <3>1, CourseStays
  <2> QED BY <2>1
<1>5. \A q \in Procs : temp'[q] = SnapshotDir => q \in Savers
  BY DEF LocalInv, TreeInv
<1>6. ASSUME NEW q \in Workers, q \notin betrayed, NEW i \in 1..written'[q]
      PROVE  Held(q, i)'
  <2>1. CASE i \in 1..written[q]
    <3>1. Held(q, i)
      BY <1>6, <2>1 DEF LocalInv, TreeInv
    <3> QED BY <1>2, <2>1, <3>1, HeldStays
  <2>2. CASE i \notin 1..written[q]
    BY <1>3, <1>6, <2>2
  <2> QED BY <2>1, <2>2
<1> QED BY <1>4, <1>5, <1>6 DEF TreeInv

\* The steps that leave directories and files alone.
LEMMA QuietTree ==
    ASSUME LocalInv, NEW p \in Workers,
           \/ BeginWriting(p) \/ BeginSaving(p) \/ NextItem(p) \/ Complete(p)
           \/ CreateTemp(p) \/ Fail(p) \/ Execute(p)
    PROVE  TreeInv'
<1>1. /\ AccountsInv /\ LocalTypes /\ TreeTypes /\ Shown /\ Course(p)
      /\ p \in Procs /\ written[p] \in Nat
      /\ \A q \in Procs : temp[q] = SnapshotDir => q \in Savers
  BY LocalNames DEF LocalInv, AccountsInv, TreeInv, LocalTypes
<1>2. UNCHANGED <<dirs, firmDirs, files, firm, maker, betrayed, written, job>>
  BY DEF BeginWriting, BeginSaving, NextItem, Complete, CreateTemp, Fail, Execute, tree, accounts
<1>3. Write(p)
  BY DEF Write
<1>4. /\ temp' = temp \/ temp' = [temp EXCEPT ![p] = None]
         \/ (CreateTemp(p) /\ pc[p] = "file" /\ temp' = [temp EXCEPT ![p] = Item(p).dir])
      /\ owed' = owed \/ owed' = [owed EXCEPT ![p] = None]
  BY DEF BeginWriting, BeginSaving, NextItem, Complete, CreateTemp, Fail, Execute, tree
<1>5. temp'[p] = SnapshotDir => p \in Savers
  <2>1. CASE CreateTemp(p) /\ pc[p] = "file" /\ temp' = [temp EXCEPT ![p] = Item(p).dir]
    BY <1>1, <2>1, ItemNow DEF TreeTypes, Workers
  <2>2. CASE temp' = temp \/ temp' = [temp EXCEPT ![p] = None]
    BY <1>1, <2>2, LocalAssumption DEF TreeTypes
  <2> QED BY <1>4, <2>1, <2>2
<1>6. TreeTypes'
  <2>1. temp' \in [Procs -> Dirs \cup {None}]
    <3>1. CASE pc[p] = "file"
      BY <1>1, <1>4, <3>1, ItemNow DEF TreeTypes
    <3>2. CASE pc[p] # "file"
      BY <1>1, <1>4, <3>2 DEF TreeTypes
    <3> QED BY <3>1, <3>2
  <2> QED BY <1>1, <1>2, <1>4, <2>1 DEF TreeTypes
<1>7. Shown'
  BY <1>1, <1>2 DEF Shown, Allowed, SolidFiles
<1>8. Course(p)'
  <2>1. /\ \/ pc'[p] \in {"root", "done", "execute"} /\ owed[p] = None
           \/ pc'[p] = "file"
           \/ (pc'[p] = "temp" /\ owed[p] = None /\ Chain(Item(p).dir) \subseteq dirs
                /\ UNCHANGED attempted)
           \/ (pc'[p] = "done" /\ owed'[p] = None)
      /\ ~Ended(p)
    <3> USE <1>1 DEF LocalTypes, Goto, Conclude, Ended, tree, accounts
    <3>1. CASE BeginWriting(p) \/ BeginSaving(p)
      BY <3>1 DEF BeginWriting, BeginSaving, Course
    <3>2. CASE NextItem(p)
      BY <3>2 DEF NextItem, BetweenItems
    <3>3. CASE Complete(p)
      <4>1. owed[p] = None /\ pc[p] \in {"root", "item"}
        BY <3>3 DEF Complete, BetweenItems, Ensured, Course
      <4>2. pc'[p] \in {"done", "execute"}
        BY <3>3 DEF Complete
      <4> QED BY <4>1, <4>2
    <3>4. CASE CreateTemp(p)
      <4>1. pc[p] = "file" /\ owed[p] = None /\ Chain(Item(p).dir) \subseteq dirs
            /\ UNCHANGED attempted
        BY <3>4 DEF CreateTemp, Ensured, Goal
      <4>2. pc'[p] \in {"done", "temp"}
        BY <3>4 DEF CreateTemp
      <4> QED BY <4>1, <4>2
    <3>5. CASE Fail(p)
      <4>1. pc'[p] = "done" /\ owed'[p] = None /\ pc[p] \in {"root", "file", "temp", "settle"}
        BY <3>5 DEF Fail, AfterFailure, TreeTypes
      <4> QED BY <4>1
    <3>6. CASE Execute(p)
      BY <3>6 DEF Execute, Course
    <3> QED BY <3>1, <3>2, <3>3, <3>4, <3>5, <3>6
  <2>2. owed'[p] \in {owed[p], None}
    BY <1>1, <1>4 DEF TreeTypes
  <2>3. ~Ended(p)' => owed'[p] = owed[p]
    <3>1. CASE Fail(p)
      BY <1>1, <3>1 DEF Fail, AfterFailure, Conclude, Goto, Ended, LocalTypes
    <3>2. CASE ~Fail(p)
      BY <3>2 DEF BeginWriting, BeginSaving, NextItem, Complete, CreateTemp, Execute, tree
    <3> QED BY <3>1, <3>2
  <2>4. pc'[p] = "temp" => Item(p)' = Item(p)
    BY <1>2, <2>1 DEF Item
  <2>5. ~Ended(p)' => \A d \in dirs' \ firmDirs' : maker'[d] = p => owed'[p] = d
    BY <1>1, <1>2, <2>1, <2>3 DEF Course
  <2>6. owed'[p] # None => owed'[p] \in dirs' /\ pc'[p] \in {"root", "file"}
    BY <1>1, <1>2, <2>1, <2>2 DEF Course
  <2>7. pc'[p] # "settle" /\ (pc'[p] = "temp" => Chain(Item(p)'.dir) \subseteq dirs')
    BY <1>2, <2>1, <2>4
  <2> QED BY <2>5, <2>6, <2>7 DEF Course, Chain
<1>9. \A q \in Procs : q # p => temp'[q] = temp[q] /\ owed'[q] = owed[q]
  BY <1>1, <1>4 DEF TreeTypes
<1> QED BY <1>2, <1>3, <1>5, <1>6, <1>7, <1>8, <1>9, SameGrows, WriteTree

LEMMA MakeDirectoryTree ==
    ASSUME LocalInv, NEW p \in Workers, MakeDirectory(p)
    PROVE  TreeInv'
<1>1. /\ AccountsInv /\ LocalTypes /\ TreeTypes /\ Shown /\ Course(p) /\ p \in Procs /\ Write(p)
      /\ temp[p] = SnapshotDir => p \in Savers
  BY LocalNames DEF LocalInv, AccountsInv, TreeInv, Write
<1>2. PICK d \in Chain(Goal(p)) \ dirs :
        /\ dirs' = dirs \cup {d}
        /\ owed' = [owed EXCEPT ![p] = d]
        /\ maker' = [maker EXCEPT ![d] = p]
  BY DEF MakeDirectory
<1>3. /\ pc[p] \in {"root", "file"} /\ owed[p] = None
      /\ UNCHANGED <<pc, job, firmDirs, files, firm, temp, attempted, written, betrayed>>
  BY DEF MakeDirectory, accounts
<1>4. d \in Dirs
  BY <1>2 DEF Chain
<1>5. Grows
  BY <1>1, <1>2, <1>3 DEF Grows, TreeTypes
<1>6. TreeTypes'
  BY <1>1, <1>2, <1>3, <1>4 DEF TreeTypes
<1>7. Shown'
  BY <1>1, <1>3 DEF Shown, Allowed, SolidFiles
<1>8. Course(p)'
  <2>1. owed'[p] = d /\ \A e \in dirs \ firmDirs : maker'[e] # p
    BY <1>1, <1>2, <1>3, LocalAssumption DEF Course, Ended, TreeTypes
  <2> QED BY <1>2, <1>3, <2>1 DEF Course
<1>9. /\ \A q \in Procs : q # p => temp'[q] = temp[q] /\ owed'[q] = owed[q]
      /\ \A e \in dirs' \ dirs : maker'[e] = p
  BY <1>1, <1>2, <1>3, <1>4 DEF TreeTypes
<1> QED BY <1>1, <1>3, <1>5, <1>6, <1>7, <1>8, <1>9, WriteTree

LEMMA SyncedGrows ==
    ASSUME TreeTypes, Shown, NEW d, Synced(d), UNCHANGED <<dirs, files, maker>>
    PROVE  /\ Grows /\ Shown' /\ firmDirs' \subseteq dirs' /\ firm' \in [Paths -> Contents]
           /\ \A e \in dirs : Parent[e] = d => e \in firmDirs'
           /\ \A path \in Paths : path.dir = d => firm'[path] = files[path]
<1>1. /\ firm' \in [Paths -> Contents]
      /\ \A path \in Paths : firm'[path] = IF path.dir = d THEN files[path] ELSE firm[path]
      /\ firmDirs' = firmDirs \cup {e \in dirs : Parent[e] = d}
  BY DEF Synced, TreeTypes
<1>2. Grows
  BY <1>1 DEF Grows
<1>3. Shown'
  BY <1>1 DEF Shown, Allowed, SolidFiles
<1> QED BY <1>1, <1>2, <1>3 DEF TreeTypes

LEMMA SyncParentTree ==
    ASSUME LocalInv, NEW p \in Workers, SyncParent(p)
    PROVE  TreeInv'
<1>1. /\ AccountsInv /\ LocalTypes /\ TreeTypes /\ Shown /\ Course(p) /\ p \in Procs /\ Write(p)
      /\ temp[p] = SnapshotDir => p \in Savers
  BY LocalNames DEF LocalInv, AccountsInv, TreeInv, Write
<1>2. /\ pc[p] \in {"root", "file"} /\ owed[p] # None /\ owed' = [owed EXCEPT ![p] = None]
      /\ Synced(Parent[owed[p]])
      /\ UNCHANGED <<pc, job, dirs, files, temp, maker, attempted, written, betrayed>>
  BY DEF SyncParent, SyncedParent, accounts
<1>3. /\ Grows /\ Shown' /\ firmDirs' \subseteq dirs' /\ firm' \in [Paths -> Contents]
      /\ \A e \in dirs : Parent[e] = Parent[owed[p]] => e \in firmDirs'
  BY <1>1, <1>2, SyncedGrows
<1>4. TreeTypes'
  BY <1>1, <1>2, <1>3 DEF TreeTypes
<1>5. Course(p)'
  <2>1. \A e \in dirs' \ firmDirs' : maker'[e] # p
    BY <1>1, <1>2, <1>3 DEF Course, Ended, Grows
  <2> QED BY <1>1, <1>2, <2>1 DEF Course, TreeTypes
<1>6. \A q \in Procs : q # p => temp'[q] = temp[q] /\ owed'[q] = owed[q]
  BY <1>1, <1>2 DEF TreeTypes
<1> QED BY <1>1, <1>2, <1>3, <1>4, <1>5, <1>6, WriteTree

LEMMA CommitTree ==
    ASSUME LocalInv, NEW p \in Workers, Commit(p)
    PROVE  TreeInv'
<1>1. /\ AccountsInv /\ LocalTypes /\ TreeTypes /\ Shown /\ Course(p) /\ p \in Procs /\ Write(p)
      /\ temp[p] = SnapshotDir => p \in Savers
  BY LocalNames DEF LocalInv, AccountsInv, TreeInv, Write
<1>2. /\ pc[p] = "temp" /\ temp' = [temp EXCEPT ![p] = None]
      /\ UNCHANGED <<job, dirs, firmDirs, firm, owed, maker, attempted, written, betrayed>>
  BY DEF Commit
<1>3. Item(p) \in Paths /\ Item(p)' = Item(p)
  BY <1>1, <1>2, ItemNow DEF Item
<1> DEFINE new == [state |-> "whole", by |-> p]
<1>4. new \in Allowed(Item(p)) /\ Solid(new)
  <2>1. p # None /\ new \in SolidFiles
    BY LocalNames DEF SolidFiles, Workers
  <2>2. CASE p \in Savers
    <3>1. Item(p).name = p
      BY <1>1, <1>2, <2>2, ItemNow DEF SnapshotPath
    <3> QED BY <2>1, <2>2, <3>1 DEF Allowed, Solid
  <2>3. CASE p \in Writers
    <3>1. Item(p).name \notin Savers /\ Item(p).dir # SnapshotDir
      BY <1>1, <1>2, <2>3, ItemNow, LocalAssumption
    <3> QED BY <2>1, <3>1 DEF Allowed, Solid
  <2> QED BY <2>2, <2>3 DEF Workers
<1>5. \/ files' = files /\ pc'[p] = "done"
      \/ files' = [files EXCEPT ![Item(p)] = new] /\ pc'[p] = "settle"
  BY <1>1 DEF Commit, Conclude, Goto, DataState, LocalTypes
<1> HIDE DEF new
<1>6. /\ files' \in [Paths -> Contents]
      /\ \A path \in Paths : files'[path] = files[path] \/ (path = Item(p) /\ files'[path] = new)
      /\ pc'[p] = "settle" => files'[Item(p)] = new
  BY <1>1, <1>3, <1>4, <1>5, AllowedForms DEF TreeTypes
<1>7. Grows
  BY <1>2, <1>4, <1>6 DEF Grows
<1>8. TreeTypes'
  BY <1>1, <1>2, <1>6 DEF TreeTypes
<1>9. Shown'
  <2>1. \A path \in Paths : files'[path] \in Allowed(path) /\ firm'[path] \in Allowed(path)
    BY <1>1, <1>2, <1>4, <1>6 DEF Shown
  <2> QED BY <2>1 DEF Shown, Allowed, SolidFiles
<1>10. Course(p)'
  <2>1. owed[p] = None /\ Chain(Item(p).dir) \subseteq dirs /\ ~Ended(p)
    BY <1>1, <1>2 DEF Course, Ended
  <2>2. \A d \in dirs \ firmDirs : maker[d] # p
    BY <1>1, <2>1, LocalAssumption DEF Course, TreeTypes
  <2>3. pc'[p] = "settle" => Solid(files'[Item(p)])
    BY <1>4, <1>6
  <2> QED BY <1>2, <1>3, <1>5, <2>1, <2>2, <2>3 DEF Course, Chain, Solid
<1>11. /\ temp'[p] = None /\ \A q \in Procs : q # p => temp'[q] = temp[q] /\ owed'[q] = owed[q]
       /\ None # SnapshotDir
  BY <1>1, <1>2, LocalAssumption DEF TreeTypes
<1>12. \A d \in dirs' \ dirs : maker'[d] = p
  BY <1>2
<1>13. \A i \in 1..written'[p] : i \in 1..written[p]
  BY <1>2
<1> QED BY <1>1, <1>2, <1>7, <1>8, <1>9, <1>10, <1>11, <1>12, <1>13, WriteTree

LEMMA SettleTree ==
    ASSUME LocalInv, NEW p \in Workers, Settle(p)
    PROVE  TreeInv'
<1>1. /\ AccountsInv /\ LocalTypes /\ TreeTypes /\ Shown /\ Course(p) /\ p \in Procs /\ Write(p)
      /\ temp[p] = SnapshotDir => p \in Savers
      /\ written[p] \in Nat
  BY LocalNames DEF LocalInv, AccountsInv, TreeInv, Write, LocalTypes
<1>2. /\ pc[p] = "settle" /\ pc'[p] = "item" /\ written'[p] = written[p] + 1
      /\ Synced(Item(p).dir)
      /\ UNCHANGED <<job, dirs, files, temp, owed, maker, attempted, betrayed>>
  BY <1>1 DEF Settle, SyncedDirectory, Goto, LocalTypes
<1>3. /\ Grows /\ Shown' /\ firmDirs' \subseteq dirs' /\ firm' \in [Paths -> Contents]
      /\ \A path \in Paths : path.dir = Item(p).dir => firm'[path] = files[path]
  BY <1>1, <1>2, SyncedGrows
<1>4. TreeTypes'
  BY <1>1, <1>2, <1>3 DEF TreeTypes
<1>5. /\ owed[p] = None /\ Chain(Item(p).dir) \subseteq dirs /\ Solid(files[Item(p)])
      /\ \A d \in dirs \ firmDirs : maker[d] # p
  BY <1>1, <1>2, LocalAssumption DEF Course, Ended, TreeTypes
<1>6. Course(p)'
  BY <1>2, <1>3, <1>5 DEF Course, Grows
<1>7. /\ Item(p) = job[p].items[written[p] + 1] /\ Item(p) \in Paths
  BY <1>1, <1>2, ItemNow
<1>8. ASSUME NEW i \in 1..written'[p], i = written[p] + 1 PROVE Held(p, i)'
  <2>1. /\ Solid(files'[Item(p)]) /\ Solid(firm'[Item(p)])
        /\ Chain(Item(p).dir) \subseteq dirs'
        /\ \A d \in Chain(Item(p).dir) : maker'[d] = p => d \in firmDirs'
    BY <1>2, <1>3, <1>5, <1>7 DEF Grows
  <2>2. job'[p].items[i] = Item(p)
    BY <1>2, <1>7, <1>8
  <2> QED BY <2>1, <2>2 DEF Held, Chain, Solid
<1>9. \A i \in 1..written'[p] : i \in 1..written[p] \/ Held(p, i)'
  <2>1. \A i \in 1..written'[p] : i \in 1..written[p] \/ i = written[p] + 1
    BY <1>1, <1>2
  <2> QED BY <1>8, <2>1
<1>10. /\ \A d \in dirs' \ dirs : maker'[d] = p
       /\ \A q \in Procs : q # p => temp'[q] = temp[q] /\ owed'[q] = owed[q]
  BY <1>2
<1> QED BY <1>1, <1>2, <1>3, <1>4, <1>6, <1>9, <1>10, WriteTree

\* A crash and what viewers and outsiders do.
LEMMA OthersTree ==
    ASSUME LocalInv,
           \/ \E p \in Procs : Inspect(p) \/ Load(p) \/ Crash(p)
           \/ Intrude \/ UNCHANGED vars
    PROVE  TreeInv'
<1>1. /\ AccountsInv /\ LocalTypes /\ TreeTypes /\ Shown /\ Besides
      /\ \A p \in Procs : temp[p] = SnapshotDir => p \in Savers
  BY DEF LocalInv, AccountsInv, TreeInv, Besides
<1>2. /\ UNCHANGED <<job, accounts>>
      /\ \A q \in Workers :
           pc'[q] = pc[q] \/ (pc'[q] = "dead" /\ pc[q] \notin {"start", "done"})
  BY <1>1, BesidesWriting
<1>3. UNCHANGED <<dirs, firmDirs, firm, temp, maker, betrayed>>
  BY DEF Inspect, Load, Crash, Intrude, vars, tree
<1>4. files' \in [Paths -> Contents] /\ \A path \in Paths :
        files'[path] = files[path]
        \/ (files[path] = Missing /\ files'[path] = AlienFile /\ path.name \in Names)
  <2>1. CASE Intrude
    <3>1. PICK path \in Paths : /\ files[path] = Missing /\ path.name \in Names
                               /\ files' = [files EXCEPT ![path] = AlienFile]
      BY <2>1 DEF Intrude
    <3> QED BY <1>1, <3>1, Forms DEF TreeTypes
  <2>2. CASE ~Intrude
    <3>1. files' = files
      BY <2>2 DEF Inspect, Load, Crash, vars, tree
    <3> QED BY <1>1, <3>1 DEF TreeTypes
  <2> QED BY <2>1, <2>2
<1>5. Grows
  BY <1>3, <1>4, Forms DEF Grows
<1>6. Shown'
  <2>1. \A path \in Paths : files'[path] \in Allowed(path) /\ firm'[path] \in Allowed(path)
    <3> TAKE path \in Paths
    <3>1. files[path] \in Allowed(path) /\ firm[path] \in Allowed(path)
      BY <1>1 DEF Shown
    <3>2. path.name \in Names => AlienFile \in Allowed(path)
      BY LocalAssumption DEF Allowed
    <3> QED BY <1>3, <1>4, <3>1, <3>2
  <2> QED BY <2>1 DEF Shown, Allowed, SolidFiles
<1>7. /\ DOMAIN owed' = Procs /\ owed' \in [Procs -> Dirs \cup {None}]
      /\ \A q \in Workers : pc'[q] = pc[q] => owed'[q] = owed[q]
      /\ \A q \in Workers : pc'[q] # pc[q] => owed'[q] = None
  <2>1. CASE \E p \in Procs : Crash(p)
    <3>1. PICK p \in Procs : ~Ended(p) /\ pc' = [pc EXCEPT ![p] = "dead"]
                             /\ owed' = [owed EXCEPT ![p] = None]
      BY <2>1 DEF Crash, Goto
    <3>2. pc[p] # "dead" /\ pc'[p] = "dead" /\ owed'[p] = None
      BY <1>1, <3>1 DEF Ended, LocalTypes, TreeTypes
    <3> QED BY <1>1, <3>1, <3>2, LocalNames DEF LocalTypes, TreeTypes
  <2>2. CASE ~ \E p \in Procs : Crash(p)
    <3>1. owed' = owed
      BY <2>2 DEF Inspect, Load, Intrude, vars, tree
    <3>2. \A q \in Workers : pc'[q] = pc[q]
      <4>1. CASE \E v \in Procs : Inspect(v) \/ Load(v)
        <5>1. PICK v \in Procs : Inspect(v) \/ Load(v)
          BY <4>1
        <5>2. v \notin Workers
          BY <1>1, <5>1, LocalNames DEF Inspect, Load, AccountsInv, Account
        <5> QED BY <1>1, <5>1, <5>2, LocalNames DEF Inspect, Load, Goto, LocalTypes
      <4>2. CASE Intrude \/ UNCHANGED vars
        BY <4>2 DEF Intrude, vars
      <4> QED BY <2>2, <4>1, <4>2
    <3> QED BY <1>1, <3>1, <3>2 DEF TreeTypes
  <2> QED BY <2>1, <2>2
<1>8. TreeTypes'
  BY <1>1, <1>3, <1>4, <1>7 DEF TreeTypes
<1>9. \A q \in Workers : Course(q)'
  <2> TAKE q \in Workers
  <2>1. CASE pc'[q] = pc[q]
    BY <1>2, <1>3, <1>5, <1>7, <2>1, CourseStays DEF accounts
  <2>2. CASE pc'[q] # pc[q]
    BY <1>2, <1>7, <2>2 DEF Course, Ended
  <2> QED BY <2>1, <2>2
<1>10. ASSUME NEW q \in Workers, q \notin betrayed', NEW i \in 1..written'[q]
       PROVE  Held(q, i)'
  <2>1. written' = written /\ Held(q, i)
    BY <1>2, <1>3, <1>10 DEF LocalInv, TreeInv, accounts
  <2> QED BY <1>2, <1>5, <1>10, <2>1, HeldStays
<1>11. \A p \in Procs : temp'[p] = SnapshotDir => p \in Savers
  BY <1>1, <1>3
<1> QED BY <1>6, <1>8, <1>9, <1>10, <1>11 DEF TreeInv

\* What a power loss keeps of an item that was counted: its name and its data, and every
\* directory above it, unless another invocation made one and had not synced it.
LEMMA PowerLossTree ==
    ASSUME LocalInv, PowerLoss
    PROVE  TreeInv'
<1>1. /\ AccountsInv /\ LocalTypes /\ TreeTypes /\ Shown /\ Besides
      /\ \A p \in Procs : temp[p] = SnapshotDir => p \in Savers
  BY DEF LocalInv, AccountsInv, TreeInv, Besides
<1> DEFINE there(D, d) == Chain(d) \subseteq firmDirs \cup D
           read(c) == IF c.state = "unsynced" THEN [c EXCEPT !.state = "torn"] ELSE c
<1>2. PICK D \in SUBSET (dirs \ firmDirs) :
        \E kept \in SUBSET {path \in Paths : files[path] # firm[path]},
           keptTemps \in SUBSET {p \in Procs : temp[p] # None} :
          /\ dirs' = {d \in dirs : there(D, d)}
          /\ files' = [path \in Paths |->
                         IF ~there(D, path.dir) THEN Missing
                         ELSE read(IF path \in kept THEN files[path] ELSE firm[path])]
          /\ temp' = [p \in Procs |->
                         IF p \in keptTemps /\ there(D, temp[p]) THEN temp[p] ELSE None]
  BY DEF PowerLoss
<1>3. PICK kept \in SUBSET {path \in Paths : files[path] # firm[path]},
           keptTemps \in SUBSET {p \in Procs : temp[p] # None} :
          /\ dirs' = {d \in dirs : there(D, d)}
          /\ files' = [path \in Paths |->
                         IF ~there(D, path.dir) THEN Missing
                         ELSE read(IF path \in kept THEN files[path] ELSE firm[path])]
          /\ temp' = [p \in Procs |->
                         IF p \in keptTemps /\ there(D, temp[p]) THEN temp[p] ELSE None]
  BY <1>2
<1>4. /\ pc' = [p \in Procs |-> IF pc[p] \in {"start", "done"} THEN pc[p] ELSE "dead"]
      /\ firmDirs' = dirs' /\ firm' = files' /\ owed' = [p \in Procs |-> None]
      /\ betrayed' = betrayed \cup
           {p \in Procs : \E i \in 1..written[p] :
              \E d \in Chain(job[p].items[i].dir) \ firmDirs : maker[d] # p}
      /\ UNCHANGED <<job, maker, attempted, written>>
  BY DEF PowerLoss, accounts
<1>5. \A path \in Paths :
        files'[path] = Missing \/ files'[path] = files[path] \/ files'[path] = firm[path]
  <2> TAKE path \in Paths
  <2>1. files[path].state # "unsynced" /\ firm[path].state # "unsynced"
    BY <1>1, AllowedForms DEF Shown
  <2>2. read(files[path]) = files[path] /\ read(firm[path]) = firm[path]
    BY <2>1
  <2> HIDE DEF read
  <2> QED BY <1>3, <2>2
<1>6. \A path \in Paths : there(D, path.dir) =>
        files'[path] = files[path] \/ files'[path] = firm[path]
  <2> TAKE path \in Paths
  <2>1. files[path].state # "unsynced" /\ firm[path].state # "unsynced"
    BY <1>1, AllowedForms DEF Shown
  <2>2. read(files[path]) = files[path] /\ read(firm[path]) = firm[path]
    BY <2>1
  <2> HIDE DEF read, there
  <2> QED BY <1>3, <2>2
<1>7. Shown'
  <2>1. \A path \in Paths : files'[path] \in Allowed(path) /\ firm'[path] \in Allowed(path)
    BY <1>1, <1>4, <1>5, AllowedForms DEF Shown
  <2> QED BY <2>1 DEF Shown, Allowed, SolidFiles
<1>8. temp' \in [Procs -> Dirs \cup {None}] /\ \A p \in Procs : temp'[p] \in {temp[p], None}
  <2> HIDE DEF there
  <2> QED BY <1>1, <1>3 DEF TreeTypes
<1>9. dirs' \subseteq dirs /\ files' \in [Paths -> Contents]
  <2>1. \A path \in Paths : files'[path] \in Contents
    BY <1>1, <1>5, Forms DEF TreeTypes
  <2> HIDE DEF there, read
  <2> QED BY <1>3, <2>1
<1>10. TreeTypes'
  BY <1>1, <1>4, <1>8, <1>9 DEF TreeTypes
<1>11. \A q \in Workers : Course(q)'
  <2> TAKE q \in Workers
  <2>1. pc'[q] \in {"start", "done", "dead"} /\ owed'[q] = None
    BY <1>4, LocalNames
  <2> QED BY <1>4, <2>1 DEF Course
<1>12. \A p \in Procs : temp'[p] = SnapshotDir => p \in Savers
  BY <1>1, <1>8, LocalAssumption
<1>13. ASSUME NEW q \in Workers, q \notin betrayed', NEW i \in 1..written'[q]
       PROVE  Held(q, i)'
  <2> DEFINE path == job[q].items[i]
  <2>1. q \notin betrayed /\ i \in 1..written[q] /\ q \in Procs
        /\ \A d \in Chain(path.dir) \ firmDirs : maker[d] = q
    BY <1>4, <1>13, LocalNames
  <2>2. Held(q, i)
    BY <2>1 DEF LocalInv, TreeInv
  <2>3. path \in Paths /\ path.dir \in Dirs
    <3>1. Items(q) \in Nat /\ Account(q) /\ written[q] \in Nat /\ attempted[q] \in Nat
      BY <1>1, <2>1, ItemPlace DEF AccountsInv, LocalTypes
    <3>2. i \in 1..Items(q)
      BY <2>1, <3>1 DEF Account
    <3> QED BY <1>1, <3>2, ItemPlace
  <2>4. job'[q].items[i] = path
    BY <1>4
  <2>5. /\ Solid(files[path]) /\ Solid(firm[path]) /\ Chain(path.dir) \subseteq dirs
        /\ \A d \in Chain(path.dir) : maker[d] = q => d \in firmDirs
    BY <2>2 DEF Held
  <2> HIDE DEF path
  <2>6. Chain(path.dir) \subseteq firmDirs
    BY <2>1, <2>5
  <2>7. Chain(path.dir) \subseteq dirs'
    <3>1. \A e \in Chain(path.dir) : Chain(e) \subseteq Chain(path.dir)
      BY <2>3, Chains
    <3> QED BY <1>3, <2>5, <2>6, <3>1
  <2>8. Solid(files'[path]) /\ Solid(firm'[path])
    BY <1>4, <1>6, <2>3, <2>5, <2>6
  <2> QED BY <1>4, <2>4, <2>7, <2>8 DEF Held, Chain, Solid
<1> QED BY <1>7, <1>10, <1>11, <1>12, <1>13 DEF TreeInv

LEMMA TreeInit == Init => TreeInv
<1> SUFFICES ASSUME Init PROVE TreeInv
  OBVIOUS
<1>1. /\ files \in [Paths -> {Missing, OldFile, AlienFile}] /\ firm = files
      /\ \A p \in Savers : files[SnapshotPath(p)] = Missing
  BY LocalAssumption DEF Init
<1>2. /\ dirs = UNION {Chain(path.dir) : path \in {q \in Paths : files[q] # Missing}}
      /\ firmDirs = dirs
  BY DEF Init
<1>3. dirs \subseteq Dirs
  BY <1>2 DEF Chain
<1>4. TreeTypes
  BY <1>1, <1>2, <1>3, Forms DEF Init, TreeTypes
<1>5. Shown
  <2>1. ASSUME NEW path \in Paths PROVE files[path] \in Allowed(path)
    <3>1. CASE path.name \in Savers
      <4>1. path = SnapshotPath(path.name)
        BY <3>1, PathForms
      <4> QED BY <1>1, <3>1, <4>1 DEF Allowed
    <3>2. CASE path.name \notin Savers
      BY <1>1, <3>2 DEF Allowed
    <3> QED BY <3>1, <3>2
  <2> QED BY <1>1, <2>1 DEF Shown
<1>6. \A p \in Procs : temp[p] = SnapshotDir => p \in Savers
  BY LocalAssumption DEF Init
<1>7. \A p \in Workers : Course(p) /\ written[p] = 0
  <2> TAKE p \in Workers
  <2>1. pc[p] = "start" /\ owed[p] = None /\ written[p] = 0
    BY LocalNames DEF Init
  <2> QED BY <1>2, <2>1 DEF Course
<1>8. \A p \in Workers : 1..written[p] = {}
  BY <1>7
<1> QED BY <1>4, <1>5, <1>6, <1>7, <1>8 DEF TreeInv

-----------------------------------------------------------------------------
(* What viewers see. *)

ViewsInv ==
    \A v \in Viewers :
        /\ pc[v] \in {"start", "load"} => view[v] = None
        /\ expected[v] \subseteq changed /\ cause[v] \subseteq Savers \cup {None}
        /\ view[v] # None => (expected[v] \ betrayed) \subseteq view[v] /\ None \notin view[v]

FilesInv == LocalInv /\ ViewsInv

LEMMA StrangeOnes == ASSUME LocalInv PROVE Strange \subseteq Savers \cup {None}
<1>1. \A p \in Procs : temp[p] = SnapshotDir => p \in Savers
  BY DEF LocalInv, TreeInv
<1>2. \A path \in Paths :
        path.dir = SnapshotDir /\ path.name \in Names => files[path].by = None
  BY AllowedForms, LocalAssumption DEF LocalInv, TreeInv, Shown
<1> QED BY <1>1, <1>2 DEF Strange

\* Whoever went on to its statements has its snapshot in place and whole.
LEMMA SnapshotsThere ==
    ASSUME LocalInv, NEW p \in changed, p \notin betrayed
    PROVE  p \in Snapshots
<1>1. p \in Savers /\ p \in Workers
  BY LocalNames DEF LocalInv, AccountsInv, ViewTypes
<1>2. written[p] = 1 /\ LocalTypes
  BY <1>1 DEF LocalInv, AccountsInv, Account
<1>3. Held(p, 1)
  BY <1>1, <1>2 DEF LocalInv, TreeInv
<1>4. job[p].items[1] = SnapshotPath(p)
  BY <1>1, <1>2, ItemPlace
<1>5. Solid(files[SnapshotPath(p)])
  BY <1>3, <1>4 DEF Held
<1> QED BY <1>1, <1>5, Forms DEF Snapshots

LEMMA SnapshotsWhole ==
    ASSUME LocalInv, NEW p \in Snapshots
    PROVE  files[SnapshotPath(p)].state = "whole"
<1>1. p \in Savers /\ files[SnapshotPath(p)] # Missing
  BY DEF Snapshots
<1>2. SnapshotPath(p) \in Paths /\ SnapshotPath(p).name \in Savers
  <2>1. p \in Workers /\ LocalTypes
    BY <1>1, LocalNames DEF LocalInv, AccountsInv
  <2>2. job[p].items[1] = SnapshotPath(p) /\ job[p].items[1] \in Paths
    BY <1>1, <2>1, ItemPlace
  <2> QED BY <1>1, <2>2 DEF SnapshotPath
<1> QED BY <1>1, <1>2, AllowedForms DEF LocalInv, TreeInv, Shown

LEMMA ViewsStep ==
    ASSUME FilesInv, [Next]_vars
    PROVE  ViewsInv'
<1>1. /\ LocalInv /\ LocalTypes /\ ViewTypes /\ ViewsInv
      /\ \A v \in Viewers : v \in Procs /\ v \notin Workers
  BY LocalNames DEF FilesInv, LocalInv, AccountsInv, Procs
<1>2. changed \subseteq changed' /\ betrayed \subseteq betrayed'
  BY DEF Next, Write, BeginWriting, BeginSaving, MakeDirectory, SyncParent, NextItem, Complete,
         CreateTemp, Commit, Settle, Fail, Execute, Inspect, Load, Crash, Intrude, PowerLoss,
         AllEnded, vars, tree
<1>3. CASE \E v \in Procs : Inspect(v)
  <2>1. PICK v \in Procs : Inspect(v)
    BY <1>3
  <2>2. /\ UNCHANGED <<changed, view, betrayed>>
        /\ expected' = [expected EXCEPT ![v] = changed] /\ cause' = [cause EXCEPT ![v] = Strange]
    BY <2>1 DEF Inspect, tree
  <2>3. view[v] = None /\ pc' = [pc EXCEPT ![v] = pc'[v]]
    <3>1. pc[v] = "start" /\ v \in Viewers
      BY <2>1 DEF Inspect
    <3>2. pc' = [pc EXCEPT ![v] = pc'[v]]
      BY <1>1, <2>1 DEF Inspect, Goto, LocalTypes
    <3> QED BY <1>1, <3>1, <3>2 DEF ViewsInv
  <2> QED BY <1>1, <2>2, <2>3, StrangeOnes DEF ViewsInv, ViewTypes, LocalTypes
<1>4. CASE \E v \in Procs : Load(v)
  <2>1. PICK v \in Procs : Load(v)
    BY <1>4
  <2>2. UNCHANGED <<changed, expected, cause, betrayed>> /\ view' = [view EXCEPT ![v] = Snapshots]
    BY <1>1, <2>1, SnapshotsWhole DEF Load, tree
  <2>5. pc' = [pc EXCEPT ![v] = "done"]
    BY <2>1 DEF Load, Goto
  <2>3. None \notin Snapshots
    BY LocalNames DEF Snapshots
  <2>4. \A p \in changed \ betrayed : p \in Snapshots
    BY <1>1, SnapshotsThere
  <2> QED BY <1>1, <2>2, <2>3, <2>4, <2>5 DEF ViewsInv, ViewTypes, LocalTypes
<1>5. CASE ~ \E v \in Procs : Inspect(v) \/ Load(v)
  <2>1. UNCHANGED <<view, expected, cause>>
    BY <1>5 DEF Next, Write, BeginWriting, BeginSaving, MakeDirectory, SyncParent, NextItem,
         Complete, CreateTemp, Commit, Settle, Fail, Execute, Crash, Intrude, PowerLoss,
         AllEnded, vars, reading
  <2>2. \A v \in Viewers : pc'[v] \in {"start", "load"} => pc'[v] = pc[v]
    <3>1. CASE \E p \in Procs : Write(p)
      BY <1>1, <3>1, WritersWrite, WriteLocally
    <3>2. CASE \E p \in Procs : Crash(p)
      BY <1>1, <3>2 DEF Crash, Goto, LocalTypes
    <3>3. CASE PowerLoss
      <4>1. pc' = [p \in Procs |-> IF pc[p] \in {"start", "done"} THEN pc[p] ELSE "dead"]
        BY <3>3 DEF PowerLoss
      <4> QED BY <1>1, <4>1
    <3>4. CASE Intrude \/ AllEnded \/ UNCHANGED vars
      BY <3>4 DEF Intrude, AllEnded, vars
    <3> QED BY <1>5, <3>1, <3>2, <3>3, <3>4 DEF Next
  <2> QED BY <1>1, <1>2, <2>1, <2>2 DEF ViewsInv
<1> QED BY <1>3, <1>4, <1>5

LEMMA FilesInit == Init => FilesInv
<1>1. Init => ViewsInv
  BY DEF Init, ViewsInv, Procs
<1> QED BY <1>1, AccountsInit, TreeInit DEF FilesInv, LocalInv

LEMMA FilesStep == FilesInv /\ [Next]_vars => FilesInv'
<1> SUFFICES ASSUME FilesInv, [Next]_vars PROVE FilesInv'
  OBVIOUS
<1>1. LocalInv /\ AccountsInv /\ LocalTypes
  BY DEF FilesInv, LocalInv, AccountsInv
<1>2. AccountsInv' /\ ViewsInv'
  BY <1>1, AccountsStep, ViewsStep
<1>3. TreeInv'
  <2>1. ASSUME NEW p \in Procs, Write(p) PROVE TreeInv'
    <3>1. p \in Workers
      BY <1>1, <2>1, WritersWrite
    <3> QED BY <1>1, <2>1, <3>1, QuietTree, MakeDirectoryTree, SyncParentTree, CommitTree,
               SettleTree DEF Write
  <2> QED BY <1>1, <2>1, OthersTree, PowerLossTree DEF Next, AllEnded
<1> QED BY <1>2, <1>3 DEF FilesInv, LocalInv

THEOREM FilesInvariant == Spec => []FilesInv
<1> QED BY FilesInit, FilesStep, PTL DEF Spec

\* No path ever shows half a file, and what an invocation counted as written outlives every
\* crash and power loss, unless it was written again or a directory above it was made by
\* another invocation that had not synced it: writePrivateLocalFile syncs the file before
\* the rename and the directory after it, ensurePrivateMutationDirectory each new parent.
THEOREM FilesAreDurable == Spec => []FilesSurvive
<1>1. FilesInv => FilesSurvive
  <2> SUFFICES ASSUME FilesInv PROVE FilesSurvive
    OBVIOUS
  <2>1. \A path \in Paths : files[path].state # "torn"
    BY AllowedForms DEF FilesInv, LocalInv, TreeInv, Shown
  <2>2. ASSUME NEW p \in Workers, p \notin betrayed, NEW i \in 1..written[p]
        PROVE  Solid(files[job[p].items[i]])
    BY <2>2 DEF FilesInv, LocalInv, TreeInv, Held
  <2> QED BY <2>1, <2>2 DEF FilesSurvive, Workers, Solid
<1> QED BY <1>1, FilesInvariant, PTL

\* The counts on record are true of every dump, export and install: what counts as
\* succeeded was put in place, what counts as skipped was not touched, and a command that
\* started an item and was not killed has such a record.
THEOREM CountsAreHonest == Spec => []ProgressHonest
<1>1. FilesInv => ProgressHonest
  BY LocalNames DEF FilesInv, LocalInv, AccountsInv, Account, ProgressHonest, Items
<1> QED BY <1>1, FilesInvariant, PTL

\* A rollback list that answers shows the snapshot of every schema change executed before
\* it, except where a directory was lost, and refuses over nobody's files but those of
\* snapshot writers and outsiders: no other command writes into the reserved directory.
THEOREM ChangesAreListed == Spec => []EveryChangeListed
<1>1. FilesInv => EveryChangeListed
  BY DEF FilesInv, ViewsInv, EveryChangeListed
<1> QED BY <1>1, FilesInvariant, PTL

\* What the files, the accounts and the viewers of the tool are made of.
THEOREM LocalTypeCorrect == Spec => []TypeOK
<1>1. FilesInv => TypeOK
  <2> SUFFICES ASSUME FilesInv PROVE TypeOK
    OBVIOUS
  <2>1. LocalTypes /\ ViewTypes /\ TreeTypes /\ Shown
    BY DEF FilesInv, LocalInv, AccountsInv, TreeInv
  <2>2. {files, firm} \subseteq [Paths -> Contents]
    BY <2>1 DEF TreeTypes
  <2>3. ASSUME NEW p \in Procs \ Viewers
        PROVE  /\ 0 <= written[p] /\ written[p] <= attempted[p]
               /\ attempted[p] <= Len(job[p].items)
               /\ touched[p] \subseteq DOMAIN job[p].items
    <3>1. p \in Workers /\ Account(p)
      BY <2>3 DEF Procs, Workers, FilesInv, LocalInv, AccountsInv
    <3>2. written[p] \in Nat /\ attempted[p] \in Nat /\ Items(p) \in Nat
          /\ DOMAIN job[p].items = 1..Items(p)
      BY <2>1, <3>1, ItemPlace DEF LocalTypes
    <3>3. 1..attempted[p] \subseteq 1..Items(p)
      BY <3>1, <3>2 DEF Account
    <3> QED BY <3>1, <3>2, <3>3 DEF Account, Items
  <2> QED BY <2>1, <2>2, <2>3 DEF TypeOK, LocalTypes, Control, TreeTypes, ViewTypes
<1> QED BY <1>1, FilesInvariant, PTL
=============================================================================
