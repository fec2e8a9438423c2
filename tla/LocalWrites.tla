----------------------------- MODULE LocalWrites -----------------------------
(***************************************************************************)
(* Files the tool writes beside its audit log (cmd/local_mutation.go):     *)
(* schema dump and export write one file per table and install one per     *)
(* skill file (Writers, they replace what is there); a governed schema     *)
(* mutation saves its snapshot before it executes (Savers); rollback and   *)
(* rollback list read the snapshot directory (Viewers).  Invocations run   *)
(* side by side, may die between any two system calls, and the machine may *)
(* lose power and start again.                                             *)
(*                                                                         *)
(* What a power loss keeps is what was synced: the data of a file by       *)
(* fsync(file), its name and the names of directories by fsync(parent).    *)
(* Of the rest any part may be kept.                                       *)
(***************************************************************************)
EXTENDS OutcomeAccounting, Sequences, FiniteSets, Functions

CONSTANTS
    Writers, Savers, Viewers,
    None,
    Home,         \* an existing directory that outlives every power loss
    Dirs,         \* the directories an invocation may have to create
    Parent,       \* the directory each of them stands in
    SnapshotDir,  \* snapshots/ beside the audit log, reserved evidence
    Names,        \* names of the files Writers produce
    Requests,     \* what a Writer may be asked for: [root, items]
    Initial,      \* the files that may exist before, with their content
    MaxFaults     \* bound: failed system calls, crashes, power losses, alien files

Procs == Writers \cup Savers \cup Viewers
Paths ==
    (UNION {Range(r.items) : r \in Requests}) \cup [dir : {SnapshotDir}, name : Savers]

\* The random part of a snapshot's identifier makes its name unique.
SnapshotPath(p) == [dir |-> SnapshotDir, name |-> p]

\* "alien" is anything the checks refuse: a link, a directory, another owner or mode.
Contents == [state : {"missing", "unsynced", "whole", "torn", "alien"}, by : Procs \cup {None}]
Missing == [state |-> "missing", by |-> None]
AlienFile == [state |-> "alien", by |-> None]
OldFile == [state |-> "whole", by |-> None]

\* The directory and those above it, up to Home: what every set has that holds the
\* directory and with a directory its parent.
Chain(d) ==
    {e \in Dirs : \A S \in SUBSET Dirs :
        d \in S /\ (\A x \in S : Parent[x] \in S \cup {Home}) => e \in S}

\* The files of a command lie below its root, and beginMutationAudit refuses more of them
\* than an outcome can count; before the first snapshot there is none.
ASSUME LocalAssumption ==
    /\ Writers \cap Savers = {} /\ (Writers \cup Savers) \cap Viewers = {}
    /\ Names \cap Savers = {}
    /\ None \notin Procs \cup Dirs \cup Outcomes /\ Home \notin Dirs
    /\ SnapshotDir \in Dirs
    /\ Parent \in [Dirs -> Dirs \cup {Home}]
    /\ Requests \subseteq [root : Dirs, items : Seq([dir : Dirs, name : Names])]
    /\ \A r \in Requests :
         /\ Len(r.items) <= MaxCount
         /\ \A i \in DOMAIN r.items : r.root \in Chain(r.items[i].dir)
    /\ \A old \in Initial :
         /\ old \in [Paths -> {Missing, OldFile, AlienFile}]
         /\ \A p \in Savers : old[SnapshotPath(p)] = Missing
    /\ "LOCAL_IO_ERROR" \in Codes
    /\ MaxFaults \in Nat

VARIABLES
    pc,         \* where each invocation stands
    job,        \* the files each invocation is to write
    dirs,       \* the directories that exist
    firmDirs,   \* those whose name is synced
    files,      \* what every path shows
    firm,       \* what every path shows after a power loss, at worst
    temp,       \* the .dbgov-write-* file of each invocation, by its directory
    owed,       \* a directory just made, whose parent is still to be synced
    attempted,  \* items each invocation has started
    written,    \* items it counts as written
    outcome,    \* the outcome handed to the audit log
    changed,    \* the Savers that went on to execute their DDL
    view,       \* what a Viewer got
    faults,     \* failures injected so far
    touched,    \* history: the items whose file each invocation put in place
    maker,      \* history: who made each directory
    expected,   \* history: the changes executed before a Viewer started
    cause,      \* history: whose entries made a Viewer refuse the directory
    betrayed    \* history: who lost a file with a directory another had not synced

vars == <<pc, job, dirs, firmDirs, files, firm, temp, owed, attempted, written, outcome,
          changed, view, faults, touched, maker, expected, cause, betrayed>>

tree == <<dirs, firmDirs, files, firm, temp, owed, touched, maker, betrayed>>
accounts == <<attempted, written, outcome>>
reading == <<view, expected, cause>>

-----------------------------------------------------------------------------
Item(p) == job[p].items[attempted[p]]
Existing(d) == d = Home \/ d \in dirs
Refused(path) == files[path].state = "alien"

Ended(p) == pc[p] \in {"done", "dead"}
Fault == faults < MaxFaults /\ faults' = faults + 1
Goto(p, where) == pc' = [pc EXCEPT ![p] = where]

LocalError == [code |-> "LOCAL_IO_ERROR", effect |-> "known"]

Init ==
    /\ pc = [p \in Procs |-> "start"]
    /\ job \in {j \in [Procs -> Requests \cup
                       {[root |-> SnapshotDir, items |-> <<SnapshotPath(p)>>] : p \in Savers}
                       \cup {None}] :
                  /\ \A p \in Writers : j[p] \in Requests
                  /\ \A p \in Savers : j[p] = [root |-> SnapshotDir, items |-> <<SnapshotPath(p)>>]
                  /\ \A p \in Viewers : j[p] = None}
    /\ files \in Initial
    /\ firm = files
    /\ dirs = UNION {Chain(path.dir) : path \in {q \in Paths : files[q] # Missing}}
    /\ firmDirs = dirs
    /\ temp = [p \in Procs |-> None]
    /\ owed = [p \in Procs |-> None]
    /\ attempted = [p \in Procs |-> 0]
    /\ written = [p \in Procs |-> 0]
    /\ outcome = [p \in Procs |-> None]
    /\ changed = {}
    /\ view = [p \in Procs |-> None]
    /\ faults = 0
    /\ touched = [p \in Procs |-> {}]
    /\ maker = [d \in Dirs |-> None]
    /\ expected = [p \in Procs |-> {}]
    /\ cause = [p \in Procs |-> {}]
    /\ betrayed = {}

-----------------------------------------------------------------------------
(* Before anything is written. *)

\* Mutant: only the reserved files are refused, not their directories.
Reserved_Never(root) == FALSE

\* rejectReservedLocalMutationDirectory: the target may neither hold the snapshot
\* directory nor lie inside it.
Reserved(root) == root \in Chain(SnapshotDir) \/ SnapshotDir \in Chain(root)

\* Two items with one path, a reserved directory or a target that is not a private
\* regular file refuse the command before its intent; so may the authorization.
BeginWriting(p) ==
    /\ p \in Writers /\ pc[p] = "start"
    /\ \/ /\ ~Reserved(job[p].root)
          /\ IsInjective(job[p].items)
          /\ \A i \in DOMAIN job[p].items : ~Refused(job[p].items[i])
          /\ Goto(p, "root")
       \/ Goto(p, "done")
    /\ UNCHANGED <<job, tree, accounts, reading, changed, faults>>

\* The plan of a schema mutation is stable and its intent recorded.
BeginSaving(p) ==
    /\ p \in Savers /\ pc[p] = "start"
    /\ Goto(p, "root")
    /\ UNCHANGED <<job, tree, accounts, reading, changed, faults>>

-----------------------------------------------------------------------------
(* ensurePrivateMutationDirectory: for the root, then again for every file. *)

Goal(p) == IF pc[p] = "root" THEN job[p].root ELSE Item(p).dir
Ensured(p) == owed[p] = None /\ Chain(Goal(p)) \subseteq dirs

\* The names in a directory become durable: its files and its subdirectories.
Synced(d) ==
    /\ firm' = [path \in Paths |-> IF path.dir = d THEN files[path] ELSE firm[path]]
    /\ firmDirs' = firmDirs \cup {e \in dirs : Parent[e] = d}

\* Mkdir of the topmost missing directory; one that appeared meanwhile is accepted.
MakeDirectory(p) ==
    /\ pc[p] \in {"root", "file"} /\ owed[p] = None
    /\ \E d \in Chain(Goal(p)) \ dirs :
         /\ Existing(Parent[d])
         /\ dirs' = dirs \cup {d}
         /\ owed' = [owed EXCEPT ![p] = d]
         /\ maker' = [maker EXCEPT ![d] = p]
    /\ UNCHANGED <<pc, job, firmDirs, files, firm, temp, touched, betrayed, accounts,
                   reading, changed, faults>>

\* Mutant: the parent of a new directory is not synced.
SyncedParent_Skipped(d) == UNCHANGED <<firm, firmDirs>>

SyncedParent(d) == Synced(Parent[d])

SyncParent(p) ==
    /\ pc[p] \in {"root", "file"} /\ owed[p] # None
    /\ SyncedParent(owed[p])
    /\ owed' = [owed EXCEPT ![p] = None]
    /\ UNCHANGED <<pc, job, dirs, files, temp, touched, maker, betrayed, accounts,
                   reading, changed, faults>>

-----------------------------------------------------------------------------
(* writeSchemaDump and writeEmbeddedSkill: the items one after the other. *)

\* Mutant: an item counts as attempted once it is written.
Attempts_Written(p) == written[p]

\* attempted++ comes before the write.
Attempts(p) == attempted[p]

\* finishMutationAuditProgress: counts that do not add up are refused, not recorded.
\* A snapshot that cannot be saved ends its mutation before the DDL.
Conclude(p, err) ==
    LET total == Len(job[p].items)
        o == ProgressOutcome(total, written[p], Attempts(p), err)
        recorded == /\ ProgressAccepted(total, written[p], Attempts(p), err)
                    /\ ValidMutationOutcome(o, total)
    IN  /\ Goto(p, "done")
        /\ outcome' = [outcome EXCEPT ![p] = IF p \in Writers /\ recorded THEN o ELSE None]

BetweenItems(p) == pc[p] = "item" \/ (pc[p] = "root" /\ Ensured(p))

\* Mutant: the loop runs once too often.
More_OffByOne(p) == attempted[p] <= Len(job[p].items)

More(p) == attempted[p] < Len(job[p].items)

NextItem(p) ==
    /\ BetweenItems(p) /\ More(p)
    /\ attempted' = [attempted EXCEPT ![p] = @ + 1]
    /\ Goto(p, "file")
    /\ UNCHANGED <<job, tree, written, outcome, reading, changed, faults>>

\* All items are written: the outcome, or the DDL the snapshot was taken for.
Complete(p) ==
    /\ BetweenItems(p) /\ ~More(p)
    /\ IF p \in Writers THEN Conclude(p, NoError)
       ELSE Goto(p, "execute") /\ UNCHANGED outcome
    /\ UNCHANGED <<job, tree, attempted, written, reading, changed, faults>>

-----------------------------------------------------------------------------
(* writePrivateLocalFile. *)

\* The target is looked at again; an alien one fails the item.
CreateTemp(p) ==
    /\ pc[p] = "file" /\ Ensured(p)
    /\ IF Refused(Item(p))
       THEN Conclude(p, LocalError) /\ UNCHANGED temp
       ELSE /\ temp' = [temp EXCEPT ![p] = Item(p).dir]
            /\ Goto(p, "temp")
            /\ UNCHANGED outcome
    /\ UNCHANGED <<job, dirs, firmDirs, files, firm, owed, touched, maker, betrayed,
                   attempted, written, reading, changed, faults>>

\* Mutant: the temporary file is renamed without being synced.
DataState_Unsynced == "unsynced"

DataState == "whole"

\* Secure, write, sync and close the temporary file, then rename it to its target.  A
\* snapshot replaces nothing; the rename of a Writer fails on a directory and replaces
\* anything else.  Other failures are Fail's.
Commit(p) ==
    /\ pc[p] = "temp"
    /\ \/ /\ files[Item(p)] # Missing
          /\ p \in Savers \/ Refused(Item(p))
          /\ Conclude(p, LocalError)
          /\ UNCHANGED <<files, touched>>
       \/ /\ p \in Writers \/ files[Item(p)] = Missing
          /\ files' = [files EXCEPT ![Item(p)] = [state |-> DataState, by |-> p]]
          /\ touched' = [touched EXCEPT ![p] = @ \cup {attempted[p]}]
          /\ Goto(p, "settle")
          /\ UNCHANGED outcome
    /\ temp' = [temp EXCEPT ![p] = None]
    /\ UNCHANGED <<job, dirs, firmDirs, firm, owed, maker, betrayed, attempted, written,
                   reading, changed, faults>>

\* Mutant: the directory is not synced after the rename.
SyncedDirectory_Skipped(d) == UNCHANGED <<firm, firmDirs>>

SyncedDirectory(d) == Synced(d)

\* The file in place is verified and its directory synced; only then it counts.
Settle(p) ==
    /\ pc[p] = "settle"
    /\ SyncedDirectory(Item(p).dir)
    /\ written' = [written EXCEPT ![p] = @ + 1]
    /\ Goto(p, "item")
    /\ UNCHANGED <<job, dirs, files, temp, owed, touched, maker, betrayed, attempted,
                   outcome, reading, changed, faults>>

\* Mutant: the mutation goes on without the snapshot.
AfterFailure_Proceed(p) ==
    IF p \in Savers THEN Goto(p, "execute") /\ UNCHANGED outcome ELSE Conclude(p, LocalError)

AfterFailure(p) == Conclude(p, LocalError)

\* A system call fails: the command stops, and the removal of its temporary file, whose
\* error is ignored, may fail as well.
Fail(p) ==
    /\ pc[p] \in {"root", "file", "temp", "settle"}
    /\ Fault
    /\ AfterFailure(p)
    /\ temp' \in {temp, [temp EXCEPT ![p] = None]}
    /\ owed' = [owed EXCEPT ![p] = None]
    /\ UNCHANGED <<job, dirs, firmDirs, files, firm, touched, maker, betrayed, attempted,
                   written, reading, changed>>

\* ExecDDL, once capturePreparedSchemaSnapshot has returned an identifier.
Execute(p) ==
    /\ pc[p] = "execute"
    /\ changed' = changed \cup {p}
    /\ Goto(p, "done")
    /\ UNCHANGED <<job, tree, accounts, reading, faults>>

-----------------------------------------------------------------------------
(* rollback and rollback list. *)

\* validateSnapshotEvidenceDirectory: whatever is not a private .json file refuses the
\* directory, which includes what another invocation is just writing.
Strange ==
    {p \in Procs : temp[p] = SnapshotDir}
      \cup {files[path].by : path \in {q \in Paths :
               q.dir = SnapshotDir /\ q.name \in Names /\ files[q] # Missing}}

Inspect(v) ==
    /\ v \in Viewers /\ pc[v] = "start"
    /\ expected' = [expected EXCEPT ![v] = changed]
    /\ cause' = [cause EXCEPT ![v] = Strange]
    /\ Goto(v, IF Strange = {} THEN "load" ELSE "done")
    /\ UNCHANGED <<job, tree, accounts, view, changed, faults>>

Snapshots == {p \in Savers : files[SnapshotPath(p)] # Missing}

\* List loads every snapshot; one that cannot be parsed is an error.
Load(v) ==
    /\ pc[v] = "load"
    /\ view' = [view EXCEPT ![v] =
         IF \E p \in Snapshots : files[SnapshotPath(p)].state # "whole" THEN {None}
         ELSE Snapshots]
    /\ Goto(v, "done")
    /\ UNCHANGED <<job, tree, accounts, expected, cause, changed, faults>>

-----------------------------------------------------------------------------
(* The environment. *)

Crash(p) ==
    /\ ~Ended(p) /\ pc[p] # "start"
    /\ Fault
    /\ Goto(p, "dead")
    /\ owed' = [owed EXCEPT ![p] = None]
    /\ UNCHANGED <<job, dirs, firmDirs, files, firm, temp, touched, maker, betrayed,
                   accounts, reading, changed>>

\* Somebody else puts a link, a directory or a file with another mode at a path; in the
\* snapshot directory, under a name without the extension .json.
Intrude ==
    /\ Fault
    /\ \E path \in Paths :
         /\ path.dir \in dirs /\ path.name \in Names
         /\ files[path] = Missing
         /\ files' = [files EXCEPT ![path] = AlienFile]
    /\ UNCHANGED <<pc, job, dirs, firmDirs, firm, temp, owed, touched, maker, betrayed,
                   accounts, reading, changed>>

\* Every running invocation dies.  Unsynced names are kept or not, one by one; a
\* directory that is lost takes everything below it along.
PowerLoss ==
    /\ Fault
    /\ pc' = [p \in Procs |-> IF pc[p] \in {"start", "done"} THEN pc[p] ELSE "dead"]
    /\ \E keptDirs \in SUBSET (dirs \ firmDirs),
          kept \in SUBSET {path \in Paths : files[path] # firm[path]},
          keptTemps \in SUBSET {p \in Procs : temp[p] # None} :
         LET there(d) == Chain(d) \subseteq firmDirs \cup keptDirs
             read(c) == IF c.state = "unsynced" THEN [c EXCEPT !.state = "torn"] ELSE c
         IN  /\ dirs' = {d \in dirs : there(d)}
             /\ files' = [path \in Paths |->
                            IF ~there(path.dir) THEN Missing
                            ELSE read(IF path \in kept THEN files[path] ELSE firm[path])]
             /\ temp' = [p \in Procs |->
                           IF p \in keptTemps /\ there(temp[p]) THEN temp[p] ELSE None]
    /\ firmDirs' = dirs'
    /\ firm' = files'
    /\ owed' = [p \in Procs |-> None]
    /\ betrayed' = betrayed \cup
         {p \in Procs : \E i \in 1..written[p] :
            \E d \in Chain(job[p].items[i].dir) \ firmDirs : maker[d] # p}
    /\ UNCHANGED <<job, touched, maker, accounts, reading, changed>>

Write(p) ==
    \/ BeginWriting(p) \/ BeginSaving(p) \/ MakeDirectory(p) \/ SyncParent(p)
    \/ NextItem(p) \/ Complete(p)
    \/ CreateTemp(p) \/ Commit(p) \/ Settle(p) \/ Fail(p) \/ Execute(p)

AllEnded == (\A p \in Procs : Ended(p)) /\ UNCHANGED vars

Next ==
    \/ \E p \in Procs : Write(p) \/ Inspect(p) \/ Load(p) \/ Crash(p)
    \/ Intrude \/ PowerLoss
    \/ AllEnded

Spec == Init /\ [][Next]_vars

-----------------------------------------------------------------------------
(* Properties. *)

TypeOK ==
    /\ pc \in [Procs -> {"start", "root", "item", "file", "temp", "settle", "execute",
                         "load", "done", "dead"}]
    /\ firmDirs \subseteq dirs /\ dirs \subseteq Dirs
    /\ {files, firm} \subseteq [Paths -> Contents]
    /\ temp \in [Procs -> Dirs \cup {None}]
    /\ owed \in [Procs -> Dirs \cup {None}]
    /\ \A p \in Procs \ Viewers :
         /\ 0 <= written[p] /\ written[p] <= attempted[p]
         /\ attempted[p] <= Len(job[p].items)
         /\ touched[p] \subseteq DOMAIN job[p].items
    /\ changed \subseteq Savers
    /\ view \in [Procs -> (SUBSET (Savers \cup {None})) \cup {None}]
    /\ faults \in 0..MaxFaults

\* Whatever fails, is killed or loses power, no path ever shows half a file, and an item
\* its invocation counted as written is still there, unless somebody wrote it again or a
\* directory on its path was made by another invocation that had not synced it yet.
FilesSurvive ==
    /\ \A path \in Paths : files[path].state # "torn"
    /\ \A p \in (Writers \cup Savers) \ betrayed : \A i \in 1..written[p] :
          LET file == files[job[p].items[i]] IN file.state # "missing" /\ file.by # None

\* The recorded counts of a dump, an export or an install: what is counted as succeeded
\* was put in place and what is counted as skipped was not touched, and an invocation
\* that started an item and was not killed leaves such a record.
ProgressHonest ==
    \A p \in Writers :
        /\ pc[p] = "done" /\ attempted[p] > 0 => outcome[p] # None
        /\ outcome[p] # None =>
             /\ 1..outcome[p].succeeded \subseteq touched[p]
             /\ touched[p] \subseteq 1..(Len(job[p].items) - outcome[p].skipped)

\* README: "Non-empty schema mutations are snapshotted first."  A rollback list shows a
\* readable snapshot of every schema change executed before it, except where a directory
\* was lost; it refuses only over the entries of snapshot writers or of outsiders.
EveryChangeListed ==
    \A v \in Viewers :
        /\ view[v] # None => (expected[v] \ betrayed) \subseteq view[v] /\ None \notin view[v]
        /\ cause[v] \subseteq Savers \cup {None}
=============================================================================
