---------------------------- MODULE MutationAudit ----------------------------
(***************************************************************************)
(* The durable mutation evidence of cmd/mutation_audit.go: concurrent CLI  *)
(* invocations share one append-only audit log, the lock file that orders  *)
(* appends (<path>.mutation-audit.lock), the outcome spool directory       *)
(* (<path>.outcome-spool) and the spool's own lock file.                   *)
(*                                                                         *)
(* A process of Mutators runs one governed mutation: beginMutationAudit    *)
(* (intent), the side effect, finishMutationAudit (outcome).  A process of *)
(* Readers runs one command that only emits an ordinary audit event        *)
(* (emitAudit -> appendQueuedAuditEvent).  A process identifier doubles as *)
(* the random mutationId of its mutation.                                  *)
(*                                                                         *)
(* Every failure (an append that does not end cleanly, an I/O error, a     *)
(* lock that times out or cannot be released, a crash) spends one of       *)
(* MaxFaults.                                                              *)
(***************************************************************************)
EXTENDS Naturals, Sequences, FiniteSets

CONSTANTS
    Mutators,   \* invocations that perform one governed mutation each
    Readers,    \* invocations that only append an ordinary audit event
    None,       \* "no process", the value of a free lock
    MaxSeq,     \* the largest spool sequence number (2^63-1 in the code)
    MaxFaults   \* bound: failures injected in one behaviour

Procs == Mutators \cup Readers

ASSUME ConstantsAssumption ==
    /\ None \notin Procs
    /\ Mutators \cap Readers = {}
    /\ MaxSeq \in Nat \ {0}
    /\ MaxFaults \in Nat

VARIABLES
    pc,         \* where each invocation stands
    pathLock,   \* holder of the append-order lock
    spoolLock,  \* holder of the spool lock
    log,        \* the audit log, oldest record first
    spool,      \* the directory entries of the outcome spool
    clock,      \* counts the calls of now() that stamp a record
    draft,      \* the outcome each invocation is about to spool
    effect,     \* how the side effect of each mutation ended
    report,     \* what each invocation told its caller
    faults,     \* failures injected so far
    queued      \* history: the records spooled, in the order they were committed

vars == <<pc, pathLock, spoolLock, log, spool, clock, draft, effect, report,
          faults, queued>>

-----------------------------------------------------------------------------
(* Records, spool entries and control states. *)

Record(p, phase, status, stamp, late) ==
    [mid |-> p, phase |-> phase, status |-> status, stamp |-> stamp, late |-> late]

Records ==
    [mid : Procs, phase : {"intent", "outcome", "event"},
     status : {"pending", "succeeded", "failed", "skipped"},
     stamp : Nat, late : BOOLEAN]

Entries ==
    [seq : 1..MaxSeq, rec : Records, state : {"temp", "pending", "indeterminate"}]

\* Where an invocation can be: "start" and "executed" wait for the path lock, "queue"
\* and "own" hold it, "replay", "remove", "removeStop" and "mark" hold both locks,
\* "spool" is about to take the spool lock and "temp" holds it with a *.tmp file.
Control ==
    {"start", "queue", "replay", "remove", "removeStop", "mark", "own", "ready",
     "executed", "unrecorded", "spool", "temp", "done", "dead"}

NoDraft == Record(None, "event", "pending", 0, FALSE)

Exited(p) == pc[p] \in {"done", "dead"}
Finishing(p) == effect[p] # "none"

\* The three record kinds an invocation appends in its own name.
Intent(p, stamp) == Record(p, "intent", "pending", stamp, FALSE)
Outcome(p, stamp, late) == Record(p, "outcome", effect[p], stamp, late)
Skipped(p, stamp) == Record(p, "outcome", "skipped", stamp, FALSE)

Own(p, stamp) ==
    IF p \in Readers THEN Record(p, "event", "succeeded", stamp, FALSE)
    ELSE IF Finishing(p) THEN Outcome(p, stamp, FALSE)
    ELSE Intent(p, stamp)

Fault == faults < MaxFaults /\ faults' = faults + 1

Goto(p, where) == pc' = [pc EXCEPT ![p] = where]

Return(p, what) ==
    /\ Goto(p, "done")
    /\ report' = [report EXCEPT ![p] = what]

\* Mutant: the deferred release of a lock is forgotten.
Released_Never(lock, p) == lock

Released(lock, p) == IF lock = p THEN None ELSE lock

-----------------------------------------------------------------------------
Init ==
    /\ pc = [p \in Procs |-> "start"]
    /\ pathLock = None
    /\ spoolLock = None
    /\ log = <<>>
    /\ spool = {}
    /\ clock = 0
    /\ draft = [p \in Procs |-> NoDraft]
    /\ effect = [p \in Procs |-> "none"]
    /\ report = [p \in Procs |-> "none"]
    /\ faults = 0
    /\ queued = <<>>

-----------------------------------------------------------------------------
(* withMutationAuditPathLock: the lock waits for its holder. *)

\* Mutant: only the goroutines of one process exclude each other.
PathLockFree_Always == TRUE

PathLockFree == pathLock = None

AcquirePathLock(p) ==
    /\ pc[p] \in {"start", "executed"}
    /\ PathLockFree
    /\ pathLock' = p
    /\ Goto(p, "queue")
    /\ UNCHANGED <<spoolLock, log, spool, clock, draft, effect, report, faults, queued>>

\* What an invocation does when it cannot get through the queue: the intent is
\* refused, the ordinary event is dropped with a warning, and an outcome that is
\* still owed is spooled outside the path lock.
GiveUpQueue(p) ==
    IF Finishing(p)
    THEN Goto(p, "unrecorded") /\ UNCHANGED report
    ELSE Return(p, IF p \in Readers THEN "warned" ELSE "refused")

\* The wait times out, or the lock file cannot be verified or created.
PathLockFails(p) ==
    /\ pc[p] \in {"start", "executed"}
    /\ Fault
    /\ GiveUpQueue(p)
    /\ UNCHANGED <<pathLock, spoolLock, log, spool, clock, draft, effect, queued>>

-----------------------------------------------------------------------------
(* replayMutationAuditSpool, under both locks. *)

AbandonQueue(p) ==
    /\ GiveUpQueue(p)
    /\ pathLock' = None
    /\ spoolLock' = Released(spoolLock, p)
    /\ UNCHANGED <<clock, draft, effect, queued>>

\* Mutant: replay skips entries it has quarantined.
Unreplayable_TempOnly(e) == e.state = "temp"

\* A leftover *.tmp file is an unexpected entry; an .indeterminate one stops replay.
Unreplayable(e) == e.state # "pending"

OpenQueue(p) ==
    /\ pc[p] = "queue"
    /\ spoolLock = None
    /\ IF \E e \in spool : Unreplayable(e)
       THEN AbandonQueue(p)
       ELSE /\ spoolLock' = p
            /\ Goto(p, "replay")
            /\ UNCHANGED <<pathLock, clock, draft, effect, report, queued>>
    /\ UNCHANGED <<log, spool, faults>>

\* The spool directory, its lock or an entry cannot be verified, locked or read.
QueueFails(p) ==
    /\ pc[p] \in {"queue", "replay"}
    /\ Fault
    /\ AbandonQueue(p)
    /\ UNCHANGED <<log, spool>>

\* File names sort by sequence number.
NextInQueue(e) == e \in spool /\ \A f \in spool : e.seq <= f.seq

\* The append of a queued outcome: committed, committed with an error, unknown (the
\* record may or may not be in the log) or known not committed.
ReplayAppend(p) ==
    /\ pc[p] = "replay"
    /\ \E e \in spool :
         /\ NextInQueue(e)
         /\ \/ /\ log' = Append(log, e.rec)
               /\ \/ Goto(p, "remove") /\ UNCHANGED faults
                  \/ Goto(p, "removeStop") /\ Fault
               /\ UNCHANGED <<pathLock, spoolLock, clock, draft, effect, report, queued>>
            \/ /\ log' \in {log, Append(log, e.rec)}
               /\ Goto(p, "mark") /\ Fault
               /\ UNCHANGED <<pathLock, spoolLock, clock, draft, effect, report, queued>>
            \/ /\ Fault
               /\ AbandonQueue(p)
               /\ UNCHANGED log
    /\ UNCHANGED spool

\* removeReplayedMutationSpool: the removal, or the directory sync after it, may fail.
RemoveReplayed(p) ==
    /\ pc[p] \in {"remove", "removeStop"}
    /\ \E e \in spool :
         /\ NextInQueue(e)
         /\ \/ /\ spool' = spool \ {e}
               /\ pc[p] = "remove"
               /\ Goto(p, "replay")
               /\ UNCHANGED <<pathLock, spoolLock, clock, draft, effect, report, faults, queued>>
            \/ /\ spool' = spool \ {e}
               /\ pc[p] = "removeStop"
               /\ AbandonQueue(p)
               /\ UNCHANGED faults
            \/ /\ spool' \in {spool, spool \ {e}}
               /\ Fault
               /\ AbandonQueue(p)
    /\ UNCHANGED log

\* markMutationSpoolIndeterminate: the rename may fail and leave the entry queued.
MarkIndeterminate(p) ==
    /\ pc[p] = "mark"
    /\ \E e \in spool :
         /\ NextInQueue(e)
         /\ \/ /\ spool' = (spool \ {e}) \cup {[e EXCEPT !.state = "indeterminate"]}
               /\ UNCHANGED faults
            \/ /\ Fault
               /\ UNCHANGED spool
    /\ AbandonQueue(p)
    /\ UNCHANGED log

\* Mutant: the loop ends although entries are left.
Drained_Early == TRUE

Drained == spool = {}

\* The spool lock is released; its release may fail, which fails the replay.
CloseQueue(p) ==
    /\ pc[p] = "replay"
    /\ Drained
    /\ \/ /\ spoolLock' = None
          /\ Goto(p, "own")
          /\ UNCHANGED <<pathLock, clock, draft, effect, report, faults, queued>>
       \/ Fault /\ AbandonQueue(p)
    /\ UNCHANGED <<log, spool>>

-----------------------------------------------------------------------------
(* The append of the invocation's own record, under the path lock. *)

\* The record is committed without an error.  An intent whose path lock then cannot
\* be released refuses the mutation although the intent is in the log.
AppendCommitted(p) ==
    /\ pc[p] = "own"
    /\ clock' = clock + 1
    /\ log' = Append(log, Own(p, clock'))
    /\ pathLock' = None
    /\ \/ /\ IF p \in Readers \/ Finishing(p)
             THEN Return(p, "ok")
             ELSE Goto(p, "ready") /\ UNCHANGED report
          /\ UNCHANGED faults
       \/ /\ Fault
          /\ Return(p, IF p \in Readers THEN "warned"
                       ELSE IF Finishing(p) THEN "uncertain" ELSE "refused")
    /\ UNCHANGED <<spoolLock, spool, draft, effect, queued>>

\* Mutant: every append error of an outcome takes the fallback.
ReportUncertain_Fallback(p) == Goto(p, "unrecorded") /\ UNCHANGED report

ReportUncertain(p) == Return(p, "uncertain")

\* Committed with an error or indeterminate: an intent gets a "skipped" outcome that
\* is spooled, an outcome is reported and never queued.
AppendUncertain(p) ==
    /\ pc[p] = "own"
    /\ Fault
    /\ log' \in {log, Append(log, Own(p, clock + 1))}
    /\ IF p \in Readers \/ Finishing(p)
       THEN /\ IF p \in Readers THEN Return(p, "warned") ELSE ReportUncertain(p)
            /\ clock' = clock + 1
            /\ pathLock' = None
            /\ UNCHANGED draft
       ELSE /\ Goto(p, "spool")
            /\ clock' = clock + 2
            /\ draft' = [draft EXCEPT ![p] = Skipped(p, clock')]
            /\ UNCHANGED <<pathLock, report>>
    /\ UNCHANGED <<spoolLock, spool, effect, queued>>

\* Mutant: the mutation goes ahead without a durable intent.
RefuseIntent_Proceed(p) == Goto(p, "ready") /\ UNCHANGED report

RefuseIntent(p) == Return(p, "refused")

\* Known not committed: only an outcome is spooled, still under the path lock.
AppendNotCommitted(p) ==
    /\ pc[p] = "own"
    /\ Fault
    /\ clock' = clock + 1
    /\ IF p \in Mutators /\ Finishing(p)
       THEN /\ Goto(p, "spool")
            /\ draft' = [draft EXCEPT ![p] = Own(p, clock')]
            /\ UNCHANGED <<pathLock, report>>
       ELSE /\ IF p \in Readers THEN Return(p, "warned") ELSE RefuseIntent(p)
            /\ pathLock' = None
            /\ UNCHANGED draft
    /\ UNCHANGED <<spoolLock, log, spool, effect, queued>>

\* The caller performs the mutation between begin and finish.
Mutate(p) ==
    /\ pc[p] = "ready"
    /\ \E result \in {"succeeded", "failed"} : effect' = [effect EXCEPT ![p] = result]
    /\ Goto(p, "executed")
    /\ UNCHANGED <<pathLock, spoolLock, log, spool, clock, draft, report, faults, queued>>

\* finishMutationAudit without the path lock: the record is stamped, then spooled.
StampFallback(p) ==
    /\ pc[p] = "unrecorded"
    /\ clock' = clock + 1
    /\ draft' = [draft EXCEPT ![p] = Outcome(p, clock', TRUE)]
    /\ Goto(p, "spool")
    /\ UNCHANGED <<pathLock, spoolLock, log, spool, effect, report, faults, queued>>

-----------------------------------------------------------------------------
(* spoolMutationAuditOutcome, with or without the path lock. *)

TempOf(p) == {e \in spool : e.rec = draft[p] /\ e.state = "temp"}

\* Mutant: a clock before 1970 gives sequence zero.
NextSequence_NoFloor(now) ==
    LET above == {s \in now..MaxSeq : \A e \in spool : e.seq < s}
    IN  CHOOSE s \in above : \A t \in above : s <= t

\* Mutant: the clock alone orders the queue.
NextSequence_ClockOnly(now) == IF now < 1 THEN 1 ELSE now

\* nextMutationSpoolSequence: the clock reading, pushed above every entry.
NextSequence(now) ==
    LET start == IF now < 1 THEN 1 ELSE now
        above == {s \in start..MaxSeq : \A e \in spool : e.seq < s}
    IN  CHOOSE s \in above : \A t \in above : s <= t

SequenceAvailable ==
    \A e \in spool : e.state # "temp" /\ e.seq < MaxSeq

\* Mutant: the error of the spooling is dropped.
LeaveSpool_Optimistic(p, outcome) ==
    /\ spoolLock' = Released(spoolLock, p)
    /\ pathLock' = Released(pathLock, p)
    /\ Return(p, "incomplete")
    /\ UNCHANGED <<log, clock, draft, effect>>

LeaveSpool(p, outcome) ==
    /\ spoolLock' = Released(spoolLock, p)
    /\ pathLock' = Released(pathLock, p)
    /\ Return(p, outcome)
    /\ UNCHANGED <<log, clock, draft, effect>>

WriteTemp(p) ==
    /\ pc[p] = "spool"
    /\ spoolLock = None
    /\ IF SequenceAvailable
       THEN /\ \E now \in 0..MaxSeq :
                 spool' = spool \cup
                   {[seq |-> NextSequence(now), rec |-> draft[p], state |-> "temp"]}
            /\ spoolLock' = p
            /\ Goto(p, "temp")
            /\ UNCHANGED <<pathLock, log, clock, draft, effect, report>>
       ELSE LeaveSpool(p, "lost") /\ UNCHANGED spool
    /\ UNCHANGED <<faults, queued>>

\* Locking, validating, writing, syncing or renaming fails; the temporary file is
\* removed, and the error of that removal is ignored.
SpoolFails(p) ==
    /\ \/ pc[p] = "spool" /\ UNCHANGED spool
       \/ pc[p] = "temp" /\ spool' \in {spool, spool \ TempOf(p)}
    /\ Fault
    /\ LeaveSpool(p, "lost")
    /\ UNCHANGED queued

\* The rename makes the record visible to replay.  The directory sync or the release
\* of the lock may still fail, which reports the spooling as failed.
CommitSpool(p) ==
    /\ pc[p] = "temp"
    /\ spool' = (spool \ TempOf(p)) \cup {[e EXCEPT !.state = "pending"] : e \in TempOf(p)}
    /\ queued' = Append(queued, draft[p])
    /\ \/ LeaveSpool(p, "incomplete") /\ UNCHANGED faults
       \/ LeaveSpool(p, "lost") /\ Fault

-----------------------------------------------------------------------------
\* The process is killed between two steps; the operating system frees its locks.
Crash(p) ==
    /\ ~Exited(p)
    /\ Fault
    /\ Goto(p, "dead")
    /\ pathLock' = Released(pathLock, p)
    /\ spoolLock' = Released(spoolLock, p)
    /\ UNCHANGED <<log, spool, clock, draft, effect, report, queued>>

Step(p) ==
    \/ AcquirePathLock(p) \/ OpenQueue(p)
    \/ ReplayAppend(p) \/ RemoveReplayed(p) \/ MarkIndeterminate(p) \/ CloseQueue(p)
    \/ AppendCommitted(p) \/ AppendUncertain(p) \/ AppendNotCommitted(p)
    \/ StampFallback(p) \/ WriteTemp(p) \/ CommitSpool(p)

Failure(p) == PathLockFails(p) \/ QueueFails(p) \/ SpoolFails(p) \/ Crash(p)

AllExited == (\A p \in Procs : Exited(p)) /\ UNCHANGED vars

Next ==
    \/ \E p \in Procs : Step(p) \/ Mutate(p) \/ Failure(p)
    \/ AllExited

Spec == Init /\ [][Next]_vars

-----------------------------------------------------------------------------
(* Properties. *)

Logged(r) == \E i \in DOMAIN log : log[i] = r
InSpool(r) == \E e \in spool : e.rec = r /\ e.state # "temp"

IsOutcomeOf(r, p) == r.mid = p /\ r.phase = "outcome"

TypeOK ==
    /\ pc \in [Procs -> Control]
    /\ pathLock \in Procs \cup {None}
    /\ spoolLock \in Procs \cup {None}
    /\ log \in Seq(Records)
    /\ spool \subseteq Entries
    /\ clock \in Nat
    /\ draft \in [Procs -> Records \cup {NoDraft}]
    /\ effect \in [Procs -> {"none", "succeeded", "failed"}]
    /\ report \in [Procs -> {"none", "ok", "warned", "refused", "incomplete", "lost", "uncertain"}]
    /\ faults \in 0..MaxFaults
    /\ queued \in Seq(Records)

\* The side effect of a mutation happens only after its intent is in the log for good,
\* and an outcome that claims an execution never precedes its intent there
\* (beginMutationAudit: "Intent validation and durable pre-side-effect persistence").
IntentBeforeEffect ==
    /\ \A p \in Mutators : Finishing(p) =>
          \E i \in DOMAIN log : log[i].mid = p /\ log[i].phase = "intent"
    /\ \A j \in DOMAIN log : log[j].phase = "outcome" /\ log[j].status # "skipped" =>
          \E i \in 1..(j - 1) : log[i].mid = log[j].mid /\ log[i].phase = "intent"

\* finishMutationAudit returning success, or AUDIT_INCOMPLETE without "durable spooling
\* failed", is a promise: the outcome is in the log or still in the spool, whatever other
\* invocations replay, fail to remove, quarantine or leave behind when they crash.
OutcomeNotLost ==
    \A p \in Mutators : report[p] \in {"ok", "incomplete"} =>
        \/ \E i \in DOMAIN log : IsOutcomeOf(log[i], p)
        \/ \E e \in spool : IsOutcomeOf(e.rec, p) /\ e.state # "temp"

\* The evidence of one mutation never contradicts itself: all its outcome records, in the
\* log or on disk, are the same record, and "skipped" is only said of a mutation that was
\* refused before its side effect.
OutcomesAgree ==
    LET held == {log[i] : i \in DOMAIN log} \cup {e.rec : e \in spool}
        outcomes == {r \in held : r.phase = "outcome"}
    IN  /\ \A r, s \in outcomes : r.mid = s.mid => r = s
        /\ \A r \in outcomes :
              IF r.status = "skipped" THEN ~Finishing(r.mid) ELSE r.status = effect[r.mid]

\* At-least-once replay stays easy to deduplicate: the copies a crash or a failed removal
\* makes of a queued outcome are consecutive in the log.
DuplicatesAdjacent ==
    \A i, k \in DOMAIN log : i < k /\ log[i] = log[k] =>
        \A j \in i..k : log[j] = log[i]

\* Records stamped under the append-order lock stand in the log in the order of their
\* timestamps; only an outcome stamped outside that lock can be out of order
\* (appendQueuedAuditEvent: the timestamp is assigned while the lock is held).
StampOrder ==
    \A i, j \in DOMAIN log :
        i < j /\ ~log[i].late /\ ~log[j].late => log[i].stamp <= log[j].stamp

\* Replay is first in, first out although sequence numbers come from a clock that may
\* step back: an outcome is in the log, and out of the spool, before any outcome that was
\* spooled after it is appended.
ReplayInQueueOrder ==
    \A a, b \in DOMAIN queued : a < b /\ Logged(queued[b]) =>
        /\ ~InSpool(queued[a])
        /\ \E i, j \in DOMAIN log : i < j /\ log[i] = queued[a] /\ log[j] = queued[b]

\* "known-committed and indeterminate outcomes are never queued because the record may
\* already exist": a mutation whose outcome may be in the log is not spooled again.
NeverQueuesLogged ==
    [][\A e \in spool' : e.state = "temp" /\ e \notin spool =>
          ~\E i \in DOMAIN log : IsOutcomeOf(log[i], e.rec.mid)]_vars

\* The queue fails closed.  Once an entry is quarantined as .indeterminate nothing more is
\* appended, by anyone; and while a *.tmp file is there, such as one that a killed process
\* left behind, nothing is replayed, only invocations that drained the queue before finish.
FailsClosed ==
    [][/\ (\E e \in spool : e.state = "indeterminate") => log' = log
       /\ (\E e \in spool : e.state = "temp") /\ log' # log =>
             \E p \in Procs : pc[p] = "own" /\ log' = Append(log, Own(p, clock + 1))]_vars

\* Nothing a process appends in its own name overtakes an outcome that was spooled under
\* the append-order lock: replay comes first.
QueueDrainedFirst ==
    [][\A p \in Procs : pc[p] = "own" /\ log' # log =>
          \A e \in spool : e.state = "pending" => e.rec.late]_vars

\* README: "Retryable queued outcomes replay in order before the next intent."
IntentAfterQueueDrained ==
    [][\A p \in Mutators : pc[p] = "own" /\ ~Finishing(p) /\ log' # log =>
          \A e \in spool : e.state # "pending"]_vars

\* README: "Every real mutation writes [an] intent [...] then writes a correlated outcome
\* with the same mutationId": an invocation that returned without crashing and without
\* reporting incomplete audit state leaves no intent without an outcome.
EveryIntentConcluded ==
    \A p \in Mutators :
        report[p] = "refused" /\ (\E i \in DOMAIN log : log[i].mid = p /\ log[i].phase = "intent") =>
            \/ \E i \in DOMAIN log : IsOutcomeOf(log[i], p)
            \/ \E e \in spool : IsOutcomeOf(e.rec, p)

Fairness == \A p \in Procs : WF_vars(Step(p) \/ Mutate(p))
FairSpec == Spec /\ Fairness

\* No invocation waits forever: the two locks are always taken path lock first and every
\* holder lets go, so each invocation returns or is killed, even when no wait times out.
EveryoneReturns == \A p \in Procs : <>Exited(p)

\* An entry that makes replay fail closed until somebody intervenes: quarantined, being
\* quarantined, or the *.tmp file of a dead process.
NeedsIntervention ==
    \/ \E e \in spool : e.state = "indeterminate"
    \/ \E e \in spool : e.state = "temp" /\ pc[e.rec.mid] # "temp"
    \/ \E p \in Procs : pc[p] = "mark"

\* auditIncompleteError: "a later mutation replays durable outcomes automatically".  Once
\* storage works again (no failure is left) and nothing needs intervention, an invocation
\* that has not started yet carries every queued outcome into the log.
QueueRecovers ==
    \A m \in Mutators, p \in Procs :
        (/\ faults = MaxFaults
         /\ pc[p] = "start"
         /\ ~NeedsIntervention
         /\ \E e \in spool : IsOutcomeOf(e.rec, m) /\ e.state = "pending")
        ~> (\E i \in DOMAIN log : IsOutcomeOf(log[i], m))

-----------------------------------------------------------------------------
(* Refinement.  A record says "intent" or how its mutation ended; ordinary events are   *)
(* no evidence of a mutation, and a *.tmp file is not owed yet.                          *)

Says(r) == IF r.phase = "outcome" THEN r.status ELSE r.phase
Statements(records) ==
    {[of |-> r.mid, says |-> Says(r)] : r \in {q \in records : q.phase # "event"}}

Evidence == INSTANCE AuditEvidence WITH
    Mutations <- Mutators,
    recorded <- Statements({log[i] : i \in DOMAIN log}),
    owed <- Statements({e.rec : e \in {f \in spool : f.state # "temp"}}),
    effect <- [m \in Mutators |-> effect[m]],
    promised <- {m \in Mutators : report[m] \in {"ok", "incomplete"}}

\* The locks, the spool, the quarantine, every failure and every crash together implement
\* the abstract promise: announced before performed, answered for once, owed until it is
\* recorded, and promised only when it is recorded or owed.
ImplementsEvidence == Evidence!Spec
=============================================================================
