------------------------- MODULE MutationAuditProofs -------------------------
(* Machine-checked theorems about MutationAudit, for every set of           *)
(* invocations, every MaxSeq and every number of failures.                  *)
EXTENDS MutationAudit, SequenceTheorems, WellFoundedInduction, TLAPS

-----------------------------------------------------------------------------
(* Lemmas about the operators of the model. *)

\* nextMutationSpoolSequence returns a sequence number in range that is larger than
\* every number in the spool, whenever it does not fail.
LEMMA NextSequenceInRange ==
    ASSUME spool \subseteq Entries, SequenceAvailable, NEW now \in 0..MaxSeq
    PROVE  /\ NextSequence(now) \in 1..MaxSeq
           /\ \A e \in spool : e.seq < NextSequence(now)
<1> USE ConstantsAssumption
<1> DEFINE start == IF now < 1 THEN 1 ELSE now
           above == {s \in start..MaxSeq : \A e \in spool : e.seq < s}
<1>1. start \in 1..MaxSeq
  OBVIOUS
<1>2. MaxSeq \in above
  BY <1>1 DEF SequenceAvailable
<1>3. above \subseteq 1..MaxSeq /\ above \subseteq Nat
  BY <1>1
<1>4. PICK s \in above : \A t \in above : ~ (<<t, s>> \in OpToRel(<, Nat))
  <2> HIDE DEF above
  <2> QED BY <1>2, <1>3, NatLessThanWellFounded, WFMin
<1>5. \A t \in above : s <= t
  <2> SUFFICES ASSUME NEW t \in above PROVE s <= t
    OBVIOUS
  <2>1. s \in Nat /\ t \in Nat
    BY <1>3
  <2>2. <<t, s>> \in Nat \X Nat /\ <<t, s>>[1] = t /\ <<t, s>>[2] = s
    BY <2>1
  <2>3. ~ (t < s)
    BY <1>4, <2>2 DEF OpToRel
  <2> QED BY <2>1, <2>3
<1>6. NextSequence(now) = CHOOSE u \in above : \A t \in above : u <= t
  BY DEF NextSequence
<1>7. NextSequence(now) \in above
  <2> HIDE DEF above
  <2> QED BY <1>5, <1>6
<1> QED BY <1>3, <1>7

\* Appending keeps every record where it was and adds one at the end.
LEMMA AppendKeeps ==
    ASSUME NEW s \in Seq(Records), NEW r \in Records
    PROVE  /\ Append(s, r) \in Seq(Records)
           /\ DOMAIN s = 1..Len(s) /\ Len(s) \in Nat
           /\ DOMAIN Append(s, r) = 1..(Len(s) + 1)
           /\ \A i \in DOMAIN s : Append(s, r)[i] = s[i]
           /\ Append(s, r)[Len(s) + 1] = r
BY AppendProperties, LenProperties

-----------------------------------------------------------------------------
(* Type correctness. *)

\* The type invariant, with what makes it inductive: a process in the fallback has
\* executed its mutation, and one that spools has a record to spool.
TypeInv ==
    /\ TypeOK
    /\ \A p \in Procs : pc[p] = "unrecorded" => Finishing(p)
    /\ \A p \in Procs : pc[p] \in {"spool", "temp"} => draft[p] \in Records

LEMMA OwnIsRecord ==
    ASSUME TypeInv, NEW p \in Procs, NEW stamp \in Nat
    PROVE  Own(p, stamp) \in Records
BY DEF TypeInv, TypeOK, Own, Intent, Outcome, Record, Records, Finishing

\* Whoever gives up the queue is done, or goes on to the fallback after its mutation.
LEMMA GiveUpTyped ==
    ASSUME TypeInv, NEW p \in Procs, GiveUpQueue(p), UNCHANGED <<effect, draft>>
    PROVE  /\ pc' \in [Procs -> Control]
           /\ report' \in [Procs -> {"none", "ok", "warned", "refused", "incomplete", "lost", "uncertain"}]
           /\ \A q \in Procs : pc'[q] = "unrecorded" => Finishing(q)'
           /\ \A q \in Procs : pc'[q] \in {"spool", "temp"} => draft'[q] \in Records
<1> USE DEF TypeInv, TypeOK, Control, Finishing, Goto
<1>1. CASE Finishing(p)
  BY <1>1 DEF GiveUpQueue
<1>2. CASE ~Finishing(p)
  <2>1. pc' = [pc EXCEPT ![p] = "done"]
    BY <1>2 DEF GiveUpQueue, Return
  <2>2. \E what \in {"warned", "refused"} : report' = [report EXCEPT ![p] = what]
    BY <1>2 DEF GiveUpQueue, Return
  <2> QED BY <2>1, <2>2
<1> QED BY <1>1, <1>2

LEMMA TypeInit == Init => TypeInv
BY ConstantsAssumption DEF Init, TypeInv, TypeOK, Control, NoDraft, Record, Entries, Procs

LEMMA TypeStep == TypeInv /\ [Next]_vars => TypeInv'
<1> SUFFICES ASSUME TypeInv, [Next]_vars PROVE TypeInv'
  OBVIOUS
<1> USE ConstantsAssumption
<1> USE DEF TypeInv, TypeOK, Control, Fault, Goto, Return, Finishing, GiveUpQueue, AbandonQueue
<1>1. CASE UNCHANGED vars
  BY <1>1 DEF vars
<1>2. ASSUME NEW p \in Procs, AcquirePathLock(p) PROVE TypeInv'
  BY <1>2 DEF AcquirePathLock
<1>3. ASSUME NEW p \in Procs, PathLockFails(p) PROVE TypeInv'
  BY <1>3 DEF PathLockFails
<1>4. ASSUME NEW p \in Procs, OpenQueue(p) PROVE TypeInv'
  BY <1>4 DEF OpenQueue, Released
<1>5. ASSUME NEW p \in Procs, QueueFails(p) PROVE TypeInv'
  <2>1. /\ pathLock' \in {pathLock, None} /\ spoolLock' \in {spoolLock, None}
        /\ faults' \in 0..MaxFaults /\ UNCHANGED <<log, spool, clock, draft, effect, queued>>
        /\ GiveUpQueue(p)
    <3> HIDE DEF GiveUpQueue
    <3> QED BY <1>5 DEF QueueFails, Released
  <2> QED BY <2>1, GiveUpTyped
<1>6. ASSUME NEW p \in Procs, ReplayAppend(p) PROVE TypeInv'
  <2>1. PICK e \in spool : log' \in {log, Append(log, e.rec)}
    BY <1>6 DEF ReplayAppend
  <2>2. e.rec \in Records /\ Append(log, e.rec) \in Seq(Records)
    BY AppendKeeps DEF Entries
  <2>3. log' \in Seq(Records) /\ UNCHANGED spool
    BY <1>6, <2>1, <2>2 DEF ReplayAppend
  <2> QED
    BY <1>6, <2>1, <2>3 DEF ReplayAppend, Released
<1>7. ASSUME NEW p \in Procs, RemoveReplayed(p) PROVE TypeInv'
  BY <1>7 DEF RemoveReplayed, Released
<1>8. ASSUME NEW p \in Procs, MarkIndeterminate(p) PROVE TypeInv'
  <2>1. PICK e \in spool :
          spool' \in {spool, (spool \ {e}) \cup {[e EXCEPT !.state = "indeterminate"]}}
    BY <1>8 DEF MarkIndeterminate
  <2>2. [e EXCEPT !.state = "indeterminate"] \in Entries
    BY DEF Entries
  <2>3. spool' \subseteq Entries
    BY <2>1, <2>2
  <2>4. AbandonQueue(p) /\ UNCHANGED log /\ faults' \in 0..MaxFaults
    BY <1>8 DEF MarkIndeterminate
  <2>5. GiveUpQueue(p) /\ pathLock' = None /\ spoolLock' \in {spoolLock, None}
        /\ UNCHANGED <<clock, draft, effect, queued>>
    <3> HIDE DEF GiveUpQueue
    <3> QED BY <2>4 DEF Released
  <2> QED
    BY <2>3, <2>4, <2>5, GiveUpTyped
<1>9. ASSUME NEW p \in Procs, CloseQueue(p) PROVE TypeInv'
  BY <1>9 DEF CloseQueue, Released
<1>10. ASSUME NEW p \in Procs, AppendCommitted(p) PROVE TypeInv'
  <2>1. clock' \in Nat /\ Own(p, clock') \in Records
    BY <1>10, OwnIsRecord DEF AppendCommitted
  <2>2. log' \in Seq(Records)
    BY <1>10, <2>1, AppendKeeps DEF AppendCommitted
  <2>3. /\ pathLock' = None /\ faults' \in 0..MaxFaults
        /\ UNCHANGED <<spoolLock, spool, draft, effect, queued>>
    BY <1>10 DEF AppendCommitted
  <2>4. /\ \E where \in {"done", "ready"} : Goto(p, where)
        /\ report' \in [Procs -> {"none", "ok", "warned", "refused", "incomplete", "lost", "uncertain"}]
    BY <1>10 DEF AppendCommitted
  <2>5. /\ pc' \in [Procs -> Control]
        /\ \A q \in Procs : pc'[q] # pc[q] => pc'[q] \in {"done", "ready"}
    BY <2>4
  <2>6. \A q \in Procs : pc'[q] = "unrecorded" => Finishing(q)'
    BY <2>3, <2>5
  <2>7. \A q \in Procs : pc'[q] \in {"spool", "temp"} => draft'[q] \in Records
    BY <2>3, <2>5
  <2>8. TypeOK'
    <3> HIDE DEF Control, Goto, Finishing
    <3> QED BY <2>1, <2>2, <2>3, <2>4, <2>5
  <2> QED BY <2>6, <2>7, <2>8
<1>11. ASSUME NEW p \in Procs, AppendUncertain(p) PROVE TypeInv'
  <2>1. clock' \in Nat /\ Own(p, clock + 1) \in Records
    BY <1>11, OwnIsRecord DEF AppendUncertain
  <2>2. log' \in Seq(Records)
    <3>1. Append(log, Own(p, clock + 1)) \in Seq(Records)
      BY <2>1, AppendKeeps
    <3> QED BY <1>11, <3>1 DEF AppendUncertain
  <2>3. Skipped(p, clock') \in Records
    BY <2>1 DEF Skipped, Record, Records
  <2> QED
    BY <1>11, <2>1, <2>2, <2>3 DEF AppendUncertain, ReportUncertain
<1>12. ASSUME NEW p \in Procs, AppendNotCommitted(p) PROVE TypeInv'
  <2>1. /\ faults' \in 0..MaxFaults /\ clock' \in Nat /\ pathLock' \in {pathLock, None}
        /\ UNCHANGED <<spoolLock, log, spool, effect, queued>>
    BY <1>12 DEF AppendNotCommitted
  <2>2. CASE pc' = [pc EXCEPT ![p] = "spool"]
    <3>1. Own(p, clock') \in Records
      BY <2>1, OwnIsRecord
    <3>2. draft' = [draft EXCEPT ![p] = Own(p, clock')] /\ UNCHANGED report
      BY <1>12, <2>2 DEF AppendNotCommitted, RefuseIntent
    <3> QED BY <2>1, <2>2, <3>1, <3>2
  <2>3. CASE pc' # [pc EXCEPT ![p] = "spool"]
    <3>1. /\ pc' = [pc EXCEPT ![p] = "done"] /\ UNCHANGED draft
          /\ \E what \in {"warned", "refused"} : report' = [report EXCEPT ![p] = what]
      BY <1>12, <2>3 DEF AppendNotCommitted, RefuseIntent
    <3> QED BY <2>1, <3>1
  <2> QED BY <2>2, <2>3
<1>13. ASSUME NEW p \in Procs, Mutate(p) PROVE TypeInv'
  BY <1>13 DEF Mutate
<1>14. ASSUME NEW p \in Procs, StampFallback(p) PROVE TypeInv'
  BY <1>14 DEF StampFallback, Outcome, Record, Records
<1>15. ASSUME NEW p \in Procs, WriteTemp(p) PROVE TypeInv'
  <2>1. spool' \subseteq Entries
    <3>1. CASE SequenceAvailable
      <4>1. PICK now \in 0..MaxSeq :
              spool' = spool \cup
                {[seq |-> NextSequence(now), rec |-> draft[p], state |-> "temp"]}
        BY <1>15, <3>1 DEF WriteTemp
      <4>2. NextSequence(now) \in 1..MaxSeq /\ draft[p] \in Records
        BY <1>15, <3>1, NextSequenceInRange DEF WriteTemp
      <4> QED BY <4>1, <4>2 DEF Entries
    <3> QED BY <1>15, <3>1 DEF WriteTemp
  <2> QED
    BY <1>15, <2>1 DEF WriteTemp, LeaveSpool, Released
<1>16. ASSUME NEW p \in Procs, SpoolFails(p) PROVE TypeInv'
  BY <1>16 DEF SpoolFails, LeaveSpool, Released, TempOf
<1>17. ASSUME NEW p \in Procs, CommitSpool(p) PROVE TypeInv'
  <2>1. spool' \subseteq Entries
    <3>1. spool' = (spool \ TempOf(p)) \cup {[e EXCEPT !.state = "pending"] : e \in TempOf(p)}
      BY <1>17 DEF CommitSpool
    <3>2. \A e \in TempOf(p) : [e EXCEPT !.state = "pending"] \in Entries
      BY DEF TempOf, Entries
    <3> QED BY <3>1, <3>2
  <2>2. queued' \in Seq(Records)
    BY <1>17, AppendKeeps DEF CommitSpool
  <2> QED
    BY <1>17, <2>1, <2>2 DEF CommitSpool, LeaveSpool, Released
<1>18. ASSUME NEW p \in Procs, Crash(p) PROVE TypeInv'
  BY <1>18 DEF Crash, Released
<1> QED
  BY <1>1, <1>2, <1>3, <1>4, <1>5, <1>6, <1>7, <1>8, <1>9, <1>10, <1>11, <1>12, <1>13,
     <1>14, <1>15, <1>16, <1>17, <1>18
     DEF Next, Step, Failure, AllExited

\* Every variable keeps its type, for every set of invocations.
THEOREM TypeCorrect == Spec => []TypeOK
<1>1. Spec => []TypeInv
  BY TypeInit, TypeStep, PTL DEF Spec
<1>2. TypeInv => TypeOK
  BY DEF TypeInv
<1> QED BY <1>1, <1>2, PTL

-----------------------------------------------------------------------------
(* Intent before effect. *)

HasIntent(m) == \E i \in DOMAIN log : log[i].mid = m /\ log[i].phase = "intent"

ClaimsExecution(r) == r.phase = "outcome" /\ r.status # "skipped"

OutcomesFollowIntents ==
    \A j \in DOMAIN log : ClaimsExecution(log[j]) =>
        \E i \in 1..(j - 1) : log[i].mid = log[j].mid /\ log[i].phase = "intent"

\* A mutation that may execute or has executed, and every outcome that claims so
\* wherever it is kept, has its intent in the log already.
IntentInv ==
    /\ TypeInv
    /\ \A p \in Procs : pc[p] = "ready" \/ Finishing(p) => HasIntent(p)
    /\ \A p \in Procs : pc[p] \in {"spool", "temp"} /\ ClaimsExecution(draft[p]) =>
          HasIntent(draft[p].mid)
    /\ \A e \in spool : ClaimsExecution(e.rec) => HasIntent(e.rec.mid)
    /\ OutcomesFollowIntents

\* Appending a record whose intent is there already keeps every intent in the log
\* and every outcome behind its intent.
LEMMA AppendFollowsIntent ==
    ASSUME IntentInv, NEW r \in Records, log' = Append(log, r),
           ClaimsExecution(r) => HasIntent(r.mid)
    PROVE  /\ \A m : HasIntent(m) => HasIntent(m)'
           /\ r.phase = "intent" => HasIntent(r.mid)'
           /\ OutcomesFollowIntents'
<1>1. /\ Len(log) \in Nat /\ DOMAIN log = 1..Len(log)
      /\ DOMAIN log' = 1..(Len(log) + 1)
      /\ \A i \in DOMAIN log : log'[i] = log[i]
      /\ log'[Len(log) + 1] = r
  BY AppendKeeps DEF IntentInv, TypeInv, TypeOK
<1>2. \A m : HasIntent(m) => HasIntent(m)'
  BY <1>1 DEF HasIntent
<1>3. r.phase = "intent" => HasIntent(r.mid)'
  BY <1>1 DEF HasIntent
<1>4. OutcomesFollowIntents'
  <2> SUFFICES ASSUME NEW j \in 1..(Len(log) + 1), ClaimsExecution(log'[j])
               PROVE  \E i \in 1..(j - 1) : log'[i].mid = log'[j].mid /\ log'[i].phase = "intent"
    BY <1>1 DEF OutcomesFollowIntents, ClaimsExecution
  <2>1. CASE j = Len(log) + 1
    BY <1>1, <2>1 DEF HasIntent
  <2>2. CASE j \in 1..Len(log)
    BY <1>1, <2>2 DEF IntentInv, OutcomesFollowIntents
  <2> QED BY <1>1, <2>1, <2>2
<1> QED BY <1>2, <1>3, <1>4

LEMMA IntentInit == Init => IntentInv
<1> SUFFICES ASSUME Init PROVE IntentInv
  OBVIOUS
<1>1. TypeInv
  BY TypeInit
<1> QED BY <1>1 DEF Init, IntentInv, Finishing, OutcomesFollowIntents

\* What a step has to respect: it appends nothing, or a record whose intent is there
\* already, and whoever is about to execute, every draft and every entry has its intent.
LEMMA IntentKept ==
    ASSUME IntentInv, TypeInv',
           \/ log' = log
           \/ \E r \in Records : /\ log' = Append(log, r)
                                 /\ ClaimsExecution(r) => HasIntent(r.mid),
           \A p \in Procs : pc'[p] = "ready" \/ effect'[p] # "none" =>
              pc[p] = "ready" \/ effect[p] # "none" \/ HasIntent(p)',
           \A p \in Procs : pc'[p] \in {"spool", "temp"} /\ ClaimsExecution(draft'[p]) =>
              HasIntent(draft'[p].mid),
           \A e \in spool' : ClaimsExecution(e.rec) => HasIntent(e.rec.mid)
    PROVE  IntentInv'
<1>1. (\A m : HasIntent(m) => HasIntent(m)') /\ OutcomesFollowIntents'
  <2>1. CASE log' = log
    BY <2>1 DEF IntentInv, HasIntent, OutcomesFollowIntents
  <2>2. CASE \E r \in Records : /\ log' = Append(log, r)
                                /\ ClaimsExecution(r) => HasIntent(r.mid)
    BY <2>2, AppendFollowsIntent
  <2> QED BY <2>1, <2>2
<1>2. \A p \in Procs : pc'[p] = "ready" \/ effect'[p] # "none" => HasIntent(p)'
  BY <1>1 DEF IntentInv, Finishing
<1>3. \A p \in Procs : pc'[p] \in {"spool", "temp"} /\ ClaimsExecution(draft'[p]) =>
         \E i \in DOMAIN log' : log'[i].mid = draft'[p].mid /\ log'[i].phase = "intent"
  BY <1>1 DEF HasIntent
<1>4. \A e \in spool' : ClaimsExecution(e.rec) =>
         \E i \in DOMAIN log' : log'[i].mid = e.rec.mid /\ log'[i].phase = "intent"
  BY <1>1 DEF HasIntent
<1> QED
  BY <1>1, <1>2, <1>3, <1>4 DEF IntentInv, Finishing, HasIntent, ClaimsExecution

\* A process's own record concerns its own mutation, is its intent before the side
\* effect, and claims an execution only after it.
LEMMA OwnFollowsIntent ==
    ASSUME IntentInv, NEW p \in Procs, NEW stamp \in Nat
    PROVE  /\ Own(p, stamp) \in Records
           /\ Own(p, stamp).mid = p
           /\ ClaimsExecution(Own(p, stamp)) => HasIntent(Own(p, stamp).mid)
           /\ p \notin Readers /\ effect[p] = "none" => Own(p, stamp).phase = "intent"
<1>1. Own(p, stamp) \in Records
  BY OwnIsRecord DEF IntentInv
<1>2. Own(p, stamp).mid = p
  BY DEF Own, Intent, Outcome, Record
<1>3. ClaimsExecution(Own(p, stamp)) => Finishing(p)
  BY DEF Own, Intent, Outcome, Record, ClaimsExecution
<1>4. p \notin Readers /\ effect[p] = "none" => Own(p, stamp).phase = "intent"
  BY DEF Own, Intent, Record, Finishing
<1> QED BY <1>1, <1>2, <1>3, <1>4 DEF IntentInv

LEMMA IntentStep == IntentInv /\ [Next]_vars => IntentInv'
<1> SUFFICES ASSUME IntentInv, [Next]_vars PROVE IntentInv'
  OBVIOUS
<1>0. /\ TypeInv /\ TypeInv'
      /\ \A e \in spool : e.rec \in Records /\ (ClaimsExecution(e.rec) => HasIntent(e.rec.mid))
      /\ \A p \in Procs : pc[p] \in {"spool", "temp"} /\ ClaimsExecution(draft[p]) =>
            HasIntent(draft[p].mid)
      /\ \A p \in Procs : effect[p] # "none" => HasIntent(p)
      /\ pc \in [Procs -> Control] /\ clock \in Nat
      /\ effect \in [Procs -> {"none", "succeeded", "failed"}]
      /\ draft \in [Procs -> Records \cup {NoDraft}]
  BY TypeStep DEF IntentInv, TypeInv, TypeOK, Entries, Finishing
<1> DEFINE Quiet == log' = log /\ spool' = spool /\ draft' = draft
           Moves == \A p \in Procs :
                       /\ pc'[p] = "ready" \/ effect'[p] # "none" =>
                             pc[p] = "ready" \/ effect[p] # "none"
                       /\ pc'[p] \in {"spool", "temp"} => pc[p] \in {"spool", "temp"}
<1>1. ASSUME Quiet, Moves PROVE IntentInv'
  BY <1>0, <1>1, IntentKept
<1>2. CASE UNCHANGED vars
  BY <1>2, <1>1 DEF vars
<1> USE DEF Goto, Return, GiveUpQueue, AbandonQueue, Finishing
<1>3. ASSUME NEW p \in Procs,
             AcquirePathLock(p) \/ PathLockFails(p) \/ OpenQueue(p) \/ QueueFails(p)
               \/ CloseQueue(p) \/ Mutate(p) \/ Crash(p)
      PROVE  IntentInv'
  <2>1. Quiet
    BY <1>3 DEF AcquirePathLock, PathLockFails, OpenQueue, QueueFails, CloseQueue, Mutate, Crash
  <2>2. Moves
    BY <1>3, <1>0 DEF AcquirePathLock, PathLockFails, OpenQueue, QueueFails, CloseQueue, Mutate,
                      Crash
  <2> QED BY <2>1, <2>2, <1>1
<1>4. ASSUME NEW p \in Procs, ReplayAppend(p) PROVE IntentInv'
  <2>1. PICK e \in spool : log' \in {log, Append(log, e.rec)}
    BY <1>4 DEF ReplayAppend
  <2>2. spool' = spool /\ draft' = draft /\ Moves
    BY <1>4, <1>0 DEF ReplayAppend
  <2> QED BY <1>0, <2>1, <2>2, IntentKept
<1>5. ASSUME NEW p \in Procs, RemoveReplayed(p) \/ MarkIndeterminate(p) PROVE IntentInv'
  <2>1. log' = log /\ draft' = draft /\ Moves
    BY <1>5, <1>0 DEF RemoveReplayed, MarkIndeterminate
  <2>2. \A e \in spool' : \E f \in spool : e.rec = f.rec
    <3>1. CASE RemoveReplayed(p)
      BY <3>1 DEF RemoveReplayed
    <3>2. CASE MarkIndeterminate(p)
      <4>1. PICK f \in spool :
              spool' \in {spool, (spool \ {f}) \cup {[f EXCEPT !.state = "indeterminate"]}}
        BY <3>2 DEF MarkIndeterminate
      <4>2. [f EXCEPT !.state = "indeterminate"].rec = f.rec
        BY <1>0 DEF TypeInv, TypeOK, Entries
      <4> QED BY <4>1, <4>2
    <3> QED BY <1>5, <3>1, <3>2
  <2> QED BY <1>0, <2>1, <2>2, IntentKept
<1>6. ASSUME NEW p \in Procs, AppendCommitted(p) PROVE IntentInv'
  <2>1. clock + 1 \in Nat /\ log' = Append(log, Own(p, clock + 1))
    BY <1>6, <1>0 DEF AppendCommitted
  <2>2. spool' = spool /\ draft' = draft /\ effect' = effect
    BY <1>6 DEF AppendCommitted
  <2>3. \A q \in Procs :
          /\ pc'[q] = "ready" =>
               pc[q] = "ready" \/ (q = p /\ p \notin Readers /\ effect[p] = "none")
          /\ pc'[q] \in {"spool", "temp"} => pc[q] \in {"spool", "temp"}
    BY <1>6, <1>0 DEF AppendCommitted
  <2>4. p \notin Readers /\ effect[p] = "none" => HasIntent(p)'
    <3> SUFFICES ASSUME p \notin Readers, effect[p] = "none" PROVE HasIntent(p)'
      OBVIOUS
    <3>1. PICK r \in Records : /\ r = Own(p, clock + 1) /\ r.mid = p /\ r.phase = "intent"
                               /\ (ClaimsExecution(r) => HasIntent(r.mid))
      BY <2>1, OwnFollowsIntent
    <3> QED BY <2>1, <3>1, AppendFollowsIntent
  <2>5. /\ Own(p, clock + 1) \in Records
        /\ ClaimsExecution(Own(p, clock + 1)) => HasIntent(Own(p, clock + 1).mid)
    BY <2>1, OwnFollowsIntent
  <2> QED BY <1>0, <2>1, <2>2, <2>3, <2>4, <2>5, IntentKept
<1>7. ASSUME NEW p \in Procs, AppendUncertain(p) PROVE IntentInv'
  <2>1. clock + 1 \in Nat /\ log' \in {log, Append(log, Own(p, clock + 1))}
    BY <1>7, <1>0 DEF AppendUncertain
  <2>2. spool' = spool /\ effect' = effect
    BY <1>7 DEF AppendUncertain
  <2>3. \A q \in Procs :
          /\ pc'[q] = "ready" => pc[q] = "ready"
          /\ pc'[q] \in {"spool", "temp"} =>
                \/ pc[q] \in {"spool", "temp"} /\ draft'[q] = draft[q]
                \/ draft'[q] = Skipped(p, clock')
    BY <1>7, <1>0 DEF AppendUncertain, ReportUncertain
  <2>4. ~ClaimsExecution(Skipped(p, clock'))
    BY DEF Skipped, Record, ClaimsExecution
  <2>5. /\ Own(p, clock + 1) \in Records
        /\ ClaimsExecution(Own(p, clock + 1)) => HasIntent(Own(p, clock + 1).mid)
    BY <2>1, OwnFollowsIntent
  <2>6. \A q \in Procs : pc'[q] \in {"spool", "temp"} /\ ClaimsExecution(draft'[q]) =>
           HasIntent(draft'[q].mid)
    BY <1>0, <2>3, <2>4
  <2> QED BY <1>0, <2>1, <2>2, <2>3, <2>5, <2>6, IntentKept
<1>8. ASSUME NEW p \in Procs, AppendNotCommitted(p) \/ StampFallback(p) PROVE IntentInv'
  <2>1. log' = log /\ spool' = spool /\ effect' = effect
    BY <1>8 DEF AppendNotCommitted, StampFallback
  <2>2. clock' \in Nat
    BY <1>0 DEF TypeInv, TypeOK
  <2>3. \A q \in Procs :
          /\ pc'[q] = "ready" => pc[q] = "ready"
          /\ pc'[q] \in {"spool", "temp"} =>
                \/ pc[q] \in {"spool", "temp"} /\ draft'[q] = draft[q]
                \/ draft'[q] = Own(p, clock')
                \/ draft'[q] = Outcome(p, clock', TRUE) /\ effect[p] # "none"
    BY <1>8, <1>0 DEF AppendNotCommitted, StampFallback, RefuseIntent, TypeInv
  <2>4. /\ ClaimsExecution(Own(p, clock')) => HasIntent(Own(p, clock').mid)
        /\ Outcome(p, clock', TRUE).mid = p
    BY <2>2, OwnFollowsIntent DEF Outcome, Record
  <2>5. \A q \in Procs : pc'[q] \in {"spool", "temp"} /\ ClaimsExecution(draft'[q]) =>
           HasIntent(draft'[q].mid)
    BY <1>0, <2>3, <2>4
  <2> QED BY <1>0, <2>1, <2>3, <2>5, IntentKept
<1>9. ASSUME NEW p \in Procs, WriteTemp(p) \/ SpoolFails(p) \/ CommitSpool(p) PROVE IntentInv'
  <2>1. log' = log /\ draft' = draft /\ Moves
    BY <1>9, <1>0 DEF WriteTemp, SpoolFails, CommitSpool, LeaveSpool
  <2>2. \A e \in spool' : (\E f \in spool : e.rec = f.rec)
                          \/ (pc[p] = "spool" /\ e.rec = draft[p])
    <3>1. CASE WriteTemp(p)
      BY <3>1 DEF WriteTemp
    <3>2. CASE SpoolFails(p)
      BY <3>2 DEF SpoolFails, TempOf
    <3>3. CASE CommitSpool(p)
      <4>1. spool' = (spool \ TempOf(p)) \cup {[e EXCEPT !.state = "pending"] : e \in TempOf(p)}
        BY <3>3 DEF CommitSpool
      <4>2. \A e \in TempOf(p) : e \in spool /\ [e EXCEPT !.state = "pending"].rec = e.rec
        BY <1>0 DEF TempOf, TypeInv, TypeOK, Entries
      <4> QED BY <4>1, <4>2
    <3> QED BY <1>9, <3>1, <3>2, <3>3
  <2> QED BY <1>0, <2>1, <2>2, IntentKept
<1> QED
  BY <1>2, <1>3, <1>4, <1>5, <1>6, <1>7, <1>8, <1>9 DEF Next, Step, Failure, AllExited

\* A mutation executes only with its intent in the log, and no outcome that claims an
\* execution precedes its intent, for every set of invocations and number of failures.
THEOREM IntentPrecedesEffect == Spec => []IntentBeforeEffect
<1>1. Spec => []IntentInv
  BY IntentInit, IntentStep, PTL DEF Spec
<1>2. IntentInv => IntentBeforeEffect
  BY DEF IntentInv, IntentBeforeEffect, HasIntent, OutcomesFollowIntents, ClaimsExecution, Procs
<1> QED BY <1>1, <1>2, PTL

-----------------------------------------------------------------------------
(* The promise of finishMutationAudit proved: an outcome that was reported  *)
(* as written, or as durably queued, is never lost.                         *)

HoldsSpoolLock == {"replay", "remove", "removeStop", "mark", "temp"}

HasOutcome(p) ==
    \/ \E i \in DOMAIN log : IsOutcomeOf(log[i], p)
    \/ \E e \in spool : IsOutcomeOf(e.rec, p) /\ e.state # "temp"

\* Whoever changes the spool holds its lock.
LockInv == \A p \in Procs : pc[p] \in HoldsSpoolLock => spoolLock = p

\* What a process is about to spool is its own outcome.
DraftInv == \A p \in Procs : pc[p] \in {"spool", "temp"} => IsOutcomeOf(draft[p], p)

SeqUnique == \A e, f \in spool : e.seq = f.seq => e = f

\* An entry is removed only when its record is in the log.
RemovingInv ==
    \A p \in Procs : pc[p] \in {"remove", "removeStop"} =>
        \A e \in spool : NextInQueue(e) => Logged(e.rec)

\* Between writing and renaming, the temporary file is there.
TempInv ==
    \A p \in Procs : pc[p] = "temp" => \E e \in spool : e.rec = draft[p] /\ e.state = "temp"

ReportInv == \A p \in Mutators : report[p] \in {"ok", "incomplete"} => HasOutcome(p)

DeliveryInv ==
    /\ TypeInv
    /\ LockInv
    /\ DraftInv
    /\ SeqUnique
    /\ RemovingInv
    /\ TempInv
    /\ ReportInv

-----------------------------------------------------------------------------
\* A step appends at most one record and removes none.
LEMMA LogGrows ==
    ASSUME TypeInv, [Next]_vars
    PROVE  log' = log \/ \E r \in Records : log' = Append(log, r)
<1>0. \A e \in spool : e.rec \in Records
  BY DEF TypeInv, TypeOK, Entries
<1>1. \A p \in Procs : Own(p, clock + 1) \in Records
  BY OwnIsRecord DEF TypeInv, TypeOK
<1>2. CASE UNCHANGED vars
  BY <1>2 DEF vars
<1>3. ASSUME NEW p \in Procs, ReplayAppend(p)
      PROVE  log' = log \/ \E r \in Records : log' = Append(log, r)
  BY <1>3, <1>0 DEF ReplayAppend
<1>4. ASSUME NEW p \in Procs, AppendCommitted(p) \/ AppendUncertain(p)
      PROVE  log' = log \/ \E r \in Records : log' = Append(log, r)
  BY <1>4, <1>1 DEF AppendCommitted, AppendUncertain
<1>5. ASSUME NEW p \in Procs, Step(p) \/ Mutate(p) \/ Failure(p),
             ~ReplayAppend(p), ~AppendCommitted(p), ~AppendUncertain(p)
      PROVE  log' = log
  BY <1>5 DEF Step, Failure, AcquirePathLock, PathLockFails, OpenQueue, QueueFails,
     RemoveReplayed, MarkIndeterminate, CloseQueue, AppendNotCommitted, Mutate,
     StampFallback, WriteTemp, SpoolFails, CommitSpool, Crash, AbandonQueue, LeaveSpool
<1> QED BY <1>2, <1>3, <1>4, <1>5 DEF Next, AllExited, vars

\* So what is in the log stays there.
LEMMA LoggedStays ==
    ASSUME TypeInv, [Next]_vars
    PROVE  \A i \in DOMAIN log : i \in DOMAIN log' /\ log'[i] = log[i]
<1>1. log \in Seq(Records)
  BY DEF TypeInv, TypeOK
<1>2. CASE \E r \in Records : log' = Append(log, r)
  BY <1>1, <1>2, AppendKeeps
<1> QED BY <1>2, LogGrows

\* The spool lock excludes: who holds it, or has it, keeps it until its own step.
LEMMA LockStep ==
    ASSUME TypeInv, LockInv, [Next]_vars
    PROVE  LockInv'
<1> USE ConstantsAssumption
    DEF LockInv, HoldsSpoolLock, Goto, Return, GiveUpQueue, AbandonQueue, LeaveSpool, Released
<1>0. pc \in [Procs -> Control] /\ None \notin Procs
  BY DEF TypeInv, TypeOK
<1>1. CASE UNCHANGED vars
  BY <1>1 DEF vars
<1>2. ASSUME NEW p \in Procs,
             AcquirePathLock(p) \/ PathLockFails(p) \/ OpenQueue(p) \/ QueueFails(p)
               \/ CloseQueue(p) \/ Mutate(p) \/ Crash(p)
      PROVE  LockInv'
  BY <1>0, <1>2 DEF AcquirePathLock, PathLockFails, OpenQueue, QueueFails, CloseQueue,
                    Mutate, Crash
<1>3. ASSUME NEW p \in Procs, ReplayAppend(p) \/ RemoveReplayed(p) \/ MarkIndeterminate(p)
      PROVE  LockInv'
  BY <1>0, <1>3 DEF ReplayAppend, RemoveReplayed, MarkIndeterminate
<1>4. ASSUME NEW p \in Procs,
             AppendCommitted(p) \/ AppendUncertain(p) \/ AppendNotCommitted(p)
               \/ StampFallback(p)
      PROVE  LockInv'
  BY <1>0, <1>4 DEF AppendCommitted, AppendUncertain, AppendNotCommitted, StampFallback,
                    ReportUncertain, RefuseIntent
<1>5. ASSUME NEW p \in Procs, WriteTemp(p) \/ SpoolFails(p) \/ CommitSpool(p)
      PROVE  LockInv'
  BY <1>0, <1>5 DEF WriteTemp, SpoolFails, CommitSpool
<1> QED
  BY <1>1, <1>2, <1>3, <1>4, <1>5 DEF Next, Step, Failure, AllExited

LEMMA DraftStep ==
    ASSUME TypeInv, DraftInv, [Next]_vars
    PROVE  DraftInv'
<1> USE DEF DraftInv, IsOutcomeOf, Goto, Return, GiveUpQueue, AbandonQueue
<1>0. pc \in [Procs -> Control] /\ draft \in [Procs -> Records \cup {NoDraft}]
  BY DEF TypeInv, TypeOK
<1>1. CASE UNCHANGED vars
  BY <1>1 DEF vars
<1>2. ASSUME NEW p \in Procs, Step(p) \/ Mutate(p) \/ Failure(p),
             ~AppendUncertain(p), ~AppendNotCommitted(p), ~StampFallback(p)
      PROVE  DraftInv'
  <2>1. UNCHANGED draft
    BY <1>2 DEF Step, Failure, AcquirePathLock, PathLockFails, OpenQueue, QueueFails,
       ReplayAppend, RemoveReplayed, MarkIndeterminate, CloseQueue, AppendCommitted, Mutate,
       WriteTemp, SpoolFails, CommitSpool, Crash, LeaveSpool
  <2>2. \A q \in Procs : pc'[q] \in {"spool", "temp"} => pc[q] \in {"spool", "temp"}
    BY <1>0, <1>2 DEF Step, Failure, AcquirePathLock, PathLockFails, OpenQueue, QueueFails,
       ReplayAppend, RemoveReplayed, MarkIndeterminate, CloseQueue, AppendCommitted, Mutate,
       WriteTemp, SpoolFails, CommitSpool, Crash, LeaveSpool
  <2> QED BY <2>1, <2>2
<1>3. ASSUME NEW p \in Procs, AppendUncertain(p) PROVE DraftInv'
  BY <1>0, <1>3 DEF AppendUncertain, ReportUncertain, Skipped, Record
<1>4. ASSUME NEW p \in Procs, AppendNotCommitted(p) PROVE DraftInv'
  <2>1. p \in Mutators /\ Finishing(p) => IsOutcomeOf(Own(p, clock'), p)
    BY ConstantsAssumption DEF Own, Outcome, Record, Procs
  <2> QED BY <1>0, <1>4, <2>1 DEF AppendNotCommitted, RefuseIntent
<1>5. ASSUME NEW p \in Procs, StampFallback(p) PROVE DraftInv'
  BY <1>0, <1>5 DEF StampFallback, Outcome, Record
<1> QED BY <1>1, <1>2, <1>3, <1>4, <1>5 DEF Next, AllExited, vars

\* While a process has the spool lock, no other process touches the spool or its draft.
LEMMA OtherQuiet ==
    ASSUME TypeInv, LockInv, NEW p \in Procs, NEW q \in Procs, q # p,
           Step(p) \/ Mutate(p) \/ Failure(p)
    PROVE  /\ pc'[q] = pc[q]
           /\ draft'[q] = draft[q]
           /\ report'[q] = report[q]
           /\ pc[q] \in HoldsSpoolLock => spool' = spool
<1> USE DEF Goto, Return, GiveUpQueue, AbandonQueue
<1>0. /\ pc \in [Procs -> Control] /\ None \notin Procs
      /\ draft \in [Procs -> Records \cup {NoDraft}]
      /\ DOMAIN report = Procs
  BY ConstantsAssumption DEF TypeInv, TypeOK
<1>1. ASSUME AcquirePathLock(p) \/ PathLockFails(p) \/ OpenQueue(p) \/ QueueFails(p)
               \/ CloseQueue(p) \/ Mutate(p) \/ Crash(p) \/ ReplayAppend(p)
      PROVE  /\ pc'[q] = pc[q] /\ draft'[q] = draft[q] /\ report'[q] = report[q]
             /\ spool' = spool
  BY <1>0, <1>1 DEF AcquirePathLock, PathLockFails, OpenQueue, QueueFails, CloseQueue,
                    Mutate, Crash, ReplayAppend
<1>2. ASSUME AppendCommitted(p) \/ AppendUncertain(p) \/ AppendNotCommitted(p)
               \/ StampFallback(p)
      PROVE  /\ pc'[q] = pc[q] /\ draft'[q] = draft[q] /\ report'[q] = report[q]
             /\ spool' = spool
  BY <1>0, <1>2 DEF AppendCommitted, AppendUncertain, AppendNotCommitted, StampFallback,
                    ReportUncertain, RefuseIntent
<1>3. ASSUME RemoveReplayed(p) \/ MarkIndeterminate(p)
      PROVE  /\ pc'[q] = pc[q] /\ draft'[q] = draft[q] /\ report'[q] = report[q]
             /\ pc[p] \in HoldsSpoolLock
  BY <1>0, <1>3 DEF RemoveReplayed, MarkIndeterminate, HoldsSpoolLock
<1>4. ASSUME WriteTemp(p) \/ SpoolFails(p) \/ CommitSpool(p)
      PROVE  /\ pc'[q] = pc[q] /\ draft'[q] = draft[q] /\ report'[q] = report[q]
             /\ pc[p] \in HoldsSpoolLock \/ spoolLock = None \/ spool' = spool
  BY <1>0, <1>4 DEF WriteTemp, SpoolFails, CommitSpool, LeaveSpool, HoldsSpoolLock
<1>5. pc[q] \in HoldsSpoolLock => ~(pc[p] \in HoldsSpoolLock) /\ spoolLock # None
  BY <1>0 DEF LockInv
<1> QED BY <1>1, <1>2, <1>3, <1>4, <1>5 DEF Step, Failure

\* The steps that change the spool.
LEMMA SpoolChanges ==
    ASSUME NEW p \in Procs, Step(p) \/ Mutate(p) \/ Failure(p), spool' # spool
    PROVE  RemoveReplayed(p) \/ MarkIndeterminate(p) \/ WriteTemp(p) \/ SpoolFails(p)
             \/ CommitSpool(p)
BY DEF Step, Failure, AcquirePathLock, PathLockFails, OpenQueue, QueueFails, CloseQueue,
   Mutate, Crash, ReplayAppend, AppendCommitted, AppendUncertain, AppendNotCommitted,
   StampFallback, AbandonQueue

LEMMA SeqUniqueStep ==
    ASSUME TypeInv, SeqUnique, NEW p \in Procs, Step(p) \/ Mutate(p) \/ Failure(p)
    PROVE  SeqUnique'
<1>0. spool \subseteq Entries
  BY DEF TypeInv, TypeOK
<1>1. ASSUME RemoveReplayed(p) \/ SpoolFails(p) PROVE SeqUnique'
  BY <1>1 DEF RemoveReplayed, SpoolFails, SeqUnique
<1>2. ASSUME MarkIndeterminate(p) PROVE SeqUnique'
  <2>1. PICK e \in spool :
          spool' \in {spool, (spool \ {e}) \cup {[e EXCEPT !.state = "indeterminate"]}}
    BY <1>2 DEF MarkIndeterminate
  <2>2. [e EXCEPT !.state = "indeterminate"].seq = e.seq
    BY <1>0 DEF Entries
  <2> QED BY <2>1, <2>2 DEF SeqUnique
<1>3. ASSUME WriteTemp(p) PROVE SeqUnique'
  <2>1. CASE SequenceAvailable
    <3>1. PICK now \in 0..MaxSeq :
            spool' = spool \cup
              {[seq |-> NextSequence(now), rec |-> draft[p], state |-> "temp"]}
      BY <1>3, <2>1 DEF WriteTemp
    <3>2. \A e \in spool : e.seq \in Nat /\ e.seq < NextSequence(now)
      BY <1>0, <2>1, NextSequenceInRange DEF Entries
    <3>3. \A e \in spool : e.seq # NextSequence(now)
      BY <3>2
    <3> QED BY <3>1, <3>3 DEF SeqUnique
  <2>2. CASE ~SequenceAvailable
    BY <1>3, <2>2 DEF WriteTemp, SeqUnique
  <2> QED BY <2>1, <2>2
<1>4. ASSUME CommitSpool(p) PROVE SeqUnique'
  <2>1. spool' = (spool \ TempOf(p)) \cup {[e EXCEPT !.state = "pending"] : e \in TempOf(p)}
    BY <1>4 DEF CommitSpool
  <2>2. \A e \in TempOf(p) : e \in spool /\ [e EXCEPT !.state = "pending"].seq = e.seq
    BY <1>0 DEF TempOf, Entries
  <2>3. \A e, f \in TempOf(p) : e.seq = f.seq => e = f
    BY <2>2 DEF SeqUnique
  <2>4. \A e \in spool \ TempOf(p), f \in TempOf(p) : e.seq # f.seq
    BY <2>2 DEF SeqUnique
  <2>5. SUFFICES ASSUME NEW e \in spool', NEW f \in spool', e.seq = f.seq PROVE e = f
    BY DEF SeqUnique
  <2>6. CASE e \in spool \ TempOf(p) /\ f \in spool \ TempOf(p)
    BY <2>5, <2>6 DEF SeqUnique
  <2>7. CASE e \in spool \ TempOf(p) <=> f \notin spool \ TempOf(p)
    BY <2>1, <2>2, <2>4, <2>5, <2>7
  <2>8. CASE e \notin spool \ TempOf(p) /\ f \notin spool \ TempOf(p)
    <3>1. PICK a \in TempOf(p) : e = [a EXCEPT !.state = "pending"]
      BY <2>1, <2>5, <2>8
    <3>2. PICK b \in TempOf(p) : f = [b EXCEPT !.state = "pending"]
      BY <2>1, <2>5, <2>8
    <3>3. a.seq = b.seq
      BY <2>2, <2>5, <3>1, <3>2
    <3> QED BY <2>3, <3>1, <3>2, <3>3
  <2> QED BY <2>6, <2>7, <2>8
<1>5. CASE spool' = spool
  BY <1>5 DEF SeqUnique
<1> QED BY <1>1, <1>2, <1>3, <1>4, <1>5, SpoolChanges

\* An outcome in the log or in the spool stays in one of them.
LEMMA OutcomeStays ==
    ASSUME DeliveryInv, NEW p \in Procs, Step(p) \/ Mutate(p) \/ Failure(p),
           NEW m, HasOutcome(m)
    PROVE  HasOutcome(m)'
<1>0. [Next]_vars /\ spool \subseteq Entries /\ TypeInv
  BY DEF Next, DeliveryInv, TypeInv, TypeOK
<1>1. \A i \in DOMAIN log : i \in DOMAIN log' /\ log'[i] = log[i]
  BY <1>0, LoggedStays
<1>2. CASE \E i \in DOMAIN log : IsOutcomeOf(log[i], m)
  BY <1>1, <1>2 DEF HasOutcome, IsOutcomeOf
<1>3. ASSUME NEW e \in spool, IsOutcomeOf(e.rec, m), e.state # "temp"
      PROVE  HasOutcome(m)'
  <2>1. CASE e \in spool'
    BY <1>3, <2>1 DEF HasOutcome, IsOutcomeOf
  <2>2. CASE RemoveReplayed(p)
    <3>1. PICK f \in spool : NextInQueue(f) /\ spool' \in {spool, spool \ {f}}
      BY <2>2 DEF RemoveReplayed
    <3>2. Logged(f.rec)
      BY <2>2, <3>1 DEF RemoveReplayed, DeliveryInv, RemovingInv
    <3>3. CASE e = f
      BY <1>1, <1>3, <3>2, <3>3 DEF HasOutcome, Logged, IsOutcomeOf
    <3> QED BY <2>1, <3>1, <3>3
  <2>3. CASE MarkIndeterminate(p)
    <3>1. PICK f \in spool :
            spool' \in {spool, (spool \ {f}) \cup {[f EXCEPT !.state = "indeterminate"]}}
      BY <2>3 DEF MarkIndeterminate
    <3>2. /\ [f EXCEPT !.state = "indeterminate"].rec = f.rec
          /\ [f EXCEPT !.state = "indeterminate"].state = "indeterminate"
      BY <1>0 DEF Entries
    <3>3. e \in spool' \/ \E g \in spool' : g.rec = e.rec /\ g.state = "indeterminate"
      BY <3>1, <3>2
    <3> QED BY <1>3, <2>1, <3>3 DEF HasOutcome, IsOutcomeOf
  <2>4. CASE WriteTemp(p)
    BY <2>1, <2>4 DEF WriteTemp
  <2>5. CASE SpoolFails(p) \/ CommitSpool(p)
    BY <1>3, <2>1, <2>5 DEF SpoolFails, CommitSpool, TempOf
  <2> QED BY <2>1, <2>2, <2>3, <2>4, <2>5, SpoolChanges
<1> QED BY <1>2, <1>3 DEF HasOutcome

LEMMA RemovingStep ==
    ASSUME DeliveryInv, NEW p \in Procs, Step(p) \/ Mutate(p) \/ Failure(p)
    PROVE  RemovingInv'
<1>0. /\ [Next]_vars /\ spool \subseteq Entries /\ TypeInv /\ LockInv /\ SeqUnique
      /\ log \in Seq(Records) /\ pc \in [Procs -> Control]
  BY DEF Next, DeliveryInv, TypeInv, TypeOK
<1>1. \A i \in DOMAIN log : i \in DOMAIN log' /\ log'[i] = log[i]
  BY <1>0, LoggedStays
<1>2. ASSUME NEW q \in Procs, q # p, pc'[q] \in {"remove", "removeStop"},
             NEW e \in spool', NextInQueue(e)'
      PROVE  Logged(e.rec)'
  <2>1. pc[q] = pc'[q] /\ spool' = spool
    BY <1>0, <1>2, OtherQuiet DEF HoldsSpoolLock
  <2>2. NextInQueue(e)
    BY <1>2, <2>1 DEF NextInQueue
  <2>3. Logged(e.rec)
    BY <1>2, <2>1, <2>2 DEF DeliveryInv, RemovingInv
  <2> QED BY <1>1, <2>3 DEF Logged
<1>3. ASSUME pc'[p] \in {"remove", "removeStop"}, NEW e \in spool', NextInQueue(e)'
      PROVE  Logged(e.rec)'
  <2>1. ReplayAppend(p)
    BY <1>0, <1>3 DEF Step, Failure, AcquirePathLock, PathLockFails, OpenQueue, QueueFails,
       RemoveReplayed, MarkIndeterminate, CloseQueue, AppendCommitted, AppendUncertain,
       AppendNotCommitted, Mutate, StampFallback, WriteTemp, SpoolFails, CommitSpool, Crash,
       AbandonQueue, GiveUpQueue, LeaveSpool, Return, Goto, ReportUncertain, RefuseIntent
  <2>2. PICK f \in spool : NextInQueue(f) /\ log' = Append(log, f.rec)
    BY <1>0, <1>3, <2>1 DEF ReplayAppend, Goto, AbandonQueue, GiveUpQueue, Return
  <2>3. spool' = spool
    BY <2>1 DEF ReplayAppend
  <2>4. e \in spool /\ e.seq <= f.seq /\ f.seq <= e.seq /\ e.seq \in Nat /\ f.seq \in Nat
    BY <1>0, <1>3, <2>2, <2>3 DEF NextInQueue, Entries
  <2>5. e = f
    BY <1>0, <2>4 DEF SeqUnique
  <2>6. f.rec \in Records
    BY <1>0 DEF Entries
  <2>7. Len(log) + 1 \in DOMAIN log' /\ log'[Len(log) + 1] = f.rec
    BY <1>0, <2>2, <2>6, AppendKeeps
  <2> QED BY <2>5, <2>7 DEF Logged
<1>4. SUFFICES ASSUME NEW q \in Procs, pc'[q] \in {"remove", "removeStop"},
                      NEW e \in spool', NextInQueue(e)'
               PROVE  Logged(e.rec)'
  BY DEF RemovingInv
<1> QED BY <1>2, <1>3, <1>4

LEMMA TempStep ==
    ASSUME DeliveryInv, NEW p \in Procs, Step(p) \/ Mutate(p) \/ Failure(p)
    PROVE  TempInv'
<1>0. TypeInv /\ LockInv /\ pc \in [Procs -> Control]
  BY DEF DeliveryInv, TypeInv, TypeOK
<1>1. ASSUME NEW q \in Procs, q # p, pc'[q] = "temp"
      PROVE  \E e \in spool' : e.rec = draft'[q] /\ e.state = "temp"
  BY <1>0, <1>1, OtherQuiet DEF HoldsSpoolLock, DeliveryInv, TempInv
<1>2. ASSUME pc'[p] = "temp"
      PROVE  \E e \in spool' : e.rec = draft'[p] /\ e.state = "temp"
  <2>1. WriteTemp(p) /\ SequenceAvailable
    BY <1>0, <1>2 DEF Step, Failure, AcquirePathLock, PathLockFails, OpenQueue, QueueFails,
       ReplayAppend, RemoveReplayed, MarkIndeterminate, CloseQueue, AppendCommitted,
       AppendUncertain, AppendNotCommitted, Mutate, StampFallback, WriteTemp, SpoolFails,
       CommitSpool, Crash, AbandonQueue, GiveUpQueue, LeaveSpool, Return, Goto,
       ReportUncertain, RefuseIntent
  <2>2. PICK now \in 0..MaxSeq :
          [seq |-> NextSequence(now), rec |-> draft[p], state |-> "temp"] \in spool'
    BY <2>1 DEF WriteTemp
  <2>3. draft' = draft
    BY <2>1 DEF WriteTemp
  <2> QED BY <2>2, <2>3
<1> QED BY <1>1, <1>2 DEF TempInv

LEMMA ReportStep ==
    ASSUME DeliveryInv, NEW p \in Procs, Step(p) \/ Mutate(p) \/ Failure(p)
    PROVE  ReportInv'
<1>0. /\ TypeInv /\ LockInv /\ pc \in [Procs -> Control] /\ spool \subseteq Entries
      /\ log \in Seq(Records) /\ clock \in Nat /\ DOMAIN report = Procs
  BY DEF DeliveryInv, TypeInv, TypeOK
<1>1. ASSUME NEW q \in Mutators, report'[q] = report[q], report'[q] \in {"ok", "incomplete"}
      PROVE  HasOutcome(q)'
  BY <1>1, OutcomeStays DEF DeliveryInv, ReportInv
<1>2. ASSUME p \in Mutators, report'[p] # report[p], report'[p] = "ok"
      PROVE  HasOutcome(p)'
  <2>1. AppendCommitted(p) /\ (p \in Readers \/ Finishing(p))
    BY <1>0, <1>2 DEF Step, Failure, AcquirePathLock, PathLockFails, OpenQueue, QueueFails,
       ReplayAppend, RemoveReplayed, MarkIndeterminate, CloseQueue, AppendCommitted,
       AppendUncertain, AppendNotCommitted, Mutate, StampFallback, WriteTemp, SpoolFails,
       CommitSpool, Crash, AbandonQueue, GiveUpQueue, LeaveSpool, Return, Goto,
       ReportUncertain, RefuseIntent
  <2>2. IsOutcomeOf(Own(p, clock + 1), p)
    BY <1>2, <2>1, ConstantsAssumption DEF Own, Outcome, Record, IsOutcomeOf
  <2>3. log' = Append(log, Own(p, clock + 1)) /\ Own(p, clock + 1) \in Records
    BY <1>0, <2>1, OwnIsRecord DEF AppendCommitted
  <2>4. Len(log) + 1 \in DOMAIN log' /\ log'[Len(log) + 1] = Own(p, clock + 1)
    BY <1>0, <2>3, AppendKeeps
  <2> QED BY <2>2, <2>4 DEF HasOutcome, IsOutcomeOf
<1>3. ASSUME report'[p] # report[p], report'[p] = "incomplete"
      PROVE  HasOutcome(p)'
  <2>1. CommitSpool(p)
    BY <1>0, <1>3 DEF Step, Failure, AcquirePathLock, PathLockFails, OpenQueue, QueueFails,
       ReplayAppend, RemoveReplayed, MarkIndeterminate, CloseQueue, AppendCommitted,
       AppendUncertain, AppendNotCommitted, Mutate, StampFallback, WriteTemp, SpoolFails,
       CommitSpool, Crash, AbandonQueue, GiveUpQueue, LeaveSpool, Return, Goto,
       ReportUncertain, RefuseIntent
  <2>2. PICK e \in TempOf(p) : e \in spool /\ e.rec = draft[p]
    BY <2>1 DEF DeliveryInv, TempInv, CommitSpool, TempOf
  <2>3. [e EXCEPT !.state = "pending"] \in spool'
    BY <2>1, <2>2 DEF CommitSpool
  <2>4. /\ [e EXCEPT !.state = "pending"].rec = draft[p]
        /\ [e EXCEPT !.state = "pending"].state = "pending"
    BY <1>0, <2>2 DEF Entries
  <2>5. IsOutcomeOf(draft[p], p)
    BY <2>1 DEF DeliveryInv, DraftInv, CommitSpool
  <2> QED BY <2>3, <2>4, <2>5 DEF HasOutcome, IsOutcomeOf
<1>4. SUFFICES ASSUME NEW q \in Mutators, report'[q] \in {"ok", "incomplete"}
               PROVE  HasOutcome(q)'
  BY DEF ReportInv
<1>5. q # p => report'[q] = report[q]
  BY <1>0, OtherQuiet DEF Procs
<1> QED BY <1>1, <1>2, <1>3, <1>4, <1>5

LEMMA DeliveryInit == Init => DeliveryInv
<1> SUFFICES ASSUME Init PROVE DeliveryInv
  OBVIOUS
<1> QED BY TypeInit DEF Init, DeliveryInv, LockInv, HoldsSpoolLock, DraftInv, SeqUnique,
           RemovingInv, TempInv, ReportInv, Procs

LEMMA DeliveryStep == DeliveryInv /\ [Next]_vars => DeliveryInv'
<1> SUFFICES ASSUME DeliveryInv, [Next]_vars PROVE DeliveryInv'
  OBVIOUS
<1>1. TypeInv' /\ LockInv' /\ DraftInv'
  BY TypeStep, LockStep, DraftStep DEF DeliveryInv
<1>2. ASSUME NEW p \in Procs, Step(p) \/ Mutate(p) \/ Failure(p)
      PROVE  SeqUnique' /\ RemovingInv' /\ TempInv' /\ ReportInv'
  BY <1>2, SeqUniqueStep, RemovingStep, TempStep, ReportStep DEF DeliveryInv
<1>3. CASE UNCHANGED vars
  BY <1>1, <1>3 DEF vars, DeliveryInv, SeqUnique, RemovingInv, TempInv, ReportInv, HasOutcome,
     NextInQueue, Logged, IsOutcomeOf
<1> QED BY <1>1, <1>2, <1>3 DEF Next, AllExited, DeliveryInv

\* What finishMutationAudit reported as written or durably queued is in the log or in
\* the spool from then on, for every set of invocations and every number of failures.
THEOREM ReportedOutcomesKept == Spec => []OutcomeNotLost
<1>1. Spec => []DeliveryInv
  BY DeliveryInit, DeliveryStep, PTL DEF Spec
<1>2. DeliveryInv => OutcomeNotLost
  BY DEF DeliveryInv, ReportInv, HasOutcome, OutcomeNotLost
<1> QED BY <1>1, <1>2, PTL

-----------------------------------------------------------------------------
(* MutationAudit implements AuditEvidence: every step of the locks, the     *)
(* spool, the failures and the crashes is a step of the abstract promise or *)
(* changes nothing that it talks about.                                     *)

\* Only mutations are performed, fall back or spool, and each is performed once.
RoleInv ==
    \A p \in Procs :
        /\ effect[p] # "none" \/ pc[p] \in {"ready", "unrecorded", "spool", "temp"} => p \in Mutators
        /\ pc[p] = "ready" => effect[p] = "none"

Verdict(p) == IF effect[p] = "none" THEN "skipped" ELSE effect[p]

\* What is about to be spooled says what happened.
VerdictInv == \A p \in Procs : pc[p] \in {"spool", "temp"} => draft[p].status = Verdict(p)

Replaying == {"replay", "remove", "removeStop", "mark"}

\* Replay opened a queue of replayable entries, and nobody else adds to it.
QueueClean ==
    \A p \in Procs : pc[p] \in Replaying => \A e \in spool : e.state = "pending"

\* Nobody answered for a mutation whose invocation is still under way.
FreshInv == \A p \in Procs : ~Exited(p) => ~HasOutcome(p)

EvidenceInv ==
    /\ IntentInv
    /\ DeliveryInv
    /\ RoleInv
    /\ VerdictInv
    /\ QueueClean
    /\ FreshInv

-----------------------------------------------------------------------------
LEMMA RoleStep ==
    ASSUME TypeInv, RoleInv, NEW p \in Procs, Step(p) \/ Mutate(p) \/ Failure(p)
    PROVE  RoleInv'
<1> USE DEF RoleInv, Goto, Return, GiveUpQueue, AbandonQueue, Finishing
<1>0. /\ pc \in [Procs -> Control] /\ effect \in [Procs -> {"none", "succeeded", "failed"}]
      /\ Procs = Mutators \cup Readers /\ Mutators \cap Readers = {}
  BY ConstantsAssumption DEF TypeInv, TypeOK, Procs
<1>1. CASE AcquirePathLock(p) \/ PathLockFails(p) \/ OpenQueue(p) \/ QueueFails(p)
             \/ CloseQueue(p) \/ Crash(p)
  BY <1>0, <1>1 DEF AcquirePathLock, PathLockFails, OpenQueue, QueueFails, CloseQueue, Crash
<1>2. CASE ReplayAppend(p) \/ RemoveReplayed(p) \/ MarkIndeterminate(p)
  BY <1>0, <1>2 DEF ReplayAppend, RemoveReplayed, MarkIndeterminate
<1>3. CASE AppendCommitted(p) \/ AppendUncertain(p)
  BY <1>0, <1>3 DEF AppendCommitted, AppendUncertain, ReportUncertain
<1>4. CASE AppendNotCommitted(p) \/ StampFallback(p) \/ Mutate(p)
  BY <1>0, <1>4 DEF AppendNotCommitted, StampFallback, Mutate, RefuseIntent
<1>5. CASE WriteTemp(p) \/ SpoolFails(p) \/ CommitSpool(p)
  BY <1>0, <1>5 DEF WriteTemp, SpoolFails, CommitSpool, LeaveSpool
<1> QED BY <1>1, <1>2, <1>3, <1>4, <1>5 DEF Step, Failure

LEMMA VerdictStep ==
    ASSUME TypeInv, RoleInv, VerdictInv, NEW p \in Procs, Step(p) \/ Mutate(p) \/ Failure(p)
    PROVE  VerdictInv'
<1> USE DEF VerdictInv, Verdict, Goto, Return, GiveUpQueue, AbandonQueue, Finishing
<1>0. /\ pc \in [Procs -> Control] /\ effect \in [Procs -> {"none", "succeeded", "failed"}]
      /\ draft \in [Procs -> Records \cup {NoDraft}]
  BY DEF TypeInv, TypeOK
<1>1. CASE AppendUncertain(p)
  BY <1>0, <1>1 DEF AppendUncertain, ReportUncertain, Skipped, Record
<1>2. CASE AppendNotCommitted(p)
  <2>1. p \in Mutators /\ Finishing(p) => Own(p, clock').status = effect[p]
    BY ConstantsAssumption DEF Own, Outcome, Record, Procs
  <2> QED BY <1>0, <1>2, <2>1 DEF AppendNotCommitted, RefuseIntent
<1>3. CASE StampFallback(p)
  BY <1>0, <1>3 DEF StampFallback, Outcome, Record, TypeInv
<1>4. CASE Mutate(p)
  BY <1>0, <1>4 DEF Mutate
<1>5. ASSUME ~AppendUncertain(p), ~AppendNotCommitted(p), ~StampFallback(p), ~Mutate(p)
      PROVE  VerdictInv'
  <2>1. UNCHANGED <<draft, effect>>
    BY <1>5 DEF Step, Failure, AcquirePathLock, PathLockFails, OpenQueue, QueueFails,
       ReplayAppend, RemoveReplayed, MarkIndeterminate, CloseQueue, AppendCommitted,
       WriteTemp, SpoolFails, CommitSpool, Crash, LeaveSpool
  <2>2. \A q \in Procs : pc'[q] \in {"spool", "temp"} => pc[q] \in {"spool", "temp"}
    BY <1>0, <1>5 DEF Step, Failure, AcquirePathLock, PathLockFails, OpenQueue, QueueFails,
       ReplayAppend, RemoveReplayed, MarkIndeterminate, CloseQueue, AppendCommitted,
       WriteTemp, SpoolFails, CommitSpool, Crash, LeaveSpool
  <2> QED BY <2>1, <2>2
<1> QED BY <1>1, <1>2, <1>3, <1>4, <1>5

LEMMA QueueCleanStep ==
    ASSUME TypeInv, LockInv, QueueClean, NEW p \in Procs, Step(p) \/ Mutate(p) \/ Failure(p)
    PROVE  QueueClean'
<1> USE DEF Replaying
<1>0. pc \in [Procs -> Control]
  BY DEF TypeInv, TypeOK
<1>1. ASSUME NEW q \in Procs, q # p, pc'[q] \in Replaying
      PROVE  \A e \in spool' : e.state = "pending"
  BY <1>1, OtherQuiet DEF HoldsSpoolLock, QueueClean
<1>2. ASSUME pc'[p] \in Replaying
      PROVE  \A e \in spool' : e.state = "pending"
  <2>1. OpenQueue(p) \/ ReplayAppend(p) \/ RemoveReplayed(p)
    BY <1>0, <1>2 DEF Step, Failure, AcquirePathLock, PathLockFails, QueueFails,
       MarkIndeterminate, CloseQueue, AppendCommitted, AppendUncertain,
       AppendNotCommitted, Mutate, StampFallback, WriteTemp, SpoolFails, CommitSpool, Crash,
       AbandonQueue, GiveUpQueue, LeaveSpool, Return, Goto, ReportUncertain, RefuseIntent
  <2>2. CASE OpenQueue(p)
    BY <1>0, <1>2, <2>2 DEF OpenQueue, Unreplayable, AbandonQueue, GiveUpQueue, Return, Goto
  <2>3. CASE ReplayAppend(p) \/ RemoveReplayed(p)
    BY <2>3 DEF ReplayAppend, RemoveReplayed, QueueClean
  <2> QED BY <2>1, <2>2, <2>3
<1> QED BY <1>1, <1>2 DEF QueueClean

-----------------------------------------------------------------------------
(* Who answers for whom. *)

LogSet == {log[i] : i \in DOMAIN log}
Kept == {e.rec : e \in {f \in spool : f.state # "temp"}}

LEMMA LogSetGrows ==
    ASSUME TypeInv, NEW r \in Records, log' = Append(log, r)
    PROVE  LogSet' = LogSet \cup {r}
<1>1. log \in Seq(Records)
  BY DEF TypeInv, TypeOK
<1>2. /\ Len(log) \in Nat /\ DOMAIN log = 1..Len(log)
      /\ DOMAIN log' = 1..(Len(log) + 1)
      /\ \A i \in DOMAIN log : log'[i] = log[i]
      /\ log'[Len(log) + 1] = r
  BY <1>1, AppendKeeps
<1>3. DOMAIN log' = DOMAIN log \cup {Len(log) + 1}
  BY <1>2
<1> QED BY <1>2, <1>3 DEF LogSet

LEMMA HasOutcomeSets ==
    \A m : HasOutcome(m) <=> \E r \in LogSet \cup Kept : IsOutcomeOf(r, m)
BY DEF HasOutcome, LogSet, Kept

\* What an append in a process's own name, a commit of its temporary file and every
\* other step do to the records that are kept.
LEMMA OwnAppend ==
    ASSUME EvidenceInv, NEW p \in Procs, AppendCommitted(p) \/ AppendUncertain(p)
    PROVE  /\ Own(p, clock + 1) \in Records
           /\ LogSet' \in {LogSet, LogSet \cup {Own(p, clock + 1)}}
           /\ AppendCommitted(p) => LogSet' = LogSet \cup {Own(p, clock + 1)}
           /\ Kept' = Kept
<1>1. Own(p, clock + 1) \in Records /\ TypeInv
  BY OwnIsRecord DEF EvidenceInv, DeliveryInv, TypeInv, TypeOK
<1>2. log' = log \/ log' = Append(log, Own(p, clock + 1))
  BY DEF AppendCommitted, AppendUncertain
<1>3. AppendCommitted(p) => log' = Append(log, Own(p, clock + 1))
  BY DEF AppendCommitted
<1>4. spool' = spool
  BY DEF AppendCommitted, AppendUncertain
<1>5. log' = log => LogSet' = LogSet
  BY DEF LogSet
<1>6. Kept' = Kept
  BY <1>4 DEF Kept
<1> QED BY <1>1, <1>2, <1>3, <1>5, <1>6, LogSetGrows

LEMMA CommitKept ==
    ASSUME EvidenceInv, NEW p \in Procs, CommitSpool(p)
    PROVE  Kept' = Kept \cup {draft[p]} /\ LogSet' = LogSet
<1>1. spool \subseteq Entries
  BY DEF EvidenceInv, DeliveryInv, TypeInv, TypeOK
<1>2. spool' = (spool \ TempOf(p)) \cup {[e EXCEPT !.state = "pending"] : e \in TempOf(p)}
  BY DEF CommitSpool
<1>3. \A e \in TempOf(p) :
         /\ e \in spool /\ e.state = "temp" /\ e.rec = draft[p]
         /\ [e EXCEPT !.state = "pending"].rec = draft[p]
         /\ [e EXCEPT !.state = "pending"].state = "pending"
  BY <1>1 DEF TempOf, Entries
<1>4. \E e \in TempOf(p) : TRUE
  BY DEF EvidenceInv, DeliveryInv, TempInv, CommitSpool, TempOf
<1>5. draft[p] \in Kept'
  BY <1>2, <1>3, <1>4 DEF Kept
<1>6. Kept \subseteq Kept'
  <2> SUFFICES ASSUME NEW e \in spool, e.state # "temp" PROVE e.rec \in Kept'
    BY DEF Kept
  <2>1. e \in spool'
    BY <1>2, <1>3
  <2> QED BY <2>1 DEF Kept
<1>7. Kept' \subseteq Kept \cup {draft[p]}
  BY <1>2, <1>3 DEF Kept
<1>8. log' = log
  BY DEF CommitSpool, LeaveSpool
<1> QED BY <1>5, <1>6, <1>7, <1>8 DEF LogSet

LEMMA ReplayKept ==
    ASSUME EvidenceInv, NEW p \in Procs, ReplayAppend(p)
    PROVE  /\ Kept' = Kept
           /\ LogSet' = LogSet \/ \E r \in Kept : LogSet' = LogSet \cup {r}
<1>1. TypeInv /\ \A e \in spool : e.rec \in Records /\ e.state = "pending"
  BY DEF EvidenceInv, DeliveryInv, TypeInv, TypeOK, Entries, QueueClean, Replaying, ReplayAppend
<1>2. PICK e \in spool : log' \in {log, Append(log, e.rec)}
  BY DEF ReplayAppend
<1>3. e.rec \in Kept
  BY <1>1 DEF Kept
<1>4. spool' = spool
  BY DEF ReplayAppend
<1>5. log' = log => LogSet' = LogSet
  BY DEF LogSet
<1>6. Kept' = Kept
  BY <1>4 DEF Kept
<1> QED BY <1>1, <1>2, <1>3, <1>5, <1>6, LogSetGrows

LEMMA RemoveKept ==
    ASSUME EvidenceInv, NEW p \in Procs, RemoveReplayed(p)
    PROVE  /\ LogSet' = LogSet
           /\ Kept' = Kept \/ \E r \in LogSet \cap Kept : Kept' = Kept \ {r}
<1>1. PICK e \in spool : NextInQueue(e) /\ spool' \in {spool, spool \ {e}}
  BY DEF RemoveReplayed
<1>2. e.rec \in LogSet /\ e.state = "pending"
  BY <1>1 DEF EvidenceInv, DeliveryInv, RemovingInv, RemoveReplayed, Logged, LogSet,
              QueueClean, Replaying
<1>3. log' = log
  BY DEF RemoveReplayed
<1>4. CASE \E f \in spool \ {e} : f.rec = e.rec /\ f.state # "temp"
  BY <1>1, <1>3, <1>4 DEF Kept, LogSet
<1>5. CASE ~\E f \in spool \ {e} : f.rec = e.rec /\ f.state # "temp"
  <2>1. e.rec \in Kept
    BY <1>2 DEF Kept
  <2>2. spool' = spool \ {e} => Kept' = Kept \ {e.rec}
    BY <1>5 DEF Kept
  <2>3. spool' = spool => Kept' = Kept
    BY DEF Kept
  <2> QED BY <1>1, <1>2, <1>3, <2>1, <2>2, <2>3 DEF LogSet
<1> QED BY <1>4, <1>5

LEMMA OthersKept ==
    ASSUME EvidenceInv, NEW p \in Procs, Step(p) \/ Mutate(p) \/ Failure(p),
           ~AppendCommitted(p), ~AppendUncertain(p), ~CommitSpool(p), ~ReplayAppend(p),
           ~RemoveReplayed(p)
    PROVE  LogSet' = LogSet /\ Kept' = Kept
<1>1. log' = log
  BY DEF Step, Failure, AcquirePathLock, PathLockFails, OpenQueue, QueueFails,
     MarkIndeterminate, CloseQueue, AppendNotCommitted, Mutate,
     StampFallback, WriteTemp, SpoolFails, Crash, AbandonQueue, LeaveSpool
<1>2. spool \subseteq Entries
  BY DEF EvidenceInv, DeliveryInv, TypeInv, TypeOK
<1>3. Kept' = Kept
  <2>1. CASE spool' = spool
    BY <2>1 DEF Kept
  <2>2. CASE MarkIndeterminate(p)
    <3>1. PICK e \in spool :
            spool' \in {spool, (spool \ {e}) \cup {[e EXCEPT !.state = "indeterminate"]}}
      BY <2>2 DEF MarkIndeterminate
    <3>2. e.state = "pending"
      BY <2>2 DEF EvidenceInv, QueueClean, Replaying, MarkIndeterminate
    <3>3. /\ [e EXCEPT !.state = "indeterminate"].rec = e.rec
          /\ [e EXCEPT !.state = "indeterminate"].state = "indeterminate"
      BY <1>2 DEF Entries
    <3> DEFINE marked == [e EXCEPT !.state = "indeterminate"]
    <3>4. spool' = (spool \ {e}) \cup {marked} => Kept' = Kept
      <4> SUFFICES ASSUME spool' = (spool \ {e}) \cup {marked} PROVE Kept' = Kept
        OBVIOUS
      <4> HIDE DEF marked
      <4>1. Kept' \subseteq Kept
        BY <3>2, <3>3 DEF Kept, marked
      <4>2. Kept \subseteq Kept'
        <5> SUFFICES ASSUME NEW f \in spool, f.state # "temp" PROVE f.rec \in Kept'
          BY DEF Kept
        <5>1. CASE f = e
          BY <5>1, <3>3 DEF Kept, marked
        <5>2. CASE f # e
          BY <5>2 DEF Kept
        <5> QED BY <5>1, <5>2
      <4> QED BY <4>1, <4>2
    <3> QED BY <2>1, <3>1, <3>4
  <2>3. CASE WriteTemp(p)
    BY <2>3 DEF WriteTemp, Kept
  <2>4. CASE SpoolFails(p)
    BY <2>4 DEF SpoolFails, TempOf, Kept
  <2> QED BY <2>1, <2>2, <2>3, <2>4, SpoolChanges
<1> QED BY <1>1, <1>3 DEF LogSet

-----------------------------------------------------------------------------
\* A mutation is answered for by the last step of its own invocation and by no other.
LEMMA NewAnswer ==
    ASSUME EvidenceInv, NEW p \in Procs, Step(p) \/ Mutate(p) \/ Failure(p),
           NEW m, ~HasOutcome(m), HasOutcome(m)'
    PROVE  m = p /\ Exited(p)'
<1> USE DEF Goto, Return
<1>0. pc \in [Procs -> Control] /\ Mutators \cap Readers = {}
  BY ConstantsAssumption DEF EvidenceInv, DeliveryInv, TypeInv, TypeOK
<1>1. PICK r \in LogSet' \cup Kept' : IsOutcomeOf(r, m) /\ r \notin LogSet \cup Kept
  <2>1. \E r \in LogSet' \cup Kept' : IsOutcomeOf(r, m)
    BY DEF HasOutcome, LogSet, Kept, IsOutcomeOf
  <2> QED BY <2>1, HasOutcomeSets
<1>2. CASE AppendCommitted(p) \/ AppendUncertain(p)
  <2>1. r = Own(p, clock + 1)
    BY <1>1, <1>2, OwnAppend
  <2>2. m = p /\ p \notin Readers /\ Finishing(p)
    BY <1>1, <2>1 DEF IsOutcomeOf, Own, Intent, Outcome, Record
  <2> QED BY <1>0, <1>2, <2>2 DEF AppendCommitted, AppendUncertain, ReportUncertain, Exited
<1>3. CASE CommitSpool(p)
  <2>1. r = draft[p] /\ IsOutcomeOf(draft[p], p)
    BY <1>1, <1>3, CommitKept DEF EvidenceInv, DeliveryInv, DraftInv, CommitSpool
  <2> QED BY <1>0, <1>1, <1>3, <2>1 DEF IsOutcomeOf, CommitSpool, LeaveSpool, Exited
<1>4. CASE ReplayAppend(p)
  BY <1>1, <1>4, ReplayKept
<1>5. CASE RemoveReplayed(p)
  BY <1>1, <1>5, RemoveKept
<1> QED BY <1>1, <1>2, <1>3, <1>4, <1>5, OthersKept

\* Who has returned or died stays so.
LEMMA ExitedStays ==
    ASSUME TypeInv, LockInv, NEW p \in Procs, Step(p) \/ Mutate(p) \/ Failure(p),
           NEW q \in Procs, Exited(q)
    PROVE  Exited(q)'
<1>1. CASE q = p
  BY <1>1 DEF Exited, Step, Failure, AcquirePathLock, PathLockFails, OpenQueue, QueueFails,
     ReplayAppend, RemoveReplayed, MarkIndeterminate, CloseQueue, AppendCommitted,
     AppendUncertain, AppendNotCommitted, Mutate, StampFallback, WriteTemp, SpoolFails,
     CommitSpool, Crash
<1>2. CASE q # p
  BY <1>2, OtherQuiet DEF Exited
<1> QED BY <1>1, <1>2

LEMMA EvidenceInit == Init => EvidenceInv
<1> SUFFICES ASSUME Init PROVE EvidenceInv
  OBVIOUS
<1>1. IntentInv /\ DeliveryInv
  BY IntentInit, DeliveryInit
<1> QED BY <1>1 DEF Init, EvidenceInv, RoleInv, VerdictInv, QueueClean, Replaying, FreshInv, HasOutcome

LEMMA EvidenceStep == EvidenceInv /\ [Next]_vars => EvidenceInv'
<1> SUFFICES ASSUME EvidenceInv, [Next]_vars PROVE EvidenceInv'
  OBVIOUS
<1>1. IntentInv' /\ DeliveryInv'
  BY IntentStep, DeliveryStep DEF EvidenceInv
<1>2. ASSUME NEW p \in Procs, Step(p) \/ Mutate(p) \/ Failure(p)
      PROVE  RoleInv' /\ VerdictInv' /\ QueueClean' /\ FreshInv'
  <2>1. RoleInv' /\ VerdictInv' /\ QueueClean'
    BY <1>2, RoleStep, VerdictStep, QueueCleanStep DEF EvidenceInv, DeliveryInv
  <2>2. FreshInv'
    BY <1>2, NewAnswer, ExitedStays DEF FreshInv, EvidenceInv, DeliveryInv
  <2> QED BY <2>1, <2>2
<1>3. CASE UNCHANGED vars
  BY <1>1, <1>3 DEF vars, EvidenceInv, RoleInv, VerdictInv, Verdict, QueueClean, Replaying, FreshInv,
     HasOutcome, IsOutcomeOf, Exited
<1> QED BY <1>1, <1>2, <1>3 DEF Next, AllExited, EvidenceInv

-----------------------------------------------------------------------------
(* The simulation. *)

StatementOf(r) == [of |-> r.mid, says |-> Says(r)]

LEMMA StatementsAdd ==
    ASSUME NEW S, NEW r
    PROVE  Statements(S \cup {r}) =
             IF r.phase = "event" THEN Statements(S) ELSE Statements(S) \cup {StatementOf(r)}
BY DEF Statements, StatementOf

LEMMA StatementsSay ==
    ASSUME NEW S, NEW m
    PROVE  (\E s \in Statements(S) : s.of = m /\ s.says # "intent") <=>
             \E r \in S : r.phase # "event" /\ r.mid = m /\ Says(r) # "intent"
<1>1. ASSUME NEW r \in S, r.phase # "event", r.mid = m, Says(r) # "intent"
      PROVE  \E s \in Statements(S) : s.of = m /\ s.says # "intent"
  <2>1. StatementOf(r) \in Statements(S)
    BY <1>1 DEF Statements, StatementOf
  <2>2. StatementOf(r).of = m /\ StatementOf(r).says # "intent"
    BY <1>1 DEF StatementOf
  <2> QED BY <2>1, <2>2
<1>2. ASSUME NEW s \in Statements(S), s.of = m, s.says # "intent"
      PROVE  \E r \in S : r.phase # "event" /\ r.mid = m /\ Says(r) # "intent"
  <2>1. PICK r \in S : r.phase # "event" /\ s = [of |-> r.mid, says |-> Says(r)]
    BY <1>2 DEF Statements
  <2> QED BY <1>2, <2>1
<1> QED BY <1>1, <1>2

\* An answer, in the abstract, is an outcome that is logged or kept.
LEMMA AnsweredHere ==
    ASSUME EvidenceInv, NEW m
    PROVE  Evidence!Answered(m) <=> HasOutcome(m)
<1>1. \A r \in LogSet \cup Kept : r \in Records
  BY DEF LogSet, Kept, EvidenceInv, DeliveryInv, TypeInv, TypeOK, Entries
<1>2. \A r \in LogSet \cup Kept : r.phase # "event" => (Says(r) # "intent" <=> r.phase = "outcome")
  BY <1>1 DEF Records, Says
<1>3. Evidence!Answered(m) <=>
         \E s \in Statements(LogSet) \cup Statements(Kept) : s.of = m /\ s.says # "intent"
  BY DEF Evidence!Answered, LogSet, Kept
<1>4. Evidence!Answered(m) <=>
         \E r \in LogSet \cup Kept : r.phase # "event" /\ r.mid = m /\ Says(r) # "intent"
  <2> DEFINE Speaks(S) == \E s \in Statements(S) : s.of = m /\ s.says # "intent"
             Holds(S) == \E r \in S : r.phase # "event" /\ r.mid = m /\ Says(r) # "intent"
  <2>1. Evidence!Answered(m) <=> Speaks(LogSet) \/ Speaks(Kept)
    BY <1>3
  <2>2. (Speaks(LogSet) <=> Holds(LogSet)) /\ (Speaks(Kept) <=> Holds(Kept))
    BY StatementsSay
  <2>3. Holds(LogSet \cup Kept) <=> Holds(LogSet) \/ Holds(Kept)
    OBVIOUS
  <2> HIDE DEF Speaks, Holds
  <2>4. Evidence!Answered(m) <=> Holds(LogSet \cup Kept)
    BY <2>1, <2>2, <2>3
  <2> QED BY <2>4 DEF Holds
<1>5. Evidence!Answered(m) <=> \E r \in LogSet \cup Kept : r.mid = m /\ r.phase = "outcome"
  BY <1>2, <1>4
<1> QED BY <1>5, HasOutcomeSets DEF IsOutcomeOf

Promised == {m \in Mutators : report[m] \in {"ok", "incomplete"}}

\* A promise is made with the answer itself, and never taken back.
LEMMA PromiseStep ==
    ASSUME EvidenceInv, NEW p \in Procs, Step(p) \/ Mutate(p) \/ Failure(p)
    PROVE  /\ Promised' \in {Promised, Promised \cup {p}}
           /\ Promised' # Promised =>
                 p \in Mutators /\ ((AppendCommitted(p) /\ Finishing(p)) \/ CommitSpool(p))
<1>0. /\ DOMAIN report = Procs /\ TypeInv /\ LockInv /\ Mutators \subseteq Procs
      /\ Mutators \cap Readers = {}
  BY ConstantsAssumption DEF EvidenceInv, DeliveryInv, TypeInv, TypeOK, Procs
<1>1. \A m \in Mutators : m # p => report'[m] = report[m]
  BY <1>0, OtherQuiet
<1>2. ~Exited(p)
  BY DEF Exited, Step, Failure, AcquirePathLock, PathLockFails, OpenQueue, QueueFails,
     ReplayAppend, RemoveReplayed, MarkIndeterminate, CloseQueue, AppendCommitted,
     AppendUncertain, AppendNotCommitted, Mutate, StampFallback, WriteTemp, SpoolFails,
     CommitSpool, Crash
<1>3. p \notin Promised
  BY <1>2 DEF Promised, EvidenceInv, FreshInv, DeliveryInv, ReportInv
<1>4. p \in Promised' => p \in Mutators /\ ((AppendCommitted(p) /\ Finishing(p)) \/ CommitSpool(p))
  <2> SUFFICES ASSUME p \in Mutators, report'[p] \in {"ok", "incomplete"}, report'[p] # report[p]
               PROVE  (AppendCommitted(p) /\ Finishing(p)) \/ CommitSpool(p)
    BY <1>3 DEF Promised
  <2> QED
    BY <1>0 DEF Step, Failure, AcquirePathLock, PathLockFails, OpenQueue, QueueFails,
       ReplayAppend, RemoveReplayed, MarkIndeterminate, CloseQueue, AppendCommitted,
       AppendUncertain, AppendNotCommitted, Mutate, StampFallback, WriteTemp, SpoolFails,
       CommitSpool, Crash, AbandonQueue, GiveUpQueue, LeaveSpool, Return, Goto,
       ReportUncertain, RefuseIntent
<1>5. \A m : m # p => (m \in Promised' <=> m \in Promised)
  BY <1>1 DEF Promised
<1> QED BY <1>3, <1>4, <1>5


Recorded == Statements(LogSet)
Owed == Statements(Kept)
Effects == [m \in Mutators |-> effect[m]]

\* The statements a mutation may be the subject of.
LEMMA Mapping ==
    /\ \A m : Evidence!Intent(m) = [of |-> m, says |-> "intent"]
    /\ \A m \in Mutators : Evidence!Answer(m) = [of |-> m, says |-> Verdict(m)]
BY DEF Evidence!Intent, Evidence!Answer, Evidence!Statement, Verdict

LEMMA Stutter ==
    ASSUME Recorded' = Recorded, Owed' = Owed, Effects' = Effects, Promised' = Promised
    PROVE  [Evidence!Next]_Evidence!vars
BY DEF Evidence!vars, Recorded, Owed, Effects, Promised, LogSet, Kept

LEMMA StatementsDrop ==
    ASSUME NEW S, NEW r \in S
    PROVE  Statements(S \ {r}) \in {Statements(S), Statements(S) \ {StatementOf(r)}}
<1>1. CASE \E q \in S \ {r} : q.phase # "event" /\ StatementOf(q) = StatementOf(r)
  BY <1>1 DEF Statements, StatementOf
<1>2. CASE ~\E q \in S \ {r} : q.phase # "event" /\ StatementOf(q) = StatementOf(r)
  <2>1. CASE r.phase = "event"
    BY <2>1 DEF Statements, StatementOf
  <2>2. CASE r.phase # "event"
    BY <1>2, <2>2 DEF Statements, StatementOf
  <2> QED BY <2>1, <2>2
<1> QED BY <1>1, <1>2

\* The own record of a process, as a statement.
LEMMA OwnSays ==
    ASSUME EvidenceInv, NEW p \in Procs, NEW stamp
    PROVE  /\ p \notin Mutators => Own(p, stamp).phase = "event"
           /\ p \in Mutators /\ ~Finishing(p) =>
                 /\ Own(p, stamp).phase = "intent"
                 /\ StatementOf(Own(p, stamp)) = [of |-> p, says |-> "intent"]
           /\ p \in Mutators /\ Finishing(p) =>
                 /\ Own(p, stamp).phase = "outcome"
                 /\ StatementOf(Own(p, stamp)) = [of |-> p, says |-> Verdict(p)]
BY ConstantsAssumption DEF Own, Intent, Outcome, Record, StatementOf, Says, Verdict, Finishing, Procs

LEMMA AppendSimulates ==
    ASSUME EvidenceInv, NEW p \in Procs, AppendCommitted(p) \/ AppendUncertain(p)
    PROVE  [Evidence!Next]_Evidence!vars
<1> DEFINE own == Own(p, clock + 1)
<1>1. /\ LogSet' \in {LogSet, LogSet \cup {own}} /\ Kept' = Kept
      /\ AppendCommitted(p) => LogSet' = LogSet \cup {own}
  BY OwnAppend
<1>2. Owed' = Owed /\ Effects' = Effects
  BY <1>1 DEF Owed, Effects, AppendCommitted, AppendUncertain, Statements, Says
<1>3. /\ Promised' \in {Promised, Promised \cup {p}}
      /\ Promised' # Promised => p \in Mutators /\ AppendCommitted(p) /\ Finishing(p)
  <2>1. Step(p)
    BY DEF Step
  <2>2. ~CommitSpool(p)
    BY DEF CommitSpool, AppendCommitted, AppendUncertain
  <2> QED BY <2>1, <2>2, PromiseStep
<1>4. /\ LogSet' = LogSet => Recorded' = Recorded
      /\ LogSet' = LogSet \cup {own} =>
           Recorded' = IF own.phase = "event" THEN Recorded ELSE Recorded \cup {StatementOf(own)}
  BY StatementsAdd DEF Recorded, Statements, Says
<1>5. p \in Mutators => ~Evidence!Answered(p)
  BY AnsweredHere DEF EvidenceInv, FreshInv, Exited, AppendCommitted, AppendUncertain
<1>6. CASE Recorded' = Recorded /\ Promised' = Promised
  BY <1>2, <1>6, Stutter
<1>7. CASE p \in Mutators /\ ~Finishing(p) /\ Recorded' = Recorded \cup {StatementOf(own)}
  <2>1. Evidence!Announce(p)
    BY <1>2, <1>3, <1>5, <1>7, OwnSays, Mapping
       DEF Evidence!Announce, Recorded, Owed, Effects, Promised, LogSet, Kept, Finishing
  <2> QED BY <1>7, <2>1 DEF Evidence!Next
<1>8. CASE p \in Mutators /\ Finishing(p) /\ Recorded' = Recorded \cup {StatementOf(own)}
  <2>1. Evidence!Record(p)
    BY <1>2, <1>3, <1>5, <1>8, OwnSays, Mapping
       DEF Evidence!Record, Evidence!MayPromise, Recorded, Owed, Effects, Promised, LogSet, Kept,
           Finishing
  <2> QED BY <1>8, <2>1 DEF Evidence!Next
<1> QED BY <1>1, <1>3, <1>4, <1>6, <1>7, <1>8, OwnSays

LEMMA CommitSimulates ==
    ASSUME EvidenceInv, NEW p \in Procs, CommitSpool(p)
    PROVE  [Evidence!Next]_Evidence!vars
<1>1. Kept' = Kept \cup {draft[p]} /\ LogSet' = LogSet
  BY CommitKept
<1>2. p \in Mutators /\ IsOutcomeOf(draft[p], p) /\ draft[p].status = Verdict(p)
  BY DEF EvidenceInv, RoleInv, DeliveryInv, DraftInv, VerdictInv, CommitSpool
<1>3. StatementOf(draft[p]) = [of |-> p, says |-> Verdict(p)] /\ draft[p].phase # "event"
  BY <1>2 DEF StatementOf, Says, IsOutcomeOf
<1>4. Owed' = Owed \cup {[of |-> p, says |-> Verdict(p)]}
  BY <1>1, <1>3, StatementsAdd DEF Owed, Statements, Says
<1>5. Recorded' = Recorded /\ Effects' = Effects
  BY <1>1 DEF Recorded, Effects, Statements, Says, CommitSpool, LeaveSpool
<1>6. Promised' \in {Promised, Promised \cup {p}}
  <2>1. Step(p)
    BY DEF Step
  <2> QED BY <2>1, PromiseStep
<1>7. ~Evidence!Answered(p)
  BY AnsweredHere DEF EvidenceInv, FreshInv, Exited, CommitSpool
<1>8. Evidence!Owe(p)
  BY <1>2, <1>4, <1>5, <1>6, <1>7, Mapping
     DEF Evidence!Owe, Evidence!MayPromise, Recorded, Owed, Effects, Promised, LogSet, Kept
<1> QED BY <1>2, <1>8 DEF Evidence!Next

LEMMA ReplaySimulates ==
    ASSUME EvidenceInv, NEW p \in Procs, ReplayAppend(p)
    PROVE  [Evidence!Next]_Evidence!vars
<1>1. Kept' = Kept /\ (LogSet' = LogSet \/ \E r \in Kept : LogSet' = LogSet \cup {r})
  BY ReplayKept
<1>2. Promised' = Promised
  <2>1. Step(p) /\ ~AppendCommitted(p) /\ ~CommitSpool(p)
    BY DEF Step, ReplayAppend, AppendCommitted, CommitSpool
  <2> QED BY <2>1, PromiseStep
<1>3. Owed' = Owed /\ Effects' = Effects
  BY <1>1 DEF Owed, Effects, Statements, Says, ReplayAppend, AbandonQueue
<1>4. CASE LogSet' = LogSet
  <2>1. Recorded' = Recorded
    BY <1>4 DEF Recorded, Statements, Says
  <2> QED BY <1>2, <1>3, <2>1, Stutter
<1>5. ASSUME NEW r \in Kept, LogSet' = LogSet \cup {r}
      PROVE  [Evidence!Next]_Evidence!vars
  <2>1. Recorded' = IF r.phase = "event" THEN Recorded ELSE Recorded \cup {StatementOf(r)}
    BY <1>5, StatementsAdd DEF Recorded, Statements, Says
  <2>2. CASE r.phase = "event"
    BY <1>2, <1>3, <2>1, <2>2, Stutter
  <2>3. CASE r.phase # "event"
    <3>1. StatementOf(r) \in Owed
      BY <2>3 DEF Owed, Statements, StatementOf
    <3>2. Evidence!Replay(StatementOf(r))
      BY <1>2, <1>3, <2>1, <2>3, <3>1
         DEF Evidence!Replay, Recorded, Owed, Effects, Promised, LogSet, Kept
    <3> QED BY <3>1, <3>2 DEF Evidence!Next, Owed, Kept
  <2> QED BY <2>2, <2>3
<1> QED BY <1>1, <1>4, <1>5

LEMMA RemoveSimulates ==
    ASSUME EvidenceInv, NEW p \in Procs, RemoveReplayed(p)
    PROVE  [Evidence!Next]_Evidence!vars
<1>1. LogSet' = LogSet /\ (Kept' = Kept \/ \E r \in LogSet \cap Kept : Kept' = Kept \ {r})
  BY RemoveKept
<1>2. Promised' = Promised
  <2>1. Step(p) /\ ~AppendCommitted(p) /\ ~CommitSpool(p)
    BY DEF Step, RemoveReplayed, AppendCommitted, CommitSpool
  <2> QED BY <2>1, PromiseStep
<1>3. Recorded' = Recorded /\ Effects' = Effects
  BY <1>1 DEF Recorded, Effects, Statements, Says, RemoveReplayed, AbandonQueue
<1>4. CASE Owed' = Owed
  BY <1>2, <1>3, <1>4, Stutter
<1>5. CASE Kept' = Kept
  BY <1>4, <1>5 DEF Owed, Statements, Says
<1>6. ASSUME NEW r \in LogSet \cap Kept, Kept' = Kept \ {r}, Owed' # Owed
      PROVE  [Evidence!Next]_Evidence!vars
  <2>1. Owed' = Statements(Kept \ {r})
    BY <1>6 DEF Owed, Statements, Says
  <2>2. Owed' = Owed \ {StatementOf(r)}
    BY <1>6, <2>1, StatementsDrop DEF Owed
  <2>3. r.phase # "event"
    <3> SUFFICES ASSUME r.phase = "event" PROVE FALSE
      OBVIOUS
    <3>1. Statements(Kept \ {r}) = Statements(Kept)
      BY DEF Statements
    <3> QED BY <1>6, <2>1, <3>1 DEF Owed
  <2>4. StatementOf(r) \in Owed \cap Recorded
    BY <2>3 DEF Owed, Recorded, Statements, StatementOf
  <2>5. Evidence!Retire(StatementOf(r))
    BY <1>2, <1>3, <2>2, <2>4
       DEF Evidence!Retire, Recorded, Owed, Effects, Promised, LogSet, Kept
  <2> QED BY <2>4, <2>5 DEF Evidence!Next, Owed, Kept
<1> QED BY <1>1, <1>4, <1>5, <1>6

LEMMA MutateSimulates ==
    ASSUME EvidenceInv, NEW p \in Procs, Mutate(p)
    PROVE  [Evidence!Next]_Evidence!vars
<1>1. /\ p \in Mutators /\ effect[p] = "none" /\ HasIntent(p) /\ ~HasOutcome(p)
      /\ DOMAIN effect = Procs
  BY DEF EvidenceInv, RoleInv, IntentInv, FreshInv, Exited, Mutate, TypeInv, TypeOK
<1>2. PICK i \in DOMAIN log : log[i].mid = p /\ log[i].phase = "intent"
  BY <1>1 DEF HasIntent
<1>3. [of |-> p, says |-> "intent"] \in Recorded
  <2>1. log[i] \in LogSet /\ StatementOf(log[i]) = [of |-> p, says |-> "intent"]
    BY <1>2 DEF LogSet, StatementOf, Says
  <2> QED BY <1>2, <2>1 DEF Recorded, Statements, StatementOf
<1>4. LogSet' = LogSet /\ Kept' = Kept /\ Promised' = Promised
  BY DEF Mutate, LogSet, Kept, Promised
<1>5. Recorded' = Recorded /\ Owed' = Owed
  BY <1>4 DEF Recorded, Owed, Statements, Says
<1>6. PICK result \in {"succeeded", "failed"} : effect' = [effect EXCEPT ![p] = result]
  BY DEF Mutate
<1>7. Effects' = [Effects EXCEPT ![p] = result] /\ Effects[p] = "none"
  <2>1. \A m \in Mutators : m \in Procs
    BY DEF Procs
  <2>2. \A m \in Mutators : effect'[m] = IF m = p THEN result ELSE effect[m]
    BY <1>1, <1>6, <2>1
  <2>3. Effects' = [m \in Mutators |-> IF m = p THEN result ELSE effect[m]]
    BY <2>2 DEF Effects
  <2>4. [Effects EXCEPT ![p] = result] = [m \in Mutators |-> IF m = p THEN result ELSE effect[m]]
    BY DEF Effects
  <2> QED BY <1>1, <2>3, <2>4 DEF Effects
<1>8. Evidence!Perform(p)
  BY <1>1, <1>3, <1>4, <1>5, <1>7, Mapping, AnsweredHere
     DEF Evidence!Perform, Recorded, Owed, Effects, Promised, LogSet, Kept
<1> QED BY <1>1, <1>8 DEF Evidence!Next

LEMMA OthersStutter ==
    ASSUME EvidenceInv, NEW p \in Procs, Step(p) \/ Failure(p),
           ~AppendCommitted(p), ~AppendUncertain(p), ~CommitSpool(p), ~ReplayAppend(p),
           ~RemoveReplayed(p)
    PROVE  [Evidence!Next]_Evidence!vars
<1>1. LogSet' = LogSet /\ Kept' = Kept
  BY OthersKept
<1>2. Promised' = Promised
  BY PromiseStep
<1>3. effect' = effect
  BY DEF Step, Failure, AcquirePathLock, PathLockFails, OpenQueue, QueueFails,
     MarkIndeterminate, CloseQueue, AppendNotCommitted,
     StampFallback, WriteTemp, SpoolFails, Crash, AbandonQueue, LeaveSpool
<1>4. Recorded' = Recorded /\ Owed' = Owed /\ Effects' = Effects
  BY <1>1, <1>3 DEF Recorded, Owed, Effects, Statements, Says
<1> QED BY <1>2, <1>4, Stutter

LEMMA StepSimulates == EvidenceInv /\ [Next]_vars => [Evidence!Next]_Evidence!vars
<1> SUFFICES ASSUME EvidenceInv, [Next]_vars PROVE [Evidence!Next]_Evidence!vars
  OBVIOUS
<1>1. ASSUME NEW p \in Procs, Step(p) \/ Mutate(p) \/ Failure(p)
      PROVE  [Evidence!Next]_Evidence!vars
  BY <1>1, AppendSimulates, CommitSimulates, ReplaySimulates, RemoveSimulates, MutateSimulates,
     OthersStutter
<1>2. CASE UNCHANGED vars
  <2>1. Recorded' = Recorded /\ Owed' = Owed /\ Effects' = Effects /\ Promised' = Promised
    BY <1>2 DEF vars, Recorded, Owed, Effects, Promised, LogSet, Kept, Statements, Says
  <2> QED BY <2>1, Stutter
<1> QED BY <1>1, <1>2 DEF Next, AllExited

\* For every set of invocations and every number of failures, the locks, the spool and
\* the log keep the abstract promise about mutation evidence.
THEOREM EvidenceImplemented == Spec => ImplementsEvidence
<1>1. Init => Evidence!Init
  BY DEF Init, Evidence!Init, Statements, Procs
<1>2. Spec => []EvidenceInv
  BY EvidenceInit, EvidenceStep, PTL DEF Spec
<1>3. EvidenceInv /\ [Next]_vars => [Evidence!Next]_Evidence!vars
  BY StepSimulates
<1> QED BY <1>1, <1>2, <1>3, PTL DEF Spec, Evidence!Spec, ImplementsEvidence

-----------------------------------------------------------------------------
(* More of MutationAudit's safety: the evidence of a mutation never          *)
(* contradicts itself, the queue fails closed, and what may be logged is     *)
(* never queued.                                                             *)

Spooled == {e.rec : e \in spool}
Outcomes == {r \in LogSet \cup Spooled : r.phase = "outcome"}

\* There is one outcome of a mutation at most, it says what happened, and before its
\* invocation ends it can only be in the temporary file.
AgreeInv ==
    /\ \A r, s \in Outcomes : r.mid = s.mid => r = s
    /\ \A r \in Outcomes : r.status = Verdict(r.mid)
    /\ \A r \in Outcomes : Exited(r.mid) \/ (pc[r.mid] = "temp" /\ r = draft[r.mid])

HoldsPathLock == {"queue", "replay", "remove", "removeStop", "mark", "own"}

\* Whoever replays or appends in its own name holds the append-order lock.
PathInv == \A p \in Procs : pc[p] \in HoldsPathLock => pathLock = p

\* Whoever got through the queue left nothing quarantined behind.
OwnClean ==
    \A p \in Procs : pc[p] = "own" => \A e \in spool : e.state # "indeterminate"

SafetyInv ==
    /\ EvidenceInv
    /\ AgreeInv
    /\ PathInv
    /\ OwnClean

-----------------------------------------------------------------------------
LEMMA PathStep ==
    ASSUME TypeInv, PathInv, NEW p \in Procs, Step(p) \/ Mutate(p) \/ Failure(p)
    PROVE  PathInv'
<1> USE ConstantsAssumption
    DEF PathInv, HoldsPathLock, Goto, Return, GiveUpQueue, AbandonQueue, Released
<1>0. pc \in [Procs -> Control] /\ None \notin Procs
  BY DEF TypeInv, TypeOK
<1>1. CASE AcquirePathLock(p) \/ PathLockFails(p) \/ OpenQueue(p) \/ QueueFails(p)
             \/ CloseQueue(p) \/ Mutate(p) \/ Crash(p)
  BY <1>0, <1>1 DEF AcquirePathLock, PathLockFree, PathLockFails, OpenQueue, QueueFails,
                    CloseQueue, Mutate, Crash
<1>2. CASE ReplayAppend(p) \/ RemoveReplayed(p) \/ MarkIndeterminate(p)
  BY <1>0, <1>2 DEF ReplayAppend, RemoveReplayed, MarkIndeterminate
<1>3. CASE AppendCommitted(p) \/ AppendUncertain(p) \/ AppendNotCommitted(p) \/ StampFallback(p)
  BY <1>0, <1>3 DEF AppendCommitted, AppendUncertain, AppendNotCommitted, StampFallback,
                    ReportUncertain, RefuseIntent
<1>4. CASE WriteTemp(p) \/ SpoolFails(p) \/ CommitSpool(p)
  BY <1>0, <1>4 DEF WriteTemp, SpoolFails, CommitSpool, LeaveSpool
<1> QED BY <1>1, <1>2, <1>3, <1>4 DEF Step, Failure

\* An invocation comes to its own append only with the queue drained.
LEMMA OwnEmpty ==
    ASSUME TypeInv, NEW p \in Procs, Step(p) \/ Mutate(p) \/ Failure(p), pc'[p] = "own"
    PROVE  spool' = {}
BY DEF TypeInv, TypeOK, Step, Failure, AcquirePathLock, PathLockFails, OpenQueue, QueueFails,
   ReplayAppend, RemoveReplayed, MarkIndeterminate, CloseQueue, Drained, AppendCommitted,
   AppendUncertain, AppendNotCommitted, Mutate, StampFallback, WriteTemp, SpoolFails,
   CommitSpool, Crash, AbandonQueue, GiveUpQueue, LeaveSpool, Return, Goto,
   ReportUncertain, RefuseIntent

LEMMA OwnCleanStep ==
    ASSUME SafetyInv, NEW p \in Procs, Step(p) \/ Mutate(p) \/ Failure(p)
    PROVE  OwnClean'
<1>0. TypeInv /\ LockInv /\ spool \subseteq Entries /\ pc \in [Procs -> Control]
  BY DEF SafetyInv, EvidenceInv, DeliveryInv, TypeInv, TypeOK
<1>1. ASSUME NEW q \in Procs, q # p, pc'[q] = "own", NEW e \in spool'
      PROVE  e.state # "indeterminate"
  <2>1. pc[q] = "own" /\ pathLock = q
    BY <1>0, <1>1, OtherQuiet DEF SafetyInv, PathInv, HoldsPathLock
  <2>2. \A f \in spool : f.state # "indeterminate"
    BY <2>1 DEF SafetyInv, OwnClean
  <2>3. ~MarkIndeterminate(p)
    BY <1>1, <2>1 DEF SafetyInv, PathInv, HoldsPathLock, MarkIndeterminate
  <2>4. CASE spool' = spool
    BY <1>1, <2>2, <2>4
  <2>5. CASE RemoveReplayed(p) \/ SpoolFails(p)
    BY <1>1, <2>2, <2>5 DEF RemoveReplayed, SpoolFails
  <2>6. CASE WriteTemp(p)
    BY <1>1, <2>2, <2>6 DEF WriteTemp
  <2>7. CASE CommitSpool(p)
    <3>1. spool' = (spool \ TempOf(p)) \cup {[f EXCEPT !.state = "pending"] : f \in TempOf(p)}
      BY <2>7 DEF CommitSpool
    <3>2. \A f \in TempOf(p) : [f EXCEPT !.state = "pending"].state = "pending"
      BY <1>0 DEF TempOf, Entries
    <3> QED BY <1>1, <2>2, <3>1, <3>2
  <2> QED BY <2>3, <2>4, <2>5, <2>6, <2>7, SpoolChanges
<1>2. pc'[p] = "own" => spool' = {}
  BY <1>0, OwnEmpty
<1> QED BY <1>1, <1>2 DEF OwnClean

\* Where a new outcome can come from: the invocation's own append after the side effect,
\* or its temporary file.
LEMMA NewOutcome ==
    ASSUME SafetyInv, NEW p \in Procs, Step(p) \/ Mutate(p) \/ Failure(p),
           NEW r \in Outcomes', r \notin Outcomes
    PROVE  \/ /\ AppendCommitted(p) \/ AppendUncertain(p)
              /\ Finishing(p) /\ p \in Mutators
              /\ r = Own(p, clock + 1)
           \/ WriteTemp(p) /\ r = draft[p]
<1>0. EvidenceInv /\ spool \subseteq Entries /\ r.phase = "outcome"
  BY DEF SafetyInv, EvidenceInv, DeliveryInv, TypeInv, TypeOK, Outcomes
<1>1. Kept \subseteq Spooled
  BY DEF Kept, Spooled
<1>2. r \notin LogSet \cup Spooled /\ r \in LogSet' \cup Spooled'
  BY DEF Outcomes
<1>3. CASE AppendCommitted(p) \/ AppendUncertain(p)
  <2>1. spool' = spool
    BY <1>3 DEF AppendCommitted, AppendUncertain
  <2>2. r = Own(p, clock + 1)
    BY <1>0, <1>2, <1>3, <2>1, OwnAppend DEF Spooled
  <2>3. p \in Mutators /\ Finishing(p)
    BY <1>0, <2>2, OwnSays
  <2> QED BY <1>3, <2>2, <2>3
<1>4. CASE WriteTemp(p)
  <2>1. log' = log /\ \A e \in spool' : e \in spool \/ e.rec = draft[p]
    BY <1>4 DEF WriteTemp, LeaveSpool
  <2> QED BY <1>2, <1>4, <2>1 DEF LogSet, Spooled
<1>5. CASE CommitSpool(p)
  <2>1. spool' = (spool \ TempOf(p)) \cup {[e EXCEPT !.state = "pending"] : e \in TempOf(p)}
    BY <1>5 DEF CommitSpool
  <2>2. \A e \in TempOf(p) : e \in spool /\ [e EXCEPT !.state = "pending"].rec = e.rec
    BY <1>0 DEF TempOf, Entries
  <2>3. Spooled' \subseteq Spooled
    BY <2>1, <2>2 DEF Spooled
  <2> QED BY <1>0, <1>2, <1>5, <2>3, CommitKept
<1>6. CASE ReplayAppend(p)
  <2>1. spool' = spool
    BY <1>6 DEF ReplayAppend
  <2> QED BY <1>0, <1>1, <1>2, <1>6, <2>1, ReplayKept DEF Spooled
<1>7. CASE RemoveReplayed(p)
  <2>1. Spooled' \subseteq Spooled
    BY <1>7 DEF RemoveReplayed, Spooled
  <2> QED BY <1>0, <1>2, <1>7, <2>1, RemoveKept
<1>8. CASE MarkIndeterminate(p)
  <2>1. PICK f \in spool :
          spool' \in {spool, (spool \ {f}) \cup {[f EXCEPT !.state = "indeterminate"]}}
    BY <1>8 DEF MarkIndeterminate
  <2>2. [f EXCEPT !.state = "indeterminate"].rec = f.rec
    BY <1>0 DEF Entries
  <2>3. Spooled' \subseteq Spooled
    BY <2>1, <2>2 DEF Spooled
  <2>4. log' = log
    BY <1>8 DEF MarkIndeterminate
  <2> QED BY <1>2, <2>3, <2>4 DEF LogSet
<1>9. ASSUME ~AppendCommitted(p), ~AppendUncertain(p), ~CommitSpool(p), ~ReplayAppend(p),
             ~RemoveReplayed(p), ~MarkIndeterminate(p), ~WriteTemp(p)
      PROVE  FALSE
  <2>1. LogSet' = LogSet
    BY <1>0, <1>9, OthersKept
  <2>2. Spooled' \subseteq Spooled
    BY <1>9, SpoolChanges DEF SpoolFails, Spooled
  <2> QED BY <1>2, <2>1, <2>2
<1> QED BY <1>3, <1>4, <1>5, <1>6, <1>7, <1>8, <1>9

\* An outcome that is there stays consistent with its mutation.
LEMMA OldOutcome ==
    ASSUME SafetyInv, NEW p \in Procs, Step(p) \/ Mutate(p) \/ Failure(p), NEW r \in Outcomes
    PROVE  /\ r.status = Verdict(r.mid)'
           /\ Exited(r.mid)' \/ (pc'[r.mid] = "temp" /\ r = draft'[r.mid])
<1>0. /\ TypeInv /\ LockInv /\ r.mid \in Procs /\ pc \in [Procs -> Control]
      /\ effect \in [Procs -> {"none", "succeeded", "failed"}]
  <2>1. r \in Records
    BY DEF Outcomes, LogSet, Spooled, SafetyInv, EvidenceInv, DeliveryInv, TypeInv, TypeOK, Entries
  <2> QED BY <2>1 DEF Records, SafetyInv, EvidenceInv, DeliveryInv, TypeInv, TypeOK
<1>1. Exited(r.mid) \/ (pc[r.mid] = "temp" /\ r = draft[r.mid])
  BY DEF SafetyInv, AgreeInv
<1>2. effect'[r.mid] = effect[r.mid]
  <2>1. CASE Mutate(p)
    BY <1>0, <1>1, <2>1 DEF Mutate, Exited
  <2>2. CASE ~Mutate(p)
    BY <2>2 DEF Step, Failure, AcquirePathLock, PathLockFails, OpenQueue, QueueFails,
       ReplayAppend, RemoveReplayed, MarkIndeterminate, CloseQueue, AppendCommitted,
       AppendUncertain, AppendNotCommitted, StampFallback, WriteTemp, SpoolFails,
       CommitSpool, Crash, AbandonQueue, LeaveSpool
  <2> QED BY <2>1, <2>2
<1>3. r.status = Verdict(r.mid)'
  BY <1>2 DEF SafetyInv, AgreeInv, Verdict
<1>4. Exited(r.mid)' \/ (pc'[r.mid] = "temp" /\ r = draft'[r.mid])
  <2>1. CASE Exited(r.mid)
    BY <1>0, <2>1, ExitedStays
  <2>2. CASE r.mid # p
    BY <1>0, <1>1, <2>1, <2>2, OtherQuiet
  <2>3. CASE r.mid = p /\ pc[p] = "temp"
    BY <1>0, <2>3 DEF Exited, Step, Failure, AcquirePathLock, PathLockFails, OpenQueue, QueueFails,
       ReplayAppend, RemoveReplayed, MarkIndeterminate, CloseQueue, AppendCommitted,
       AppendUncertain, AppendNotCommitted, Mutate, StampFallback, WriteTemp, SpoolFails,
       CommitSpool, Crash, LeaveSpool, Return, Goto
  <2> QED BY <1>1, <2>1, <2>2, <2>3
<1> QED BY <1>3, <1>4

\* A new outcome belongs to the invocation that makes the step, which had none.
LEMMA FirstOutcome ==
    ASSUME SafetyInv, NEW p \in Procs, Step(p) \/ Mutate(p) \/ Failure(p),
           NEW r \in Outcomes', r \notin Outcomes
    PROVE  /\ r.mid = p /\ r.status = Verdict(p)'
           /\ Exited(p)' \/ (pc'[p] = "temp" /\ r = draft'[p])
           /\ \A s \in Outcomes : s.mid # p
<1>0. /\ pc \in [Procs -> Control] /\ Mutators \cap Readers = {}
      /\ \A s \in Outcomes : Exited(s.mid) \/ pc[s.mid] = "temp"
  BY ConstantsAssumption DEF SafetyInv, AgreeInv, EvidenceInv, DeliveryInv, TypeInv, TypeOK
<1>1. CASE (AppendCommitted(p) \/ AppendUncertain(p)) /\ Finishing(p) /\ p \in Mutators
             /\ r = Own(p, clock + 1)
  <2>1. r.mid = p /\ r.status = Verdict(p)
    BY <1>0, <1>1 DEF Own, Outcome, Record, Verdict, Finishing
  <2>2. effect' = effect /\ Exited(p)' /\ pc[p] = "own"
    BY <1>0, <1>1 DEF AppendCommitted, AppendUncertain, ReportUncertain, Return, Goto, Exited
  <2> QED BY <1>0, <2>1, <2>2 DEF Verdict, Exited
<1>2. CASE WriteTemp(p) /\ r = draft[p]
  <2>1. r.mid = p /\ r.status = Verdict(p) /\ pc[p] = "spool"
    BY <1>2 DEF SafetyInv, EvidenceInv, VerdictInv, DeliveryInv, DraftInv, IsOutcomeOf, WriteTemp
  <2>2. effect' = effect /\ draft' = draft /\ (Exited(p)' \/ pc'[p] = "temp")
    BY <1>0, <1>2 DEF WriteTemp, LeaveSpool, Return, Goto, Exited
  <2> QED BY <1>0, <1>2, <2>1, <2>2 DEF Verdict, Exited
<1> QED BY <1>1, <1>2, NewOutcome

LEMMA AgreeStep ==
    ASSUME SafetyInv, NEW p \in Procs, Step(p) \/ Mutate(p) \/ Failure(p)
    PROVE  AgreeInv'
<1>1. ASSUME NEW r \in Outcomes', NEW s \in Outcomes', r.mid = s.mid
      PROVE  r = s
  <2>1. CASE r \in Outcomes /\ s \in Outcomes
    BY <1>1, <2>1 DEF SafetyInv, AgreeInv
  <2>2. CASE r \notin Outcomes /\ s \in Outcomes
    BY <1>1, <2>2, FirstOutcome
  <2>3. CASE r \in Outcomes /\ s \notin Outcomes
    BY <1>1, <2>3, FirstOutcome
  <2>4. CASE r \notin Outcomes /\ s \notin Outcomes
    BY <2>4, NewOutcome DEF AppendCommitted, AppendUncertain, WriteTemp
  <2> QED BY <2>1, <2>2, <2>3, <2>4
<1>2. ASSUME NEW r \in Outcomes'
      PROVE  /\ r.status = Verdict(r.mid)'
             /\ Exited(r.mid)' \/ (pc'[r.mid] = "temp" /\ r = draft'[r.mid])
  BY <1>2, OldOutcome, FirstOutcome
<1> QED BY <1>1, <1>2 DEF AgreeInv

LEMMA SafetyInit == Init => SafetyInv
<1> SUFFICES ASSUME Init PROVE SafetyInv
  OBVIOUS
<1>1. EvidenceInv
  BY EvidenceInit
<1> QED BY <1>1 DEF Init, SafetyInv, AgreeInv, Outcomes, LogSet, Spooled, PathInv, HoldsPathLock,
           OwnClean

LEMMA SafetyStep == SafetyInv /\ [Next]_vars => SafetyInv'
<1> SUFFICES ASSUME SafetyInv, [Next]_vars PROVE SafetyInv'
  OBVIOUS
<1>1. EvidenceInv'
  BY EvidenceStep DEF SafetyInv
<1>2. ASSUME NEW p \in Procs, Step(p) \/ Mutate(p) \/ Failure(p)
      PROVE  AgreeInv' /\ PathInv' /\ OwnClean'
  BY <1>2, AgreeStep, PathStep, OwnCleanStep DEF SafetyInv, EvidenceInv, DeliveryInv
<1>3. CASE UNCHANGED vars
  BY <1>1, <1>3 DEF vars, SafetyInv, AgreeInv, Outcomes, LogSet, Spooled, Exited, Verdict, PathInv,
     OwnClean
<1> QED BY <1>1, <1>2, <1>3 DEF Next, AllExited, SafetyInv

\* The records of one mutation never contradict each other or what happened, wherever
\* they are kept and however often they are replayed.
THEOREM OutcomesNeverContradict == Spec => []OutcomesAgree
<1>1. Spec => []SafetyInv
  BY SafetyInit, SafetyStep, PTL DEF Spec
<1>2. SafetyInv => OutcomesAgree
  <2> SUFFICES ASSUME SafetyInv PROVE OutcomesAgree
    OBVIOUS
  <2>1. {r \in {log[i] : i \in DOMAIN log} \cup {e.rec : e \in spool} : r.phase = "outcome"} = Outcomes
    BY DEF Outcomes, LogSet, Spooled
  <2>2. \A r, s \in Outcomes : r.mid = s.mid => r = s
    BY DEF SafetyInv, AgreeInv
  <2>3. \A r \in Outcomes : r.mid \in Procs /\ r.status = Verdict(r.mid)
    <3>1. \A r \in Outcomes : r \in Records
      BY DEF Outcomes, LogSet, Spooled, SafetyInv, EvidenceInv, DeliveryInv, TypeInv, TypeOK,
             Entries
    <3>2. \A r \in Outcomes : r.status = Verdict(r.mid)
      BY DEF SafetyInv, AgreeInv
    <3> QED BY <3>1, <3>2 DEF Records
  <2>4. effect \in [Procs -> {"none", "succeeded", "failed"}]
    BY DEF SafetyInv, EvidenceInv, DeliveryInv, TypeInv, TypeOK
  <2>5. \A r \in Outcomes :
           IF r.status = "skipped" THEN ~Finishing(r.mid) ELSE r.status = effect[r.mid]
    BY <2>3, <2>4 DEF Verdict, Finishing
  <2> QED BY <2>1, <2>2, <2>5 DEF OutcomesAgree
<1> QED BY <1>1, <1>2, PTL

\* A quarantined entry stops every append, and a temporary file stops replay, for good.
THEOREM QueueFailsClosed == Spec => FailsClosed
<1> DEFINE Closed ==
      /\ (\E e \in spool : e.state = "indeterminate") => log' = log
      /\ (\E e \in spool : e.state = "temp") /\ log' # log =>
            \E p \in Procs : pc[p] = "own" /\ log' = Append(log, Own(p, clock + 1))
<1>1. Spec => []SafetyInv
  BY SafetyInit, SafetyStep, PTL DEF Spec
<1>2. SafetyInv /\ [Next]_vars => [Closed]_vars
  <2> SUFFICES ASSUME SafetyInv, NEW p \in Procs, Step(p) \/ Mutate(p) \/ Failure(p) PROVE Closed
    BY DEF Next, AllExited
  <2>1. CASE ReplayAppend(p)
    <3>1. \A e \in spool : e.state = "pending"
      BY <2>1 DEF ReplayAppend, SafetyInv, EvidenceInv, QueueClean, Replaying
    <3> QED BY <3>1
  <2>2. CASE AppendCommitted(p) \/ AppendUncertain(p)
    <3>1. pc[p] = "own" /\ log' \in {log, Append(log, Own(p, clock + 1))}
      BY <2>2 DEF AppendCommitted, AppendUncertain
    <3>2. \A e \in spool : e.state # "indeterminate"
      BY <3>1 DEF SafetyInv, OwnClean
    <3> QED BY <3>1, <3>2
  <2>3. CASE ~ReplayAppend(p) /\ ~AppendCommitted(p) /\ ~AppendUncertain(p)
    <3>1. log' = log
      BY <2>3 DEF Step, Failure, AcquirePathLock, PathLockFails, OpenQueue, QueueFails,
         RemoveReplayed, MarkIndeterminate, CloseQueue, AppendNotCommitted, Mutate,
         StampFallback, WriteTemp, SpoolFails, CommitSpool, Crash, AbandonQueue, LeaveSpool
    <3> QED BY <3>1
  <2> QED BY <2>1, <2>2, <2>3
<1> QED BY <1>1, <1>2, PTL DEF Spec, FailsClosed

\* A mutation whose outcome may be in the log is never spooled again, for any number of
\* uncertain appends: only an invocation that nobody answered for writes to the spool.
THEOREM LoggedNeverQueued == Spec => NeverQueuesLogged
<1> DEFINE Unlogged ==
      \A e \in spool' : e.state = "temp" /\ e \notin spool =>
          ~\E i \in DOMAIN log : IsOutcomeOf(log[i], e.rec.mid)
<1>1. Spec => []SafetyInv
  BY SafetyInit, SafetyStep, PTL DEF Spec
<1>2. SafetyInv /\ [Next]_vars => [Unlogged]_vars
  <2> SUFFICES ASSUME SafetyInv, NEW p \in Procs, Step(p) \/ Mutate(p) \/ Failure(p),
                      NEW e \in spool', e.state = "temp", e \notin spool
               PROVE  ~\E i \in DOMAIN log : IsOutcomeOf(log[i], e.rec.mid)
    BY DEF Next, AllExited
  <2>1. spool \subseteq Entries
    BY DEF SafetyInv, EvidenceInv, DeliveryInv, TypeInv, TypeOK
  <2>2. WriteTemp(p)
    <3>1. CASE RemoveReplayed(p) \/ SpoolFails(p)
      BY <3>1 DEF RemoveReplayed, SpoolFails
    <3>2. CASE MarkIndeterminate(p)
      BY <2>1, <3>2 DEF MarkIndeterminate, Entries
    <3>3. CASE CommitSpool(p)
      BY <2>1, <3>3 DEF CommitSpool, TempOf, Entries
    <3> QED BY <3>1, <3>2, <3>3, SpoolChanges
  <2>3. e.rec = draft[p] /\ pc[p] = "spool"
    BY <2>2 DEF WriteTemp
  <2>4. e.rec.mid = p /\ ~HasOutcome(p)
    BY <2>3 DEF SafetyInv, EvidenceInv, FreshInv, DeliveryInv, DraftInv, IsOutcomeOf, Exited
  <2> QED BY <2>4 DEF HasOutcome
<1> QED BY <1>1, <1>2, PTL DEF Spec, NeverQueuesLogged

-----------------------------------------------------------------------------
(* The order of the audit log proved: the append-order lock keeps the stamps  *)
(* of the log in order, and nothing overtakes an outcome spooled under it.    *)

Spooling == {"spool", "temp"}

\* What is spooled without the path lock is marked late.
InsideInv == \A p \in Procs : pc[p] \in Spooling /\ ~draft[p].late => pathLock = p

\* Whoever appends in its own name drained the queue; only late outcomes came since.
OwnLate == \A p \in Procs : pc[p] = "own" => \A e \in spool : e.rec.late

Held == {r \in LogSet \cup Spooled : ~r.late}

PastInv == \A r \in Held : r.stamp <= clock

\* The draft of a process that holds the path lock is the latest record of all.
LatestInv ==
    \A p \in Procs : pc[p] \in Spooling /\ ~draft[p].late =>
        /\ draft[p].stamp <= clock
        /\ \A r \in Held : r.stamp <= draft[p].stamp

\* What is logged was stamped before what is spooled ...
LogFirst ==
    \A r \in LogSet : \A e \in spool : ~r.late /\ ~e.rec.late => r.stamp <= e.rec.stamp

\* ... and the queue is in the order of its stamps.
QueueStamps ==
    \A e, f \in spool : ~e.rec.late /\ ~f.rec.late /\ e.seq < f.seq => e.rec.stamp <= f.rec.stamp

StampInv == PastInv /\ LatestInv /\ LogFirst /\ QueueStamps /\ StampOrder

OrderInv == SafetyInv /\ InsideInv /\ OwnLate /\ StampInv

-----------------------------------------------------------------------------
LEMMA OwnStamp ==
    ASSUME NEW p \in Procs, NEW stamp
    PROVE  Own(p, stamp).stamp = stamp /\ ~Own(p, stamp).late
BY DEF Own, Intent, Outcome, Record

LEMMA InsideStep ==
    ASSUME TypeInv, PathInv, InsideInv, NEW p \in Procs, Step(p) \/ Mutate(p) \/ Failure(p)
    PROVE  InsideInv'
<1> USE ConstantsAssumption
    DEF PathInv, HoldsPathLock, InsideInv, Spooling, Goto, Return, GiveUpQueue, AbandonQueue,
        Released
<1>0. /\ pc \in [Procs -> Control] /\ draft \in [Procs -> Records \cup {NoDraft}]
      /\ None \notin Procs
  BY DEF TypeInv, TypeOK
<1>1. CASE AcquirePathLock(p) \/ PathLockFails(p) \/ OpenQueue(p) \/ QueueFails(p)
             \/ CloseQueue(p) \/ Mutate(p) \/ Crash(p)
  BY <1>0, <1>1 DEF AcquirePathLock, PathLockFree, PathLockFails, OpenQueue, QueueFails,
                    CloseQueue, Mutate, Crash
<1>2. CASE ReplayAppend(p) \/ RemoveReplayed(p) \/ MarkIndeterminate(p)
  BY <1>0, <1>2 DEF ReplayAppend, RemoveReplayed, MarkIndeterminate
<1>3. CASE AppendCommitted(p) \/ AppendUncertain(p) \/ AppendNotCommitted(p)
  BY <1>0, <1>3 DEF AppendCommitted, AppendUncertain, AppendNotCommitted, ReportUncertain,
                    RefuseIntent
<1>4. CASE StampFallback(p)
  BY <1>0, <1>4 DEF StampFallback, Outcome, Record
<1>5. CASE WriteTemp(p) \/ SpoolFails(p) \/ CommitSpool(p)
  BY <1>0, <1>5 DEF WriteTemp, SpoolFails, CommitSpool, LeaveSpool
<1> QED BY <1>1, <1>2, <1>3, <1>4, <1>5 DEF Step, Failure

\* Every entry was there before, but for the one WriteTemp puts behind all others.
LEMMA EntryOrigin ==
    ASSUME TypeInv, NEW p \in Procs, Step(p) \/ Mutate(p) \/ Failure(p), NEW e \in spool'
    PROVE  \/ \E f \in spool : f.seq = e.seq /\ f.rec = e.rec
           \/ WriteTemp(p) /\ e.rec = draft[p] /\ \A f \in spool : f.seq < e.seq
<1>0. spool \subseteq Entries
  BY DEF TypeInv, TypeOK
<1>1. CASE spool' = spool \/ RemoveReplayed(p) \/ SpoolFails(p)
  BY <1>1 DEF RemoveReplayed, SpoolFails
<1>2. CASE MarkIndeterminate(p)
  <2>1. PICK f \in spool :
          spool' \in {spool, (spool \ {f}) \cup {[f EXCEPT !.state = "indeterminate"]}}
    BY <1>2 DEF MarkIndeterminate
  <2>2. /\ [f EXCEPT !.state = "indeterminate"].seq = f.seq
        /\ [f EXCEPT !.state = "indeterminate"].rec = f.rec
    BY <1>0 DEF Entries
  <2> QED BY <2>1, <2>2
<1>3. CASE WriteTemp(p)
  <2>1. CASE SequenceAvailable
    <3>1. PICK now \in 0..MaxSeq :
            spool' = spool \cup
              {[seq |-> NextSequence(now), rec |-> draft[p], state |-> "temp"]}
      BY <1>3, <2>1 DEF WriteTemp
    <3>2. \A f \in spool : f.seq < NextSequence(now)
      BY <1>0, <2>1, NextSequenceInRange
    <3> QED BY <1>3, <3>1, <3>2
  <2>2. CASE ~SequenceAvailable
    BY <1>3, <2>2 DEF WriteTemp
  <2> QED BY <2>1, <2>2
<1>4. CASE CommitSpool(p)
  <2>1. spool' = (spool \ TempOf(p)) \cup {[f EXCEPT !.state = "pending"] : f \in TempOf(p)}
    BY <1>4 DEF CommitSpool
  <2>2. \A f \in TempOf(p) : /\ f \in spool
                             /\ [f EXCEPT !.state = "pending"].seq = f.seq
                             /\ [f EXCEPT !.state = "pending"].rec = f.rec
    BY <1>0 DEF TempOf, Entries
  <2> QED BY <2>1, <2>2
<1> QED BY <1>1, <1>2, <1>3, <1>4, SpoolChanges

\* What a step adds to the log, and from where.
LEMMA RecordOrigin ==
    ASSUME TypeInv, NEW p \in Procs, Step(p) \/ Mutate(p) \/ Failure(p), log' # log
    PROVE  \/ /\ ReplayAppend(p) /\ spool' = spool /\ clock' = clock
              /\ \E e \in spool : NextInQueue(e) /\ log' = Append(log, e.rec)
           \/ /\ AppendCommitted(p) \/ AppendUncertain(p)
              /\ pc[p] = "own" /\ spool' = spool /\ clock' \in {clock + 1, clock + 2}
              /\ log' = Append(log, Own(p, clock + 1))
<1>1. ReplayAppend(p) \/ AppendCommitted(p) \/ AppendUncertain(p)
  BY DEF Step, Failure, AcquirePathLock, PathLockFails, OpenQueue, QueueFails,
     RemoveReplayed, MarkIndeterminate, CloseQueue, AppendNotCommitted, Mutate,
     StampFallback, WriteTemp, SpoolFails, CommitSpool, Crash, AbandonQueue, LeaveSpool
<1>2. CASE ReplayAppend(p)
  BY <1>2 DEF ReplayAppend, AbandonQueue
<1>3. CASE AppendCommitted(p)
  BY <1>3 DEF AppendCommitted
<1>4. CASE AppendUncertain(p)
  BY <1>4 DEF AppendUncertain
<1> QED BY <1>1, <1>2, <1>3, <1>4

LEMMA OwnLateStep ==
    ASSUME OrderInv, NEW p \in Procs, Step(p) \/ Mutate(p) \/ Failure(p)
    PROVE  OwnLate'
<1>0. TypeInv /\ LockInv
  BY DEF OrderInv, SafetyInv, EvidenceInv, DeliveryInv
<1>1. ASSUME NEW q \in Procs, q # p, pc'[q] = "own", NEW e \in spool'
      PROVE  e.rec.late
  <2>1. pc[q] = "own" /\ pathLock = q
    BY <1>0, <1>1, OtherQuiet DEF OrderInv, SafetyInv, PathInv, HoldsPathLock
  <2>2. CASE \E f \in spool : f.seq = e.seq /\ f.rec = e.rec
    BY <2>1, <2>2 DEF OrderInv, OwnLate
  <2>3. CASE WriteTemp(p) /\ e.rec = draft[p]
    BY <1>1, <2>1, <2>3 DEF OrderInv, InsideInv, Spooling, WriteTemp
  <2> QED BY <1>0, <2>2, <2>3, EntryOrigin
<1>2. pc'[p] = "own" => spool' = {}
  BY <1>0, OwnEmpty
<1> QED BY <1>1, <1>2 DEF OwnLate

-----------------------------------------------------------------------------
(* The stamps. *)

LEMMA StampTypes ==
    ASSUME TypeInv
    PROVE  /\ clock \in Nat
           /\ log \in Seq(Records)
           /\ spool \subseteq Entries
           /\ \A r \in LogSet \cup Spooled : r \in Records /\ r.stamp \in Nat
<1>1. /\ clock \in Nat
      /\ log \in Seq(Records)
      /\ spool \subseteq Entries
  BY DEF TypeInv, TypeOK
<1>2. \A r \in LogSet \cup Spooled : r \in Records
  BY <1>1 DEF LogSet, Spooled, Entries
<1> QED BY <1>1, <1>2 DEF Records

LEMMA ClockGrows ==
    ASSUME TypeInv, NEW p \in Procs, Step(p) \/ Mutate(p) \/ Failure(p)
    PROVE  clock' \in Nat /\ clock <= clock'
<1>1. clock \in Nat
  BY StampTypes
<1>2. clock' \in {clock, clock + 1, clock + 2}
  BY DEF Step, Failure, AcquirePathLock, PathLockFails, OpenQueue, QueueFails, ReplayAppend,
     RemoveReplayed, MarkIndeterminate, CloseQueue, AppendCommitted, AppendUncertain,
     AppendNotCommitted, Mutate, StampFallback, WriteTemp, SpoolFails, CommitSpool, Crash,
     AbandonQueue, LeaveSpool
<1> QED BY <1>1, <1>2

\* A held record was held before, or was just stamped, or is being spooled.
LEMMA HeldStep ==
    ASSUME TypeInv, NEW p \in Procs, Step(p) \/ Mutate(p) \/ Failure(p), NEW r \in Held'
    PROVE  \/ r \in Held
           \/ /\ log' # log /\ pc[p] = "own"
              /\ r.stamp = clock + 1 /\ clock' \in {clock + 1, clock + 2}
           \/ WriteTemp(p) /\ r = draft[p]
<1>0. ~r.late /\ r \in LogSet' \cup Spooled'
  BY DEF Held
<1>1. CASE r \in LogSet'
  <2>1. CASE log' = log
    BY <1>0, <1>1, <2>1 DEF LogSet, Held
  <2>2. CASE \E e \in spool : NextInQueue(e) /\ log' = Append(log, e.rec)
    <3>1. PICK e \in spool : log' = Append(log, e.rec)
      BY <2>2
    <3>2. e.rec \in Records /\ e.rec \in Spooled
      BY StampTypes DEF Spooled
    <3>3. LogSet' = LogSet \cup {e.rec}
      BY <3>1, <3>2, LogSetGrows
    <3> QED BY <1>0, <1>1, <3>2, <3>3 DEF Held
  <2>3. CASE /\ log' # log /\ pc[p] = "own" /\ clock' \in {clock + 1, clock + 2}
             /\ log' = Append(log, Own(p, clock + 1))
    <3>1. Own(p, clock + 1) \in Records /\ Own(p, clock + 1).stamp = clock + 1
      BY StampTypes, OwnIsRecord, OwnStamp
    <3>2. LogSet' = LogSet \cup {Own(p, clock + 1)}
      BY <2>3, <3>1, LogSetGrows
    <3> QED BY <1>0, <1>1, <2>3, <3>1, <3>2 DEF Held
  <2> QED BY <2>1, <2>2, <2>3, RecordOrigin
<1>2. CASE r \in Spooled'
  <2>1. PICK e \in spool' : r = e.rec
    BY <1>2 DEF Spooled
  <2>2. CASE \E f \in spool : f.seq = e.seq /\ f.rec = e.rec
    BY <1>0, <2>1, <2>2 DEF Held, Spooled
  <2>3. CASE WriteTemp(p) /\ e.rec = draft[p]
    BY <2>1, <2>3
  <2> QED BY <2>2, <2>3, EntryOrigin
<1> QED BY <1>0, <1>1, <1>2

LEMMA LatestStep ==
    ASSUME OrderInv, NEW p \in Procs, Step(p) \/ Mutate(p) \/ Failure(p)
    PROVE  LatestInv'
<1>0. /\ TypeInv /\ LockInv /\ PathInv /\ InsideInv /\ PastInv /\ LatestInv
      /\ pc \in [Procs -> Control] /\ draft \in [Procs -> Records \cup {NoDraft}]
  BY DEF OrderInv, StampInv, SafetyInv, EvidenceInv, DeliveryInv, TypeInv, TypeOK
<1>1. /\ clock \in Nat /\ clock' \in Nat /\ clock <= clock'
      /\ \A r \in Held : r.stamp \in Nat /\ r.stamp <= clock
  BY <1>0, StampTypes, ClockGrows DEF Held, PastInv
<1>2. ASSUME NEW q \in Procs, q # p, pc'[q] \in Spooling, ~draft'[q].late
      PROVE  draft'[q].stamp <= clock' /\ \A r \in Held' : r.stamp <= draft'[q].stamp
  <2>1. pc[q] \in Spooling /\ draft'[q] = draft[q] /\ ~draft[q].late /\ draft[q].stamp \in Nat
    <3>1. pc[q] \in Spooling /\ draft'[q] = draft[q] /\ ~draft[q].late
      BY <1>0, <1>2, OtherQuiet
    <3> QED BY <1>0, <3>1 DEF TypeInv, Records, Spooling
  <2>2. pathLock = q
    BY <1>0, <2>1 DEF InsideInv
  <2>3. draft[q].stamp <= clock /\ \A r \in Held : r.stamp <= draft[q].stamp
    BY <1>0, <2>1 DEF LatestInv
  <2>4. ASSUME NEW r \in Held' PROVE r \in Held
    <3>1. pc[p] # "own"
      BY <1>0, <1>2, <2>2 DEF PathInv, HoldsPathLock
    <3>2. ~(WriteTemp(p) /\ r = draft[p])
      BY <1>0, <1>2, <2>2, <2>4 DEF InsideInv, Spooling, WriteTemp, Held
    <3> QED BY <1>0, <2>4, <3>1, <3>2, HeldStep
  <2> QED BY <1>1, <2>1, <2>3, <2>4
<1>3. ASSUME pc'[p] \in Spooling, ~draft'[p].late
      PROVE  draft'[p].stamp <= clock' /\ \A r \in Held' : r.stamp <= draft'[p].stamp
  <2>1. CASE AppendUncertain(p)
    <3>1. draft'[p].stamp = clock + 2 /\ clock' = clock + 2
      BY <1>0, <1>3, <2>1 DEF AppendUncertain, ReportUncertain, Return, Goto, Spooling,
                              Skipped, Record
    <3>2. \A r \in Held' : r.stamp \in Nat /\ r.stamp <= clock + 1
      <4>1. ~WriteTemp(p)
        BY <2>1 DEF AppendUncertain, WriteTemp
      <4> QED BY <1>0, <1>1, <4>1, HeldStep
    <3> QED BY <1>1, <3>1, <3>2
  <2>2. CASE AppendNotCommitted(p)
    <3>1. draft'[p].stamp = clock + 1 /\ clock' = clock + 1 /\ log' = log
      BY <1>0, <1>3, <2>2, OwnStamp DEF AppendNotCommitted, RefuseIntent, Return, Goto, Spooling
    <3>2. \A r \in Held' : r \in Held
      <4>1. ~WriteTemp(p)
        BY <2>2 DEF AppendNotCommitted, WriteTemp
      <4> QED BY <1>0, <3>1, <4>1, HeldStep
    <3> QED BY <1>1, <3>1, <3>2
  <2>3. CASE StampFallback(p)
    BY <1>0, <1>3, <2>3 DEF StampFallback, Outcome, Record
  <2>4. CASE WriteTemp(p)
    <3>1. draft' = draft /\ log' = log /\ pc[p] = "spool"
      BY <2>4 DEF WriteTemp, LeaveSpool
    <3>2. /\ draft[p].stamp <= clock /\ draft[p].stamp \in Nat
          /\ \A r \in Held : r.stamp <= draft[p].stamp
      BY <1>0, <1>3, <3>1 DEF LatestInv, Spooling, TypeInv, Records
    <3>3. \A r \in Held' : r \in Held \/ r = draft[p]
      BY <1>0, <3>1, HeldStep
    <3> QED BY <1>1, <3>1, <3>2, <3>3
  <2>5. ~AppendUncertain(p) /\ ~AppendNotCommitted(p) /\ ~StampFallback(p) /\ ~WriteTemp(p) => FALSE
    BY <1>0, <1>3 DEF Spooling, Step, Failure, AcquirePathLock, PathLockFails, OpenQueue,
       QueueFails, ReplayAppend, RemoveReplayed, MarkIndeterminate, CloseQueue, AppendCommitted,
       Mutate, SpoolFails, CommitSpool, Crash, AbandonQueue, GiveUpQueue, LeaveSpool, Return, Goto
  <2> QED BY <2>1, <2>2, <2>3, <2>4, <2>5
<1> QED BY <1>2, <1>3 DEF LatestInv

\* What is logged stays older than what is spooled: replay takes the head of the queue, and
\* an own record is appended only when nothing but late outcomes is left.
LEMMA LogFirstStep ==
    ASSUME OrderInv, NEW p \in Procs, Step(p) \/ Mutate(p) \/ Failure(p)
    PROVE  LogFirst'
<1>0. TypeInv /\ SeqUnique /\ OwnLate /\ LatestInv /\ LogFirst /\ QueueStamps
  BY DEF OrderInv, StampInv, SafetyInv, EvidenceInv, DeliveryInv
<1>1. SUFFICES ASSUME NEW r \in LogSet', NEW e \in spool', ~r.late, ~e.rec.late
               PROVE  r.stamp <= e.rec.stamp
  BY DEF LogFirst
<1>2. CASE WriteTemp(p) /\ e.rec = draft[p]
  <2>1. log' = log /\ pc[p] = "spool"
    BY <1>2 DEF WriteTemp, LeaveSpool
  <2>2. r \in Held
    BY <1>1, <2>1 DEF LogSet, Held
  <2> QED BY <1>0, <1>1, <1>2, <2>1, <2>2 DEF LatestInv, Spooling
<1>3. ASSUME NEW f \in spool, f.seq = e.seq, f.rec = e.rec
      PROVE  r.stamp <= f.rec.stamp
  <2>1. CASE log' = log
    BY <1>0, <1>1, <1>3, <2>1 DEF LogSet, LogFirst
  <2>2. CASE \E h \in spool : NextInQueue(h) /\ log' = Append(log, h.rec)
    <3>1. PICK h \in spool : NextInQueue(h) /\ log' = Append(log, h.rec)
      BY <2>2
    <3>2. h.rec \in Records /\ h.rec.stamp \in Nat /\ h.seq \in Nat /\ f.seq \in Nat
      BY <1>0, StampTypes DEF Spooled, Entries
    <3>3. LogSet' = LogSet \cup {h.rec}
      BY <1>0, <3>1, <3>2, LogSetGrows
    <3>4. h = f \/ h.seq < f.seq
      BY <1>0, <3>1, <3>2 DEF NextInQueue, SeqUnique
    <3>5. CASE r \in LogSet
      BY <1>0, <1>1, <1>3, <3>5 DEF LogFirst
    <3>6. CASE r = h.rec
      BY <1>0, <1>1, <1>3, <3>2, <3>4, <3>6 DEF QueueStamps
    <3> QED BY <3>3, <3>5, <3>6
  <2>3. CASE pc[p] = "own"
    BY <1>0, <1>1, <1>3, <2>3 DEF OwnLate
  <2> QED BY <1>0, <2>1, <2>2, <2>3, RecordOrigin
<1> QED BY <1>0, <1>2, <1>3, EntryOrigin

LEMMA QueueStampsStep ==
    ASSUME OrderInv, NEW p \in Procs, Step(p) \/ Mutate(p) \/ Failure(p)
    PROVE  QueueStamps'
<1>0. TypeInv /\ LatestInv /\ QueueStamps
  BY DEF OrderInv, StampInv, SafetyInv, EvidenceInv, DeliveryInv
<1>1. SUFFICES ASSUME NEW e \in spool', NEW f \in spool', ~e.rec.late, ~f.rec.late,
                      e.seq < f.seq
               PROVE  e.rec.stamp <= f.rec.stamp
  BY DEF QueueStamps
<1>2. CASE WriteTemp(p) /\ f.rec = draft[p]
  <2>1. pc[p] = "spool" /\ draft[p].stamp \in Nat
    BY <1>0, <1>2 DEF WriteTemp, TypeInv, Records
  <2>2. CASE \E h \in spool : h.seq = e.seq /\ h.rec = e.rec
    <3>1. e.rec \in Held
      BY <1>1, <2>2 DEF Held, Spooled
    <3> QED BY <1>0, <1>1, <1>2, <2>1, <3>1 DEF LatestInv, Spooling
  <2>3. CASE e.rec = draft[p]
    BY <1>2, <2>1, <2>3
  <2> QED BY <1>0, <2>2, <2>3, EntryOrigin
<1>3. ASSUME NEW g \in spool, g.seq = f.seq, g.rec = f.rec
      PROVE  e.rec.stamp <= f.rec.stamp
  <2>1. CASE \E h \in spool : h.seq = e.seq /\ h.rec = e.rec
    BY <1>0, <1>1, <1>3, <2>1 DEF QueueStamps
  <2>2. CASE \A h \in spool : h.seq < e.seq
    <3>1. spool' \subseteq Entries
      BY <1>0, TypeStep DEF Next, TypeInv, TypeOK
    <3>2. e.seq \in Nat /\ f.seq \in Nat
      BY <3>1 DEF Entries
    <3> QED BY <1>1, <1>3, <2>2, <3>2
  <2> QED BY <1>0, <2>1, <2>2, EntryOrigin
<1> QED BY <1>0, <1>2, <1>3, EntryOrigin

LEMMA StampOrderStep ==
    ASSUME OrderInv, NEW p \in Procs, Step(p) \/ Mutate(p) \/ Failure(p)
    PROVE  StampOrder'
<1>0. TypeInv /\ PastInv /\ LogFirst /\ StampOrder
  BY DEF OrderInv, StampInv, SafetyInv, EvidenceInv, DeliveryInv
<1>1. CASE log' = log
  BY <1>0, <1>1 DEF StampOrder
<1>2. ASSUME NEW r \in Records, log' = Append(log, r),
             ~r.late => \A i \in DOMAIN log : ~log[i].late => log[i].stamp <= r.stamp
      PROVE  StampOrder'
  <2>1. /\ Len(log) \in Nat /\ DOMAIN log = 1..Len(log)
        /\ DOMAIN log' = 1..(Len(log) + 1)
        /\ \A i \in DOMAIN log : log'[i] = log[i]
        /\ log'[Len(log) + 1] = r
    BY <1>0, <1>2, StampTypes, AppendKeeps
  <2>2. SUFFICES ASSUME NEW i \in DOMAIN log', NEW j \in DOMAIN log', i < j,
                        ~log'[i].late, ~log'[j].late
                 PROVE  log'[i].stamp <= log'[j].stamp
    BY DEF StampOrder
  <2>3. i \in DOMAIN log
    BY <2>1, <2>2
  <2>4. CASE j \in DOMAIN log
    BY <1>0, <2>1, <2>2, <2>3, <2>4 DEF StampOrder
  <2>5. CASE j = Len(log) + 1
    BY <1>2, <2>1, <2>2, <2>3, <2>5
  <2> QED BY <2>1, <2>4, <2>5
<1>3. ASSUME NEW e \in spool, log' = Append(log, e.rec) PROVE StampOrder'
  <2>1. \A i \in DOMAIN log : ~log[i].late /\ ~e.rec.late => log[i].stamp <= e.rec.stamp
    BY <1>0 DEF LogFirst, LogSet
  <2>2. e.rec \in Records
    BY <1>0, StampTypes DEF Spooled
  <2> QED BY <1>2, <1>3, <2>1, <2>2
<1>4. CASE log' = Append(log, Own(p, clock + 1))
  <2>1. Own(p, clock + 1) \in Records /\ Own(p, clock + 1).stamp = clock + 1 /\ clock \in Nat
    BY <1>0, StampTypes, OwnIsRecord, OwnStamp
  <2>2. \A i \in DOMAIN log : ~log[i].late => log[i] \in Held /\ log[i].stamp \in Nat
    BY <1>0, StampTypes DEF Held, LogSet
  <2>3. \A i \in DOMAIN log : ~log[i].late => log[i].stamp <= clock + 1
    BY <1>0, <2>1, <2>2 DEF PastInv
  <2> QED BY <1>2, <1>4, <2>1, <2>3
<1> QED BY <1>0, <1>1, <1>3, <1>4, RecordOrigin

LEMMA PastStep ==
    ASSUME OrderInv, NEW p \in Procs, Step(p) \/ Mutate(p) \/ Failure(p)
    PROVE  PastInv'
<1>0. TypeInv /\ PastInv /\ LatestInv /\ InsideInv
  BY DEF OrderInv, StampInv, SafetyInv, EvidenceInv, DeliveryInv
<1>1. clock \in Nat /\ clock' \in Nat /\ clock <= clock'
  BY <1>0, StampTypes, ClockGrows
<1>2. ASSUME NEW r \in Held' PROVE r.stamp <= clock'
  <2>1. CASE r \in Held
    BY <1>0, <1>1, <2>1, StampTypes DEF Held, PastInv
  <2>2. CASE r.stamp = clock + 1 /\ clock' \in {clock + 1, clock + 2}
    BY <1>1, <2>2
  <2>3. CASE WriteTemp(p) /\ r = draft[p]
    <3>1. pc[p] = "spool" /\ ~draft[p].late /\ clock' = clock
      BY <1>2, <2>3 DEF Held, WriteTemp, LeaveSpool
    <3> QED BY <1>0, <2>3, <3>1 DEF LatestInv, Spooling
  <2> QED BY <1>0, <2>1, <2>2, <2>3, HeldStep
<1> QED BY <1>2 DEF PastInv

-----------------------------------------------------------------------------
LEMMA OrderInit == Init => OrderInv
<1> SUFFICES ASSUME Init PROVE OrderInv
  OBVIOUS
<1>1. SafetyInv
  BY SafetyInit
<1> QED BY <1>1 DEF Init, OrderInv, InsideInv, OwnLate, StampInv, PastInv, LatestInv, LogFirst,
           QueueStamps, StampOrder, Held, LogSet, Spooled, Spooling

LEMMA OrderStep == OrderInv /\ [Next]_vars => OrderInv'
<1> SUFFICES ASSUME OrderInv, [Next]_vars PROVE OrderInv'
  OBVIOUS
<1>1. SafetyInv'
  BY SafetyStep DEF OrderInv
<1>2. ASSUME NEW p \in Procs, Step(p) \/ Mutate(p) \/ Failure(p)
      PROVE  InsideInv' /\ OwnLate' /\ StampInv'
  <2>1. TypeInv /\ PathInv /\ InsideInv
    BY DEF OrderInv, SafetyInv, EvidenceInv, DeliveryInv
  <2>2. PastInv' /\ LatestInv'
    BY <1>2, PastStep, LatestStep
  <2>3. LogFirst' /\ QueueStamps' /\ StampOrder'
    BY <1>2, LogFirstStep, QueueStampsStep, StampOrderStep
  <2>4. InsideInv' /\ OwnLate'
    BY <1>2, <2>1, InsideStep, OwnLateStep
  <2> QED BY <2>2, <2>3, <2>4 DEF StampInv
<1>3. CASE UNCHANGED vars
  BY <1>1, <1>3 DEF vars, OrderInv, InsideInv, OwnLate, StampInv, PastInv, LatestInv, LogFirst,
     QueueStamps, StampOrder, Held, LogSet, Spooled
<1> QED BY <1>1, <1>2, <1>3 DEF Next, AllExited, OrderInv

\* Whatever is stamped under the append-order lock stands in the log in the order of its
\* stamps, for any number of invocations, failures and clock readings of the spool.
THEOREM StampsInOrder == Spec => []StampOrder
<1>1. OrderInv => StampOrder
  BY DEF OrderInv, StampInv
<1> QED BY <1>1, OrderInit, OrderStep, PTL DEF Spec

\* Nothing an invocation appends in its own name overtakes an outcome that was spooled
\* under the append-order lock.
THEOREM NothingOvertakes == Spec => QueueDrainedFirst
<1> DEFINE Behind ==
      \A p \in Procs : pc[p] = "own" /\ log' # log =>
          \A e \in spool : e.state = "pending" => e.rec.late
<1>1. Spec => []OrderInv
  BY OrderInit, OrderStep, PTL DEF Spec
<1>2. OrderInv /\ [Next]_vars => [Behind]_vars
  BY DEF OrderInv, OwnLate
<1> QED BY <1>1, <1>2, PTL DEF Spec, QueueDrainedFirst

-----------------------------------------------------------------------------
(* The queue of outcomes proved first in, first out, and its at-least-once  *)
(* replay easy to deduplicate.                                              *)

\* The temporary file of a live process is the last entry of the queue.
TempLast ==
    \A p \in Procs : pc[p] = "temp" =>
        \A e \in TempOf(p) : \A f \in spool : f # e => f.seq < e.seq

\* Only an invocation that has ended has an outcome in the queue.
QueuedEnded ==
    \A a \in DOMAIN queued : \E p \in Procs : IsOutcomeOf(queued[a], p) /\ Exited(p)

\* Every entry was queued, and entries are numbered in the order they were queued in.
SpoolQueued ==
    \A e \in spool : e.state # "temp" => \E a \in DOMAIN queued : e.rec = queued[a]

SpoolInOrder ==
    \A e, f \in spool : \A a, b \in DOMAIN queued :
        /\ e.state # "temp" /\ f.state # "temp" /\ a < b
        /\ e.rec = queued[a] /\ f.rec = queued[b]
        => e.seq < f.seq

QueuedKept == \A a \in DOMAIN queued : queued[a] \in LogSet \cup Kept

QueueInv ==
    /\ OrderInv
    /\ TempLast
    /\ QueuedEnded
    /\ SpoolQueued
    /\ SpoolInOrder
    /\ QueuedKept
    /\ ReplayInQueueOrder

\* What is in the log and still queued is the last record of the log.
RetryLast ==
    \A e \in spool : e.state # "temp" /\ e.rec \in LogSet => log[Len(log)] = e.rec

\* Whoever appends in its own name left nothing queued that is already in the log.
OwnFresh ==
    \A p \in Procs : pc[p] = "own" =>
        \A e \in spool : e.state # "temp" => e.rec \notin LogSet

DuplicateInv ==
    /\ QueueInv
    /\ RetryLast
    /\ OwnFresh
    /\ DuplicatesAdjacent

-----------------------------------------------------------------------------
LEMMA LoggedSet == \A r : Logged(r) <=> r \in LogSet
BY DEF Logged, LogSet

\* A queued entry was queued before, or is the temporary file that is renamed.
LEMMA QueuedOrigin ==
    ASSUME EvidenceInv, NEW p \in Procs, Step(p) \/ Mutate(p) \/ Failure(p),
           NEW e \in spool', e.state # "temp"
    PROVE  \/ \E f \in spool : f.seq = e.seq /\ f.rec = e.rec /\ f.state # "temp"
           \/ /\ CommitSpool(p) /\ e.rec = draft[p]
              /\ \E f \in TempOf(p) : f.seq = e.seq
<1>0. spool \subseteq Entries
  BY DEF EvidenceInv, DeliveryInv, TypeInv, TypeOK
<1>1. CASE spool' = spool \/ RemoveReplayed(p) \/ SpoolFails(p)
  BY <1>1 DEF RemoveReplayed, SpoolFails
<1>2. CASE MarkIndeterminate(p)
  <2>1. PICK f \in spool :
          spool' \in {spool, (spool \ {f}) \cup {[f EXCEPT !.state = "indeterminate"]}}
    BY <1>2 DEF MarkIndeterminate
  <2>2. /\ [f EXCEPT !.state = "indeterminate"].seq = f.seq
        /\ [f EXCEPT !.state = "indeterminate"].rec = f.rec
    BY <1>0 DEF Entries
  <2>3. f.state = "pending"
    BY <1>2 DEF EvidenceInv, QueueClean, Replaying, MarkIndeterminate
  <2> QED BY <2>1, <2>2, <2>3
<1>3. CASE WriteTemp(p)
  BY <1>3 DEF WriteTemp
<1>4. CASE CommitSpool(p)
  <2>1. spool' = (spool \ TempOf(p)) \cup {[f EXCEPT !.state = "pending"] : f \in TempOf(p)}
    BY <1>4 DEF CommitSpool
  <2>2. \A f \in TempOf(p) : /\ f.rec = draft[p]
                             /\ [f EXCEPT !.state = "pending"].seq = f.seq
                             /\ [f EXCEPT !.state = "pending"].rec = f.rec
    BY <1>0 DEF TempOf, Entries
  <2> QED BY <1>4, <2>1, <2>2
<1> QED BY <1>1, <1>2, <1>3, <1>4, SpoolChanges

\* A step queues at most the draft of the process that makes it, which nobody answered for.
LEMMA QueuedGrows ==
    ASSUME EvidenceInv, NEW p \in Procs, Step(p) \/ Mutate(p) \/ Failure(p)
    PROVE  \/ queued' = queued /\ ~CommitSpool(p)
           \/ /\ CommitSpool(p) /\ log' = log
              /\ IsOutcomeOf(draft[p], p) /\ ~Exited(p) /\ Exited(p)'
              /\ draft[p] \notin LogSet \cup Kept
              /\ DOMAIN queued = 1..Len(queued) /\ Len(queued) \in Nat
              /\ DOMAIN queued' = 1..(Len(queued) + 1)
              /\ \A a \in DOMAIN queued : queued'[a] = queued[a]
              /\ queued'[Len(queued) + 1] = draft[p]
<1>0. TypeInv /\ queued \in Seq(Records) /\ pc \in [Procs -> Control]
  BY DEF EvidenceInv, DeliveryInv, TypeInv, TypeOK
<1>1. CASE CommitSpool(p)
  <2>1. pc[p] = "temp" /\ queued' = Append(queued, draft[p]) /\ log' = log /\ Exited(p)'
    BY <1>0, <1>1 DEF CommitSpool, LeaveSpool, Return, Goto, Exited
  <2>2. IsOutcomeOf(draft[p], p) /\ draft[p] \in Records /\ ~Exited(p)
    BY <1>0, <2>1 DEF EvidenceInv, DeliveryInv, DraftInv, TypeInv, Exited
  <2>3. draft[p] \notin LogSet \cup Kept
    BY <2>2, HasOutcomeSets DEF EvidenceInv, FreshInv
  <2> QED BY <1>0, <1>1, <2>1, <2>2, <2>3, AppendKeeps
<1>2. CASE ~CommitSpool(p)
  <2>1. queued' = queued
    BY <1>2 DEF Step, Failure, AcquirePathLock, PathLockFails, OpenQueue, QueueFails,
       ReplayAppend, RemoveReplayed, MarkIndeterminate, CloseQueue, AppendCommitted,
       AppendUncertain, AppendNotCommitted, Mutate, StampFallback, WriteTemp, SpoolFails,
       Crash, AbandonQueue
  <2> QED BY <1>2, <2>1
<1> QED BY <1>1, <1>2

\* No record is forgotten.
LEMMA KeptStays ==
    ASSUME EvidenceInv, NEW p \in Procs, Step(p) \/ Mutate(p) \/ Failure(p)
    PROVE  LogSet \cup Kept \subseteq LogSet' \cup Kept'
<1>1. CASE AppendCommitted(p) \/ AppendUncertain(p)
  BY <1>1, OwnAppend
<1>2. CASE CommitSpool(p)
  BY <1>2, CommitKept
<1>3. CASE ReplayAppend(p)
  BY <1>3, ReplayKept
<1>4. CASE RemoveReplayed(p)
  BY <1>4, RemoveKept
<1> QED BY <1>1, <1>2, <1>3, <1>4, OthersKept

LEMMA TempLastStep ==
    ASSUME TypeInv, LockInv, TempLast, NEW p \in Procs, Step(p) \/ Mutate(p) \/ Failure(p)
    PROVE  TempLast'
<1>0. spool \subseteq Entries /\ pc \in [Procs -> Control]
  BY DEF TypeInv, TypeOK
<1>1. ASSUME NEW q \in Procs, q # p, pc'[q] = "temp",
             NEW e \in TempOf(q)', NEW f \in spool', f # e
      PROVE  f.seq < e.seq
  <2>1. pc[q] = "temp" /\ spool' = spool /\ draft'[q] = draft[q]
    BY <1>1, OtherQuiet DEF HoldsSpoolLock
  <2> QED BY <1>1, <2>1 DEF TempLast, TempOf
<1>2. ASSUME pc'[p] = "temp", NEW e \in TempOf(p)', NEW f \in spool', f # e
      PROVE  f.seq < e.seq
  <2>1. WriteTemp(p) /\ SequenceAvailable
    BY <1>0, <1>2 DEF Step, Failure, AcquirePathLock, PathLockFails, OpenQueue, QueueFails,
       ReplayAppend, RemoveReplayed, MarkIndeterminate, CloseQueue, AppendCommitted,
       AppendUncertain, AppendNotCommitted, Mutate, StampFallback, WriteTemp, SpoolFails,
       CommitSpool, Crash, AbandonQueue, GiveUpQueue, LeaveSpool, Return, Goto,
       ReportUncertain, RefuseIntent
  <2>2. PICK now \in 0..MaxSeq :
          spool' = spool \cup {[seq |-> NextSequence(now), rec |-> draft[p], state |-> "temp"]}
    BY <2>1 DEF WriteTemp
  <2>3. \A g \in spool : g.seq < NextSequence(now) /\ g.state # "temp"
    BY <1>0, <2>1, NextSequenceInRange DEF SequenceAvailable
  <2>4. e = [seq |-> NextSequence(now), rec |-> draft[p], state |-> "temp"]
    BY <1>2, <2>2, <2>3 DEF TempOf
  <2> QED BY <1>2, <2>2, <2>3, <2>4
<1> QED BY <1>1, <1>2 DEF TempLast

LEMMA QueuedStep ==
    ASSUME QueueInv, NEW p \in Procs, Step(p) \/ Mutate(p) \/ Failure(p)
    PROVE  QueuedEnded' /\ SpoolQueued' /\ QueuedKept'
<1>0. EvidenceInv /\ TypeInv /\ LockInv
  BY DEF QueueInv, OrderInv, SafetyInv, EvidenceInv, DeliveryInv
<1>1. QueuedEnded'
  <2>1. \A q \in Procs : Exited(q) => Exited(q)'
    BY <1>0, ExitedStays
  <2>2. CASE queued' = queued
    BY <2>1, <2>2 DEF QueueInv, QueuedEnded
  <2>3. CASE queued' # queued
    BY <1>0, <2>1, <2>3, QueuedGrows DEF QueueInv, QueuedEnded
  <2> QED BY <2>2, <2>3
<1>2. SpoolQueued'
  <2> SUFFICES ASSUME NEW e \in spool', e.state # "temp"
               PROVE  \E a \in DOMAIN queued' : e.rec = queued'[a]
    BY DEF SpoolQueued
  <2>1. CASE \E f \in spool : f.seq = e.seq /\ f.rec = e.rec /\ f.state # "temp"
    <3>1. PICK a \in DOMAIN queued : e.rec = queued[a]
      BY <2>1 DEF QueueInv, SpoolQueued
    <3>2. a \in DOMAIN queued' /\ queued'[a] = queued[a]
      BY <1>0, QueuedGrows
    <3> QED BY <3>1, <3>2
  <2>2. CASE CommitSpool(p) /\ e.rec = draft[p]
    <3>1. Len(queued) + 1 \in DOMAIN queued' /\ queued'[Len(queued) + 1] = draft[p]
      BY <1>0, <2>2, QueuedGrows
    <3> QED BY <2>2, <3>1
  <2> QED BY <1>0, <2>1, <2>2, QueuedOrigin
<1>3. QueuedKept'
  <2> SUFFICES ASSUME NEW a \in DOMAIN queued' PROVE queued'[a] \in LogSet' \cup Kept'
    BY DEF QueuedKept
  <2>1. CASE a \in DOMAIN queued /\ queued'[a] = queued[a]
    BY <1>0, <2>1, KeptStays DEF QueueInv, QueuedKept
  <2>2. CASE CommitSpool(p) /\ queued'[a] = draft[p]
    BY <1>0, <2>2, CommitKept
  <2> QED BY <1>0, <2>1, <2>2, QueuedGrows
<1> QED BY <1>1, <1>2, <1>3

LEMMA SpoolInOrderStep ==
    ASSUME QueueInv, NEW p \in Procs, Step(p) \/ Mutate(p) \/ Failure(p)
    PROVE  SpoolInOrder'
<1>0. EvidenceInv /\ TypeInv
  BY DEF QueueInv, OrderInv, SafetyInv, EvidenceInv, DeliveryInv
<1> SUFFICES ASSUME NEW e \in spool', NEW f \in spool', e.state # "temp", f.state # "temp",
                    NEW a \in DOMAIN queued', NEW b \in DOMAIN queued', a < b,
                    e.rec = queued'[a], f.rec = queued'[b]
             PROVE  e.seq < f.seq
  BY DEF SpoolInOrder
<1>1. CASE queued' = queued /\ ~CommitSpool(p)
  BY <1>0, <1>1, QueuedOrigin DEF QueueInv, SpoolInOrder
<1>2. CASE CommitSpool(p)
  <2>1. /\ IsOutcomeOf(draft[p], p) /\ ~Exited(p) /\ draft[p] \notin Kept
        /\ DOMAIN queued = 1..Len(queued) /\ Len(queued) \in Nat
        /\ DOMAIN queued' = 1..(Len(queued) + 1)
        /\ \A i \in DOMAIN queued : queued'[i] = queued[i]
        /\ queued'[Len(queued) + 1] = draft[p]
    BY <1>0, <1>2, QueuedGrows
  <2>2. \A i \in DOMAIN queued : queued[i] # draft[p]
    BY <2>1 DEF QueueInv, QueuedEnded, IsOutcomeOf
  <2>3. a \in DOMAIN queued
    BY <2>1
  <2>4. PICK g \in spool : g.seq = e.seq /\ g.rec = e.rec /\ g.state # "temp"
    BY <1>0, <2>1, <2>2, <2>3, QueuedOrigin
  <2>5. CASE b \in DOMAIN queued
    <3>1. PICK h \in spool : h.seq = f.seq /\ h.rec = f.rec /\ h.state # "temp"
      BY <1>0, <2>1, <2>2, <2>5, QueuedOrigin
    <3> QED BY <2>1, <2>3, <2>4, <2>5, <3>1 DEF QueueInv, SpoolInOrder
  <2>6. CASE b = Len(queued) + 1
    <3>1. \A h \in spool : h.state # "temp" => h.rec # draft[p]
      BY <2>1 DEF Kept
    <3>2. PICK h \in TempOf(p) : h.seq = f.seq
      BY <1>0, <2>1, <2>6, <3>1, QueuedOrigin
    <3>3. h # g /\ pc[p] = "temp"
      BY <1>2, <2>4, <3>2 DEF TempOf, CommitSpool
    <3> QED BY <2>4, <3>2, <3>3 DEF QueueInv, TempLast
  <2> QED BY <2>1, <2>5, <2>6
<1> QED BY <1>0, <1>1, <1>2, QueuedGrows

LEMMA ReplayOrderStep ==
    ASSUME QueueInv, NEW p \in Procs, Step(p) \/ Mutate(p) \/ Failure(p)
    PROVE  ReplayInQueueOrder'
<1>0. EvidenceInv /\ TypeInv /\ [Next]_vars
  BY DEF QueueInv, OrderInv, SafetyInv, EvidenceInv, DeliveryInv, Next
<1> SUFFICES ASSUME NEW a \in DOMAIN queued', NEW b \in DOMAIN queued', a < b,
                    queued'[b] \in LogSet'
             PROVE  /\ ~InSpool(queued[a])'
                    /\ \E i, j \in DOMAIN log' : i < j /\ log'[i] = queued'[a] /\ log'[j] = queued'[b]
  BY DEF ReplayInQueueOrder, Logged, LogSet
<1>1. /\ a \in DOMAIN queued /\ b \in DOMAIN queued
      /\ queued'[a] = queued[a] /\ queued'[b] = queued[b]
  <2>1. CASE queued' = queued
    BY <2>1
  <2>2. CASE queued' # queued
    <3>1. /\ log' = log /\ draft[p] \notin LogSet
          /\ DOMAIN queued = 1..Len(queued) /\ Len(queued) \in Nat
          /\ DOMAIN queued' = 1..(Len(queued) + 1)
          /\ \A i \in DOMAIN queued : queued'[i] = queued[i]
          /\ queued'[Len(queued) + 1] = draft[p]
      BY <1>0, <2>2, QueuedGrows
    <3>2. LogSet' = LogSet
      BY <3>1 DEF LogSet
    <3>3. b # Len(queued) + 1
      BY <3>1, <3>2
    <3> QED BY <3>1, <3>3
  <2> QED BY <2>1, <2>2
<1>2. PICK q \in Procs, s \in Procs : /\ IsOutcomeOf(queued[a], q) /\ Exited(q)
                                      /\ IsOutcomeOf(queued[b], s) /\ Exited(s)
  BY <1>1 DEF QueueInv, QueuedEnded
<1>3. ~InSpool(queued[a]) => ~InSpool(queued[a])'
  <2> SUFFICES ASSUME NEW e \in spool', e.rec = queued'[a], e.state # "temp"
               PROVE  InSpool(queued[a])
    BY DEF InSpool
  <2>1. CASE \E f \in spool : f.rec = e.rec /\ f.state # "temp"
    BY <1>1, <2>1 DEF InSpool
  <2>2. CASE CommitSpool(p) /\ e.rec = draft[p]
    BY <1>0, <1>1, <1>2, <2>2, QueuedGrows DEF IsOutcomeOf
  <2> QED BY <1>0, <2>1, <2>2, QueuedOrigin
<1>4. CASE queued[b] \in LogSet
  <2>1. /\ ~InSpool(queued[a])
        /\ \E i, j \in DOMAIN log : i < j /\ log[i] = queued[a] /\ log[j] = queued[b]
    BY <1>1, <1>4, LoggedSet DEF QueueInv, ReplayInQueueOrder
  <2> QED BY <1>0, <1>1, <1>3, <2>1, LoggedStays
<1>5. CASE queued[b] \notin LogSet
  <2>1. log' # log
    BY <1>1, <1>5 DEF LogSet
  <2>2. CASE pc[p] = "own" /\ log' = Append(log, Own(p, clock + 1))
    <3>1. Own(p, clock + 1) \in Records /\ Own(p, clock + 1).mid = p /\ ~Exited(p)
      BY <1>0, <2>2, StampTypes, OwnIsRecord DEF Own, Intent, Outcome, Record, Exited
    <3>2. LogSet' = LogSet \cup {Own(p, clock + 1)}
      BY <1>0, <2>2, <3>1, LogSetGrows
    <3> QED BY <1>1, <1>2, <1>5, <3>1, <3>2 DEF IsOutcomeOf
  <2>3. CASE /\ ReplayAppend(p) /\ spool' = spool
             /\ \E e \in spool : NextInQueue(e) /\ log' = Append(log, e.rec)
    <3>1. PICK e \in spool : NextInQueue(e) /\ log' = Append(log, e.rec)
      BY <2>3
    <3>2. /\ e.rec \in Records /\ log \in Seq(Records)
          /\ \A f \in spool : f.seq \in Nat /\ f.state = "pending"
      BY <1>0, <2>3, StampTypes DEF Spooled, Entries, EvidenceInv, QueueClean, Replaying,
                                    ReplayAppend
    <3>3. e.rec = queued[b]
      BY <1>0, <1>1, <1>5, <3>1, <3>2, LogSetGrows
    <3>4. ~InSpool(queued[a])
      <4> SUFFICES ASSUME NEW f \in spool, f.rec = queued[a], f.state # "temp" PROVE FALSE
        BY DEF InSpool
      <4>1. f.seq < e.seq
        BY <1>1, <3>2, <3>3 DEF QueueInv, SpoolInOrder
      <4>2. e.seq <= f.seq
        BY <3>1 DEF NextInQueue
      <4> QED BY <3>2, <4>1, <4>2
    <3>5. queued[a] \in LogSet
      BY <1>1, <3>4 DEF QueueInv, QueuedKept, Kept, InSpool
    <3>6. PICK i \in DOMAIN log : log[i] = queued[a]
      BY <3>5 DEF LogSet
    <3>7. /\ i \in DOMAIN log' /\ log'[i] = queued[a] /\ i < Len(log) + 1
          /\ Len(log) + 1 \in DOMAIN log' /\ log'[Len(log) + 1] = queued[b]
      BY <3>1, <3>2, <3>3, <3>6, AppendKeeps
    <3> QED BY <1>1, <1>3, <3>4, <3>7
  <2> QED BY <1>0, <2>1, <2>2, <2>3, RecordOrigin
<1> QED BY <1>4, <1>5

LEMMA QueueInit == Init => QueueInv
<1> SUFFICES ASSUME Init PROVE QueueInv
  OBVIOUS
<1>1. OrderInv
  BY OrderInit
<1> QED BY <1>1 DEF Init, QueueInv, TempLast, TempOf, QueuedEnded, SpoolQueued, SpoolInOrder,
           QueuedKept, ReplayInQueueOrder

LEMMA QueueStep == QueueInv /\ [Next]_vars => QueueInv'
<1> SUFFICES ASSUME QueueInv, [Next]_vars PROVE QueueInv'
  OBVIOUS
<1>1. OrderInv'
  BY OrderStep DEF QueueInv
<1>2. ASSUME NEW p \in Procs, Step(p) \/ Mutate(p) \/ Failure(p)
      PROVE  TempLast' /\ QueuedEnded' /\ SpoolQueued' /\ SpoolInOrder' /\ QueuedKept'
               /\ ReplayInQueueOrder'
  <2>1. TempLast'
    BY <1>2, TempLastStep DEF QueueInv, OrderInv, SafetyInv, EvidenceInv, DeliveryInv
  <2> QED BY <1>2, <2>1, QueuedStep, SpoolInOrderStep, ReplayOrderStep
<1>3. CASE UNCHANGED vars
  BY <1>1, <1>3 DEF vars, QueueInv, TempLast, TempOf, QueuedEnded, Exited, SpoolQueued,
     SpoolInOrder, QueuedKept, LogSet, Kept, ReplayInQueueOrder, Logged, InSpool
<1> QED BY <1>1, <1>2, <1>3 DEF Next, AllExited, QueueInv

\* Queued outcomes reach the log in the order they were queued in, whatever the clock says
\* and however often replay fails or is killed: first in, first out.
THEOREM ReplayedInOrder == Spec => []ReplayInQueueOrder
<1>1. QueueInv => ReplayInQueueOrder
  BY DEF QueueInv
<1> QED BY <1>1, QueueInit, QueueStep, PTL DEF Spec

-----------------------------------------------------------------------------
(* Duplicates. *)

\* What an append in a process's own name adds is not in the log and not queued.
LEMMA OwnIsNew ==
    ASSUME QueueInv, NEW p \in Procs, pc[p] = "own"
    PROVE  /\ Own(p, clock + 1) \in Records
           /\ Own(p, clock + 1) \notin LogSet
           /\ \A a \in DOMAIN queued : queued[a] # Own(p, clock + 1)
<1>0. TypeInv /\ PastInv
  BY DEF QueueInv, OrderInv, StampInv, SafetyInv, EvidenceInv, DeliveryInv
<1>1. /\ clock \in Nat /\ Own(p, clock + 1) \in Records
      /\ Own(p, clock + 1).stamp = clock + 1 /\ ~Own(p, clock + 1).late
      /\ Own(p, clock + 1).mid = p
  BY <1>0, StampTypes, OwnIsRecord, OwnStamp DEF Own, Intent, Outcome, Record
<1>2. Own(p, clock + 1) \notin LogSet
  BY <1>0, <1>1 DEF PastInv, Held
<1> QED BY <1>1, <1>2 DEF QueueInv, QueuedEnded, IsOutcomeOf, Exited

LEMMA OwnFreshStep ==
    ASSUME DuplicateInv, NEW p \in Procs, Step(p) \/ Mutate(p) \/ Failure(p)
    PROVE  OwnFresh'
<1>0. EvidenceInv /\ TypeInv /\ LockInv /\ PathInv /\ OwnFresh
  BY DEF DuplicateInv, QueueInv, OrderInv, SafetyInv, EvidenceInv, DeliveryInv
<1>1. ASSUME NEW q \in Procs, q # p, pc'[q] = "own", NEW e \in spool', e.state # "temp"
      PROVE  e.rec \notin LogSet'
  <2>1. pc[q] = "own" /\ pathLock = q
    BY <1>0, <1>1, OtherQuiet DEF PathInv, HoldsPathLock
  <2>2. log' = log
    BY <1>0, <1>1, <2>1, RecordOrigin DEF PathInv, HoldsPathLock, ReplayAppend
  <2>3. LogSet' = LogSet
    BY <2>2 DEF LogSet
  <2>4. CASE \E f \in spool : f.rec = e.rec /\ f.state # "temp"
    BY <1>0, <2>1, <2>3, <2>4 DEF OwnFresh
  <2>5. CASE CommitSpool(p) /\ e.rec = draft[p]
    BY <1>0, <2>3, <2>5, QueuedGrows
  <2> QED BY <1>0, <1>1, <2>4, <2>5, QueuedOrigin
<1>2. pc'[p] = "own" => spool' = {}
  BY <1>0, OwnEmpty
<1> QED BY <1>1, <1>2 DEF OwnFresh

LEMMA RetryLastStep ==
    ASSUME DuplicateInv, NEW p \in Procs, Step(p) \/ Mutate(p) \/ Failure(p)
    PROVE  RetryLast'
<1>0. EvidenceInv /\ TypeInv /\ QueueInv /\ RetryLast /\ log \in Seq(Records)
  BY DEF DuplicateInv, QueueInv, OrderInv, SafetyInv, EvidenceInv, DeliveryInv, TypeInv, TypeOK
<1> SUFFICES ASSUME NEW e \in spool', e.state # "temp", e.rec \in LogSet'
             PROVE  log'[Len(log')] = e.rec
  BY DEF RetryLast
<1>1. CASE log' = log
  <2>1. LogSet' = LogSet
    BY <1>1 DEF LogSet
  <2>2. CASE \E f \in spool : f.rec = e.rec /\ f.state # "temp"
    BY <1>0, <1>1, <2>1, <2>2 DEF RetryLast
  <2>3. CASE CommitSpool(p) /\ e.rec = draft[p]
    BY <1>0, <2>1, <2>3, QueuedGrows
  <2> QED BY <1>0, <2>2, <2>3, QueuedOrigin
<1>2. CASE /\ ReplayAppend(p) /\ spool' = spool
           /\ \E h \in spool : NextInQueue(h) /\ log' = Append(log, h.rec)
  <2>1. PICK h \in spool : NextInQueue(h) /\ log' = Append(log, h.rec)
    BY <1>2
  <2>2. /\ h.rec \in Records /\ e \in spool
        /\ \A f \in spool : f.seq \in Nat /\ f.state = "pending"
    BY <1>0, <1>2, StampTypes DEF Spooled, Entries, EvidenceInv, QueueClean, Replaying,
                                  ReplayAppend
  <2>3. Len(log') = Len(log) + 1 /\ log'[Len(log) + 1] = h.rec
    BY <1>0, <2>1, <2>2, AppendProperties
  <2>4. CASE e.rec = h.rec
    BY <2>3, <2>4
  <2>5. CASE e.rec # h.rec
    <3>1. e.rec \in LogSet
      BY <1>0, <2>1, <2>2, <2>5, LogSetGrows
    <3>2. PICK a \in DOMAIN queued, b \in DOMAIN queued : h.rec = queued[a] /\ e.rec = queued[b]
      BY <1>0, <2>2 DEF QueueInv, SpoolQueued
    <3>3. a \in Nat /\ b \in Nat /\ a # b
      BY <1>0, <2>5, <3>2, LenProperties DEF TypeInv, TypeOK
    <3>4. CASE a < b
      BY <1>0, <2>2, <3>1, <3>2, <3>4, LoggedSet DEF QueueInv, ReplayInQueueOrder, InSpool
    <3>5. CASE b < a
      BY <1>0, <2>1, <2>2, <3>2, <3>5 DEF QueueInv, SpoolInOrder, NextInQueue
    <3> QED BY <3>3, <3>4, <3>5
  <2> QED BY <2>4, <2>5
<1>3. CASE pc[p] = "own" /\ spool' = spool /\ log' = Append(log, Own(p, clock + 1))
  <2>1. e.rec \notin LogSet /\ e \in spool
    BY <1>3 DEF DuplicateInv, OwnFresh
  <2>2. e.rec # Own(p, clock + 1) /\ Own(p, clock + 1) \in Records
    BY <1>0, <1>3, <2>1, OwnIsNew DEF QueueInv, SpoolQueued
  <2> QED BY <1>0, <1>3, <2>1, <2>2, LogSetGrows
<1> QED BY <1>0, <1>1, <1>2, <1>3, RecordOrigin

LEMMA DuplicatesStep ==
    ASSUME DuplicateInv, NEW p \in Procs, Step(p) \/ Mutate(p) \/ Failure(p)
    PROVE  DuplicatesAdjacent'
<1>0. EvidenceInv /\ TypeInv /\ QueueInv /\ log \in Seq(Records) /\ DuplicatesAdjacent
  BY DEF DuplicateInv, QueueInv, OrderInv, SafetyInv, EvidenceInv, DeliveryInv, TypeInv, TypeOK
<1>1. CASE log' = log
  BY <1>0, <1>1 DEF DuplicatesAdjacent
<1>2. ASSUME NEW r \in Records, log' = Append(log, r), r \in LogSet => log[Len(log)] = r
      PROVE  DuplicatesAdjacent'
  <2>1. /\ Len(log) \in Nat /\ DOMAIN log = 1..Len(log)
        /\ DOMAIN log' = 1..(Len(log) + 1)
        /\ \A i \in DOMAIN log : log'[i] = log[i]
        /\ log'[Len(log) + 1] = r
    BY <1>0, <1>2, AppendKeeps
  <2>2. SUFFICES ASSUME NEW i \in DOMAIN log', NEW k \in DOMAIN log', i < k, log'[i] = log'[k],
                        NEW j \in i..k
                 PROVE  log'[j] = log'[i]
    BY DEF DuplicatesAdjacent
  <2>3. i \in DOMAIN log /\ i \in Nat /\ j \in Nat /\ j \in DOMAIN log'
    BY <2>1, <2>2
  <2>4. CASE k \in DOMAIN log
    <3>1. j \in DOMAIN log
      BY <2>1, <2>2, <2>3, <2>4
    <3> QED BY <1>0, <2>1, <2>2, <2>3, <2>4, <3>1 DEF DuplicatesAdjacent
  <2>5. CASE k = Len(log) + 1
    <3>1. log[i] = r /\ log[Len(log)] = r
      BY <1>2, <2>1, <2>2, <2>3, <2>5 DEF LogSet
    <3>2. CASE j = Len(log) + 1
      BY <2>1, <2>3, <3>1, <3>2
    <3>3. CASE j \in i..Len(log)
      <4>1. j \in DOMAIN log /\ Len(log) \in DOMAIN log
        BY <2>1, <2>3, <3>3
      <4>2. CASE i = Len(log)
        BY <2>1, <2>3, <3>1, <3>3, <4>1, <4>2
      <4>3. CASE i < Len(log)
        <5>1. log[j] = log[i]
          BY <1>0, <2>3, <3>1, <3>3, <4>1, <4>3 DEF DuplicatesAdjacent
        <5> QED BY <2>1, <2>3, <4>1, <5>1
      <4> QED BY <2>1, <2>3, <4>2, <4>3
    <3> QED BY <2>1, <2>2, <2>3, <2>5, <3>2, <3>3
  <2> QED BY <2>1, <2>4, <2>5
<1>3. ASSUME ReplayAppend(p), NEW e \in spool, log' = Append(log, e.rec)
      PROVE  DuplicatesAdjacent'
  <2>1. e.rec \in Records /\ e.state = "pending"
    BY <1>0, <1>3, StampTypes DEF Spooled, EvidenceInv, QueueClean, Replaying, ReplayAppend
  <2> QED BY <1>2, <1>3, <2>1 DEF DuplicateInv, RetryLast
<1>4. CASE pc[p] = "own" /\ log' = Append(log, Own(p, clock + 1))
  BY <1>0, <1>2, <1>4, OwnIsNew
<1> QED BY <1>0, <1>1, <1>3, <1>4, RecordOrigin

\* Replay repeats a record only right behind its first copy, for any number of failures:
\* whoever reads the log can drop duplicates by looking one record back.
THEOREM DuplicatesStayAdjacent == Spec => []DuplicatesAdjacent
<1>1. Init => DuplicateInv
  <2> SUFFICES ASSUME Init PROVE DuplicateInv
    OBVIOUS
  <2>1. QueueInv
    BY QueueInit
  <2> QED BY <2>1 DEF Init, DuplicateInv, RetryLast, OwnFresh, DuplicatesAdjacent
<1>2. DuplicateInv /\ [Next]_vars => DuplicateInv'
  <2> SUFFICES ASSUME DuplicateInv, [Next]_vars PROVE DuplicateInv'
    OBVIOUS
  <2>1. QueueInv'
    BY QueueStep DEF DuplicateInv
  <2>2. ASSUME NEW p \in Procs, Step(p) \/ Mutate(p) \/ Failure(p)
        PROVE  RetryLast' /\ OwnFresh' /\ DuplicatesAdjacent'
    BY <2>2, RetryLastStep, OwnFreshStep, DuplicatesStep
  <2>3. CASE UNCHANGED vars
    BY <2>1, <2>3 DEF vars, DuplicateInv, RetryLast, OwnFresh, DuplicatesAdjacent, LogSet
  <2> QED BY <2>1, <2>2, <2>3 DEF Next, AllExited, DuplicateInv
<1>3. DuplicateInv => DuplicatesAdjacent
  BY DEF DuplicateInv
<1> QED BY <1>1, <1>2, <1>3, PTL DEF Spec
=============================================================================
