---------------------------- MODULE DataExecProofs ----------------------------
(* data exec proved: what runs was authorized, what is recorded is true, and *)
(* a caller that heeds the messages never applies its statement twice.       *)
EXTENDS DataExec, OutcomeAccountingProofs

\* The commands that have not come to the end of their transaction.
Before == {"explain", "authorize", "transaction", "execute", "commit"}

\* TypeOK in parts, so that a step over the states of the commands has no numbers to
\* reason about.
ControlTypes ==
    /\ pc \in [Callers -> {"explain", "authorize", "transaction", "execute", "commit",
                           "finish", "close", "done", "dead"}]
    /\ request \in [Callers -> Requests]
    /\ current \in Plans
    /\ plan \in [Callers -> Plans \cup {None}] /\ bound \in [Callers -> Plans \cup {None}]
    /\ err \in [Callers -> Errors]
    /\ told \in [Callers -> {"nothing", "ok", "refused", "failed", "commit unknown",
                             "audit incomplete", "close failed", "output failed"}]
    /\ effect \in [Callers -> BOOLEAN]

CountTypes ==
    /\ runs \in [Callers -> 1..MaxRuns \cup {1}]
    /\ foreign \in 0..MaxForeign /\ faults \in 0..MaxFaults

AppliedTypes == applied \in [Callers -> Nat]

OutcomeTypes ==
    /\ DOMAIN outcome = Callers
    /\ \A p \in Callers : outcome[p] # None => ValidMutationOutcome(outcome[p], 1)

Typed == ControlTypes /\ CountTypes /\ AppliedTypes /\ OutcomeTypes

\* From the authorization on, the plan of a command is authorized; from the second
\* EXPLAIN on it is the plan of the transaction.
BoundOf(p) ==
    /\ pc[p] = "authorize" => plan[p] \in Plans
    /\ pc[p] \in {"transaction", "execute", "commit"} =>
          plan[p] \in Plans /\ Authorized(request[p], plan[p])
    /\ pc[p] \in {"execute", "commit"} => bound[p] = plan[p]
    /\ effect[p] => bound[p] \in Plans /\ Authorized(request[p], bound[p])

\* What the error says about the statement is true.
ErrorTrue(p) ==
    /\ ~Failed(err[p]) => effect[p]
    /\ Failed(err[p]) /\ ~IsCommitIndeterminate(err[p]) => ~effect[p]

\* The latest run is the only one that can have taken effect, and no caller that may
\* retry has one that did.
EffectOf(p) ==
    /\ pc[p] \in Before => ~effect[p]
    /\ pc[p] \in Before \cup {"finish"} => outcome[p] = None /\ told[p] = "nothing"
    /\ pc[p] = "finish" => ErrorTrue(p)
    /\ applied[p] = IF effect[p] THEN 1 ELSE 0
    /\ told[p] \in {"refused", "failed"} => ~effect[p]

\* The outcome and the message of a command come from the same error.
RecordOf(p) ==
    outcome[p] # None =>
        /\ outcome[p] = DataExecOutcome(err[p])
        /\ ErrorTrue(p)
        /\ told[p] = "ok" => ~Failed(err[p])
        /\ IsCommitIndeterminate(err[p]) => told[p] \in {"commit unknown", "audit incomplete"}

DataInv == Typed /\ \A p \in Callers : BoundOf(p) /\ EffectOf(p) /\ RecordOf(p)

Command(p) ==
    \/ Explain(p) \/ Authorize(p) \/ BindPlan(p) \/ Execute(p) \/ Commit(p)
    \/ Finish(p) \/ Close(p) \/ Retry(p) \/ Crash(p)

-----------------------------------------------------------------------------
LEMMA Bounds == None \notin Plans /\ MaxRuns \in Nat /\ MaxForeign \in Nat /\ MaxFaults \in Nat
BY DataAssumption

LEMMA KnownErrors ==
    /\ NoError \in Errors /\ BackendError \in Errors /\ PlanChanged \in Errors
    /\ CommitFailed \in Errors
    /\ ~Failed(NoError) /\ ~IsCommitIndeterminate(NoError)
    /\ Failed(BackendError) /\ ~IsCommitIndeterminate(BackendError)
    /\ Failed(PlanChanged) /\ ~IsCommitIndeterminate(PlanChanged)
    /\ Failed(CommitFailed) /\ IsCommitIndeterminate(CommitFailed)
BY DataAssumption, AccountingAssumption
   DEF Errors, NoError, CommitError, BackendError, PlanChanged, CommitFailed, Failed,
       IsCommitIndeterminate, Unset

\* The record of data exec says "succeeded", "failed" or "uncertain" by its error alone.
LEMMA DataExecCounts ==
    ASSUME NEW error \in Errors
    PROVE  LET o == DataExecOutcome(error)
           IN  /\ o.succeeded = 1 <=> ~Failed(error)
               /\ o.failed = 1 <=> (Failed(error) /\ ~IsCommitIndeterminate(error))
               /\ o.uncertain = 1 <=> IsCommitIndeterminate(error)
BY DEF DataExecOutcome, Completed, Tally

LEMMA TypedIsTypeOK == Typed => TypeOK
<1> USE DEF Typed, ControlTypes, CountTypes, AppliedTypes, OutcomeTypes
<1> SUFFICES ASSUME Typed PROVE TypeOK
  OBVIOUS
<1>1. ControlTypes /\ OutcomeTypes
  OBVIOUS
<1>2. CountTypes /\ AppliedTypes
  OBVIOUS
<1> QED BY <1>1, <1>2, Zenon DEF TypeOK

LEMMA ControlStep ==
    ASSUME ControlTypes, NEW p \in Callers, Command(p)
    PROVE  ControlTypes'
<1> USE KnownErrors DEF ControlTypes, Goto, Result, Data, Return
<1>1. CASE Explain(p)
  <2>1. plan' \in [Callers -> Plans \cup {None}]
    BY <1>1 DEF Explain
  <2>2. \/ pc' = [pc EXCEPT ![p] = "authorize"] /\ UNCHANGED told
        \/ pc' = [pc EXCEPT ![p] = "close"] /\ told' = [told EXCEPT ![p] = "refused"]
    BY <1>1 DEF Explain
  <2>3. UNCHANGED <<request, current, bound, err, effect>>
    BY <1>1 DEF Explain
  <2> QED BY <2>1, <2>2, <2>3
<1>2. CASE Authorize(p)
  BY <1>2 DEF Authorize
<1>3. CASE BindPlan(p)
  <2>1. bound' \in [Callers -> Plans \cup {None}]
    BY <1>3 DEF BindPlan
  <2>2. err' \in [Callers -> Errors]
    BY <1>3 DEF BindPlan
  <2>3. \E where \in {"execute", "finish"} : pc' = [pc EXCEPT ![p] = where]
    BY <1>3 DEF BindPlan
  <2>4. UNCHANGED <<request, current, plan, told, effect>>
    BY <1>3 DEF BindPlan
  <2> QED BY <2>1, <2>2, <2>3, <2>4
<1>4. CASE Execute(p)
  <2>1. err' \in [Callers -> Errors]
    BY <1>4 DEF Execute
  <2>2. \E where \in {"commit", "finish"} : pc' = [pc EXCEPT ![p] = where]
    BY <1>4 DEF Execute
  <2>3. UNCHANGED <<request, current, plan, bound, told, effect>>
    BY <1>4 DEF Execute
  <2> QED BY <2>1, <2>2, <2>3
<1>5. CASE Commit(p)
  <2>1. effect' \in [Callers -> BOOLEAN] /\ current' \in Plans
    BY <1>5 DEF Commit
  <2>2. err' \in [Callers -> Errors]
    BY <1>5 DEF Commit
  <2>3. UNCHANGED <<request, plan, told, bound>> /\ pc' = [pc EXCEPT ![p] = "finish"]
    BY <1>5 DEF Commit
  <2> QED BY <2>1, <2>2, <2>3
<1>6. CASE Finish(p)
  BY <1>6 DEF Finish, Told
<1>7. CASE Close(p)
  BY <1>7 DEF Close, CloseFailed
<1>8. CASE Retry(p)
  BY <1>8 DEF Retry
<1>9. CASE Crash(p)
  BY <1>9 DEF Crash
<1> QED BY <1>1, <1>2, <1>3, <1>4, <1>5, <1>6, <1>7, <1>8, <1>9 DEF Command

LEMMA TypeStep ==
    ASSUME Typed, NEW p \in Callers, Command(p)
    PROVE  Typed'
<1>1. ControlTypes /\ CountTypes /\ AppliedTypes /\ OutcomeTypes
  BY DEF Typed
<1>2. ControlTypes'
  BY <1>1, ControlStep
<1>3. CountTypes'
  <2>1. \/ UNCHANGED <<runs, foreign, faults>>
        \/ Fault /\ UNCHANGED <<runs, foreign>>
        \/ runs[p] < MaxRuns /\ runs' = [runs EXCEPT ![p] = @ + 1] /\ UNCHANGED <<foreign, faults>>
    BY DEF Command, Explain, Authorize, BindPlan, Execute, Commit, Finish, Close, Retry, Crash,
           Data
  <2>2. CASE UNCHANGED <<runs, foreign, faults>>
    BY <1>1, <2>2 DEF CountTypes
  <2>3. CASE Fault /\ UNCHANGED <<runs, foreign>>
    BY <1>1, <2>3, Bounds DEF CountTypes, Fault
  <2>4. CASE runs[p] < MaxRuns /\ runs' = [runs EXCEPT ![p] = @ + 1] /\ UNCHANGED <<foreign, faults>>
    BY <1>1, <2>4, Bounds DEF CountTypes
  <2> QED BY <2>1, <2>2, <2>3, <2>4
<1>4. AppliedTypes'
  <2>1. UNCHANGED applied \/ applied' = [applied EXCEPT ![p] = @ + 1]
    BY DEF Command, Explain, Authorize, BindPlan, Execute, Commit, Finish, Close, Retry, Crash,
           Data
  <2> QED BY <1>1, <2>1 DEF AppliedTypes
<1>5. OutcomeTypes'
  <2>1. \/ UNCHANGED outcome
        \/ outcome' = [outcome EXCEPT ![p] = None]
        \/ outcome' = [outcome EXCEPT ![p] = DataExecOutcome(err[p])]
    BY DEF Command, Explain, Authorize, BindPlan, Execute, Commit, Finish, Close, Retry, Crash,
           Data
  <2>2. ValidMutationOutcome(DataExecOutcome(err[p]), 1)
    BY <1>1, DataExecOutcomeValid DEF ControlTypes
  <2> QED BY <1>1, <2>1, <2>2 DEF OutcomeTypes
<1> QED BY <1>2, <1>3, <1>4, <1>5 DEF Typed

\* A command leaves the other callers alone.
LEMMA OthersKept ==
    ASSUME Typed, NEW p \in Callers, Command(p), NEW q \in Callers \ {p}
    PROVE  /\ pc'[q] = pc[q] /\ request'[q] = request[q] /\ plan'[q] = plan[q]
           /\ err'[q] = err[q] /\ outcome'[q] = outcome[q] /\ told'[q] = told[q]
           /\ effect'[q] = effect[q] /\ bound'[q] = bound[q] /\ applied'[q] = applied[q]
<1>1. /\ ControlTypes
      /\ DOMAIN outcome = Callers
      /\ DOMAIN applied = Callers
  BY DEF Typed, AppliedTypes, OutcomeTypes
<1> USE <1>1 DEF ControlTypes, Goto, Result, Data, Return
<1>2. CASE Explain(p) \/ Authorize(p)
  BY <1>2 DEF Explain, Authorize
<1>3. CASE BindPlan(p) \/ Execute(p)
  BY <1>3 DEF BindPlan, Execute
<1>4. CASE Commit(p)
  BY <1>4 DEF Commit
<1>5. CASE Finish(p) \/ Close(p)
  BY <1>5 DEF Finish, Close
<1>6. CASE Retry(p)
  BY <1>6 DEF Retry
<1>7. CASE Crash(p)
  BY <1>7 DEF Crash
<1> QED BY <1>2, <1>3, <1>4, <1>5, <1>6, <1>7 DEF Command

LEMMA BoundStep ==
    ASSUME Typed, NEW p \in Callers, Command(p), BoundOf(p), EffectOf(p)
    PROVE  BoundOf(p)'
<1>0. ControlTypes /\ None \notin Plans
  BY Bounds DEF Typed
<1> USE <1>0 DEF BoundOf, ControlTypes, Goto, Result, Data, Return
<1>1. CASE Explain(p)
  BY <1>1 DEF Explain
<1>2. CASE Authorize(p)
  BY <1>2 DEF Authorize
<1>3. CASE BindPlan(p)
  BY <1>3 DEF BindPlan, SamePlan, EffectOf, Before
<1>4. CASE Execute(p)
  BY <1>4 DEF Execute
<1>5. CASE Commit(p)
  BY <1>5 DEF Commit
<1>6. CASE Finish(p)
  BY <1>6 DEF Finish
<1>7. CASE Close(p)
  BY <1>7 DEF Close
<1>8. CASE Retry(p)
  BY <1>8 DEF Retry
<1>9. CASE Crash(p)
  BY <1>9 DEF Crash
<1> QED BY <1>1, <1>2, <1>3, <1>4, <1>5, <1>6, <1>7, <1>8, <1>9 DEF Command

LEMMA FirstApplied ==
    ASSUME applied \in [Callers -> Nat], NEW p \in Callers, applied[p] = 0,
           applied' = [applied EXCEPT ![p] = @ + 1]
    PROVE  applied'[p] = 1
OBVIOUS

LEMMA EffectStep ==
    ASSUME Typed, NEW p \in Callers, Command(p), EffectOf(p)
    PROVE  EffectOf(p)'
<1>0. ControlTypes /\ DOMAIN outcome = Callers /\ applied \in [Callers -> Nat]
  BY DEF Typed, AppliedTypes, OutcomeTypes
<1> USE <1>0, KnownErrors
    DEF EffectOf, ErrorTrue, Before, ControlTypes, Goto, Result, Data, Return
<1>1. CASE Explain(p)
  BY <1>1 DEF Explain
<1>2. CASE Authorize(p)
  BY <1>2 DEF Authorize
<1>3. CASE BindPlan(p)
  <2>1. UNCHANGED <<outcome, told, effect, applied>>
    BY <1>3 DEF BindPlan
  <2>2. \/ pc' = [pc EXCEPT ![p] = "execute"] /\ err' = err
        \/ /\ pc' = [pc EXCEPT ![p] = "finish"]
           /\ \E e \in {PlanChanged, BackendError} : err' = [err EXCEPT ![p] = e]
    BY <1>3 DEF BindPlan
  <2>3. pc[p] = "transaction"
    BY <1>3 DEF BindPlan
  <2>4. \/ pc'[p] = "execute" /\ err'[p] = err[p]
        \/ pc'[p] = "finish" /\ err'[p] \in {PlanChanged, BackendError}
    BY <2>2
  <2> QED BY <2>1, <2>3, <2>4
<1>4. CASE Execute(p)
  BY <1>4 DEF Execute
<1>5. CASE Commit(p)
  <2>1. ~effect[p] /\ applied[p] = 0 /\ pc'[p] = "finish"
    BY <1>5 DEF Commit
  <2>2. \/ /\ effect' = [effect EXCEPT ![p] = TRUE] /\ applied' = [applied EXCEPT ![p] = @ + 1]
           /\ err'[p] \in {NoError, CommitFailed}
        \/ effect' = effect /\ applied' = applied /\ err'[p] = CommitFailed
    BY <1>5 DEF Commit
  <2>3. \/ effect'[p] /\ applied'[p] = 1 /\ err'[p] \in {NoError, CommitFailed}
        \/ ~effect'[p] /\ applied'[p] = 0 /\ err'[p] = CommitFailed
    <3>1. CASE effect' = effect /\ applied' = applied /\ err'[p] = CommitFailed
      BY <2>1, <3>1
    <3>2. CASE /\ effect' = [effect EXCEPT ![p] = TRUE] /\ applied' = [applied EXCEPT ![p] = @ + 1]
               /\ err'[p] \in {NoError, CommitFailed}
      <4>1. effect'[p] = TRUE
        BY <3>2
      <4>2. applied'[p] = 1
        <5> HIDE DEF EffectOf, ErrorTrue, ControlTypes
        <5> QED BY <1>0, <2>1, <3>2, FirstApplied
      <4>3. err'[p] \in {NoError, CommitFailed}
        BY <3>2
      <4> QED BY <4>1, <4>2, <4>3
    <3> QED BY <2>2, <3>1, <3>2
  <2>4. outcome'[p] = None /\ told'[p] = "nothing"
    BY <1>5 DEF Commit
  <2> QED BY <2>1, <2>3, <2>4
<1>6. CASE Finish(p)
  BY <1>6 DEF Finish, Told
<1>7. CASE Close(p)
  BY <1>7 DEF Close, CloseFailed
<1>8. CASE Retry(p)
  BY <1>8 DEF Retry, MayRetry
<1>9. CASE Crash(p)
  BY <1>9 DEF Crash, Ended
<1> QED BY <1>1, <1>2, <1>3, <1>4, <1>5, <1>6, <1>7, <1>8, <1>9 DEF Command

LEMMA RecordStep ==
    ASSUME Typed, NEW p \in Callers, Command(p), EffectOf(p), RecordOf(p)
    PROVE  RecordOf(p)'
<1>0. ControlTypes /\ DOMAIN outcome = Callers
  BY DEF Typed, OutcomeTypes
<1> USE <1>0 DEF RecordOf, ErrorTrue, ControlTypes, Goto, Result, Data, Return
<1>1. CASE Explain(p) \/ Authorize(p) \/ BindPlan(p) \/ Execute(p) \/ Commit(p)
  <2>1. outcome[p] = None /\ outcome' = outcome
    BY <1>1 DEF EffectOf, Before, Explain, Authorize, BindPlan, Execute, Commit
  <2> QED BY <2>1
<1>2. CASE Finish(p)
  <2>1. /\ outcome'[p] = DataExecOutcome(err[p]) /\ err' = err /\ effect' = effect
        /\ told'[p] \in {Told(err[p]), "audit incomplete"}
              \/ (told'[p] = "output failed" /\ ~Failed(err[p]))
        /\ ErrorTrue(p)
    BY <1>2 DEF Finish, EffectOf
  <2>2. IsCommitIndeterminate(err[p]) => Failed(err[p])
    BY ErrorCodes
  <2> QED BY <2>1, <2>2 DEF Told
<1>3. CASE Close(p)
  BY <1>3 DEF Close, CloseFailed
<1>4. CASE Retry(p)
  BY <1>4 DEF Retry
<1>5. CASE Crash(p)
  BY <1>5 DEF Crash
<1> QED BY <1>1, <1>2, <1>3, <1>4, <1>5 DEF Command

LEMMA DataInit == Init => DataInv
<1> SUFFICES ASSUME Init PROVE DataInv
  OBVIOUS
<1>1. Typed
  BY Bounds, KnownErrors DEF Init, Typed, ControlTypes, CountTypes, AppliedTypes, OutcomeTypes
<1>2. ASSUME NEW p \in Callers PROVE BoundOf(p) /\ EffectOf(p) /\ RecordOf(p)
  BY DEF Init, BoundOf, EffectOf, RecordOf, ErrorTrue, Before
<1> QED BY <1>1, <1>2 DEF DataInv

LEMMA DataStep == DataInv /\ [Next]_vars => DataInv'
<1> SUFFICES ASSUME DataInv, [Next]_vars PROVE DataInv'
  OBVIOUS
<1>1. ASSUME NEW p \in Callers, Command(p) PROVE DataInv'
  <2>1. Typed' /\ BoundOf(p)' /\ EffectOf(p)' /\ RecordOf(p)'
    BY <1>1, TypeStep, BoundStep, EffectStep, RecordStep DEF DataInv
  <2>2. ASSUME NEW q \in Callers \ {p} PROVE BoundOf(q)' /\ EffectOf(q)' /\ RecordOf(q)'
    <3>1. BoundOf(q) /\ EffectOf(q) /\ RecordOf(q) /\ Typed
      BY DEF DataInv
    <3> QED BY <1>1, <3>1, OthersKept DEF BoundOf, EffectOf, RecordOf, ErrorTrue
  <2> QED BY <2>1, <2>2 DEF DataInv
<1>2. CASE ForeignChange
  <2>1. ControlTypes' /\ AppliedTypes' /\ OutcomeTypes'
    BY <1>2 DEF ForeignChange, DataInv, Typed, ControlTypes, AppliedTypes, OutcomeTypes
  <2>2. CountTypes'
    BY <1>2, Bounds DEF ForeignChange, DataInv, Typed, CountTypes
  <2>3. Typed'
    BY <2>1, <2>2 DEF Typed
  <2> QED BY <1>2, <2>3 DEF ForeignChange, DataInv, BoundOf, EffectOf, RecordOf, ErrorTrue
<1>3. CASE UNCHANGED vars
  BY <1>3 DEF vars, DataInv, Typed, ControlTypes, CountTypes, AppliedTypes, OutcomeTypes,
                 BoundOf, EffectOf, RecordOf, ErrorTrue
<1> QED BY <1>1, <1>2, <1>3 DEF Next, AllEnded, Command

-----------------------------------------------------------------------------
\* The variables of data exec keep their types, and every outcome is one that the audit
\* log accepts.
THEOREM DataTypeCorrect == Spec => []TypeOK
<1>1. DataInv => TypeOK
  BY TypedIsTypeOK DEF DataInv
<1> QED BY <1>1, DataInit, DataStep, PTL DEF Spec

\* However often others change the plan, a statement takes effect only under a plan that
\* the caller's flags authorize.
THEOREM EffectGoverned == Spec => []GovernedPlan
<1>1. DataInv => GovernedPlan
  BY Bounds DEF DataInv, BoundOf, GovernedPlan
<1> QED BY <1>1, DataInit, DataStep, PTL DEF Spec

\* No outcome claims what did not happen, whatever fails or dies on the way.
THEOREM DataOutcomeTrue == Spec => []OutcomeHonest
<1>1. DataInv => OutcomeHonest
  <2> SUFFICES ASSUME DataInv, NEW p \in Callers, outcome[p] # None
               PROVE  /\ outcome[p].succeeded = 1 => effect[p]
                      /\ outcome[p].failed = 1 => ~effect[p]
                      /\ outcome[p].uncertain = 1 =>
                            pc[p] = "dead" \/ told[p] \in {"commit unknown", "audit incomplete"}
                      /\ told[p] = "ok" => applied[p] = 1 /\ outcome[p].succeeded = 1
    BY DEF OutcomeHonest
  <2>1. err[p] \in Errors /\ EffectOf(p) /\ RecordOf(p)
    BY DEF DataInv, Typed, ControlTypes
  <2>2. /\ outcome[p] = DataExecOutcome(err[p])
        /\ ~Failed(err[p]) => effect[p]
        /\ Failed(err[p]) /\ ~IsCommitIndeterminate(err[p]) => ~effect[p]
        /\ told[p] = "ok" => ~Failed(err[p])
        /\ IsCommitIndeterminate(err[p]) => told[p] \in {"commit unknown", "audit incomplete"}
    BY <2>1 DEF RecordOf, ErrorTrue
  <2>3. /\ outcome[p].succeeded = 1 <=> ~Failed(err[p])
        /\ outcome[p].failed = 1 <=> (Failed(err[p]) /\ ~IsCommitIndeterminate(err[p]))
        /\ outcome[p].uncertain = 1 <=> IsCommitIndeterminate(err[p])
    BY <2>1, <2>2, DataExecCounts
  <2>4. effect[p] => applied[p] = 1
    BY <2>1 DEF EffectOf
  <2> QED BY <2>2, <2>3, <2>4
<1> QED BY <1>1, DataInit, DataStep, PTL DEF Spec

\* A caller may retry as long as nothing warns against it, any number of times: the
\* statement takes effect once at most.
THEOREM RetriesSafe == Spec => []RetrySafe
<1>1. DataInv => RetrySafe
  BY DEF DataInv, EffectOf, RetrySafe
<1> QED BY <1>1, DataInit, DataStep, PTL DEF Spec
=============================================================================
