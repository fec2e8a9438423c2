------------------------------- MODULE DataExec -------------------------------
(***************************************************************************)
(* data exec (cmd/data.go): one INSERT, UPDATE or DELETE is explained,     *)
(* authorized by the risk of that plan, and executed by ExecDMLBound of    *)
(* the backends in a serializable transaction that explains it once more.  *)
(*                                                                         *)
(* A process of Callers wants one statement executed.  It runs the command *)
(* and, while no message told it not to retry, may run it again; so the    *)
(* model shows what the error messages are for.  Other sessions change     *)
(* data and statistics, and with them the plan, between any two steps.     *)
(*                                                                         *)
(* Tables are transactional: what is rolled back, or was in an open        *)
(* transaction of a dead process, never happened.                          *)
(***************************************************************************)
EXTENDS OutcomeAccounting, FiniteSets

CONSTANTS
    Callers,
    None,         \* no plan, no outcome
    Requests,     \* the statements and flags a caller may use
    Plans,        \* what EXPLAIN may answer
    Threshold,    \* defaultImpactThreshold
    MaxRuns,      \* bound: how often a caller runs its command
    MaxForeign,   \* bound: changes of the plan by other sessions
    MaxFaults     \* bound: failed statements, commits, appends, closes and crashes

ASSUME DataAssumption ==
    /\ Plans # {} /\ None \notin Plans
    /\ \A plan \in Plans : plan.rows \in Nat
    /\ \A r \in Requests :
         /\ r.kind \in {"INSERT", "UPDATE", "DELETE"}
         /\ {r.hasWhere, r.yes, r.ticket, r.allowNoWhere, r.protected} \subseteq BOOLEAN
    /\ {"CONFLICT", "BACKEND_ERROR"} \subseteq Codes
    /\ Threshold \in Nat /\ MaxRuns \in Nat /\ MaxForeign \in Nat /\ MaxFaults \in Nat

VARIABLES
    pc,         \* where the command of each caller stands
    request,    \* what each caller wants
    current,    \* the plan EXPLAIN would answer now
    plan,       \* the plan each command was authorized for
    err,        \* the error ExecDMLBound returned
    outcome,    \* the outcome recorded for the latest run
    told,       \* what the latest run told its caller
    effect,     \* the latest run changed the data
    runs,       \* how often each caller ran the command
    foreign,    \* changes of the plan by others so far
    faults,     \* failures injected so far
    bound,      \* history: the plan inside the transaction
    applied     \* history: how often each statement took effect

vars == <<pc, request, current, plan, err, outcome, told, effect, runs, foreign, faults,
          bound, applied>>

-----------------------------------------------------------------------------
(* Risk and authorization. *)

Destructive(r) == r.kind \in {"UPDATE", "DELETE"} /\ ~r.hasWhere

\* buildDataExecPlan.
Risk(r, explained) ==
    IF Destructive(r) THEN 3 ELSE IF explained.rows > Threshold THEN 2 ELSE 1

\* safety.EffectiveRisk of opskit-core: a protected context raises the tier by one.
EffectiveRisk(r, risk) == IF r.protected /\ risk < 3 THEN risk + 1 ELSE risk

\* safety.Authorize of opskit-core: confirmation, ticket, and the flags runDataExec requires.
Permits(r, risk) ==
    /\ r.yes
    /\ risk >= 2 => r.ticket
    /\ Destructive(r) => r.allowNoWhere

Authorized(r, explained) == Permits(r, EffectiveRisk(r, Risk(r, explained)))

-----------------------------------------------------------------------------
Init ==
    /\ pc = [p \in Callers |-> "explain"]
    /\ request \in [Callers -> Requests]
    /\ current \in Plans
    /\ plan = [p \in Callers |-> None]
    /\ err = [p \in Callers |-> NoError]
    /\ outcome = [p \in Callers |-> None]
    /\ told = [p \in Callers |-> "nothing"]
    /\ effect = [p \in Callers |-> FALSE]
    /\ runs = [p \in Callers |-> 1]
    /\ foreign = 0
    /\ faults = 0
    /\ bound = [p \in Callers |-> None]
    /\ applied = [p \in Callers |-> 0]

Fault == faults < MaxFaults /\ faults' = faults + 1
Goto(p, where) == pc' = [pc EXCEPT ![p] = where]
Ended(p) == pc[p] \in {"done", "dead"}

\* The command returns this to the deferred close of the backend.
Result(p, what) ==
    /\ Goto(p, "close")
    /\ told' = [told EXCEPT ![p] = what]

Data == UNCHANGED <<current, effect, foreign, bound, applied>>

\* The EXPLAIN that is classified and shown; one that fails ends the command.
Explain(p) ==
    /\ pc[p] = "explain"
    /\ \/ /\ plan' = [plan EXCEPT ![p] = current]
          /\ Goto(p, "authorize")
          /\ UNCHANGED <<told, faults>>
       \/ Fault /\ Result(p, "refused") /\ UNCHANGED plan
    /\ Data
    /\ UNCHANGED <<request, err, outcome, runs>>

\* A denied command, and an intent that cannot be recorded, change nothing; the latter
\* may have to say so with AUDIT_INCOMPLETE.
Authorize(p) ==
    /\ pc[p] = "authorize"
    /\ \/ /\ Authorized(request[p], plan[p])
          /\ Goto(p, "transaction")
          /\ UNCHANGED <<told, faults>>
       \/ ~Authorized(request[p], plan[p]) /\ Result(p, "refused") /\ UNCHANGED faults
       \/ Fault /\ \E what \in {"refused", "audit incomplete"} : Result(p, what)
    /\ Data
    /\ UNCHANGED <<request, plan, err, outcome, runs>>

-----------------------------------------------------------------------------
(* ExecDMLBound. *)

\* Mutant: the driver's error is returned as it is.
BackendError_Raw == [code |-> "ERROR 1205", effect |-> "known"]

BackendError == [code |-> "BACKEND_ERROR", effect |-> "known"]

PlanChanged == [code |-> "CONFLICT", effect |-> "known"]

Return(p, error) ==
    /\ err' = [err EXCEPT ![p] = error]
    /\ Goto(p, "finish")

\* Mutant: the plan inside the transaction is not compared.
SamePlan_Always(left, right) == TRUE

SamePlan(left, right) == left = right

\* The transaction begins and explains the statement again.  A rollback that fails turns
\* any error into a backend error; the server drops the transaction with the connection.
BindPlan(p) ==
    /\ pc[p] = "transaction"
    /\ \/ /\ bound' = [bound EXCEPT ![p] = current]
          /\ IF SamePlan(current, plan[p])
             THEN Goto(p, "execute") /\ UNCHANGED err
             ELSE Return(p, PlanChanged)
          /\ UNCHANGED faults
       \/ Fault /\ Return(p, BackendError) /\ UNCHANGED bound
    /\ UNCHANGED <<request, current, plan, outcome, told, effect, runs, foreign, applied>>

\* The statement runs; an error, of the server or of the connection, rolls back.
Execute(p) ==
    /\ pc[p] = "execute"
    /\ \/ Goto(p, "commit") /\ UNCHANGED <<err, faults>>
       \/ Fault /\ Return(p, BackendError)
    /\ Data
    /\ UNCHANGED <<request, plan, outcome, told, runs>>

\* Mutant: a failed commit is an error like any other.
CommitFailed_Known == BackendError

\* NewCommitIndeterminateError.
CommitFailed == CommitError

\* A commit that fails may have taken effect.  The changed data change the plan.
Commit(p) ==
    /\ pc[p] = "commit"
    /\ \/ /\ effect' = [effect EXCEPT ![p] = TRUE]
          /\ applied' = [applied EXCEPT ![p] = @ + 1]
          /\ current' \in Plans
          /\ \/ Return(p, NoError) /\ UNCHANGED faults
             \/ Return(p, CommitFailed) /\ Fault
       \/ Return(p, CommitFailed) /\ Fault /\ UNCHANGED <<current, effect, applied>>
    /\ UNCHANGED <<request, plan, outcome, told, runs, foreign, bound>>

-----------------------------------------------------------------------------
(* What is recorded and what is told. *)

\* Mutant: once the outcome is recorded the command has succeeded.
Told_Recorded(error) == "ok"

\* finishMutationAudit returns the operation's own error when the outcome is recorded.
Told(error) ==
    IF ~Failed(error) THEN "ok"
    ELSE IF IsCommitIndeterminate(error) THEN "commit unknown" ELSE "failed"

\* An outcome that is not recorded for sure, or only queued, hides the error.  Printing
\* the result can fail; the command returns that error.
Finish(p) ==
    /\ pc[p] = "finish"
    /\ outcome' = [outcome EXCEPT ![p] = DataExecOutcome(err[p])]
    /\ \/ Result(p, Told(err[p])) /\ UNCHANGED faults
       \/ Result(p, "audit incomplete") /\ Fault
       \/ ~Failed(err[p]) /\ Result(p, "output failed") /\ Fault
    /\ Data
    /\ UNCHANGED <<request, plan, err, runs>>

\* Mutant: a close error is an ordinary backend error, as after a read.
CloseFailed_Read(what) == IF what = "ok" THEN "failed" ELSE what

\* finishBackendClose: an error that is already there is kept.
CloseFailed(what) == IF what = "ok" THEN "close failed" ELSE what

Close(p) ==
    /\ pc[p] = "close"
    /\ Goto(p, "done")
    /\ \/ UNCHANGED <<told, faults>>
       \/ Fault /\ told' = [told EXCEPT ![p] = CloseFailed(@)]
    /\ Data
    /\ UNCHANGED <<request, plan, err, outcome, runs>>

-----------------------------------------------------------------------------
(* The callers, the other sessions, and crashes. *)

\* Nothing was said against a retry.  The other errors suggest not to: "Do not retry
\* blindly", "do not retry automatically", "Do not retry the mutation".  A caller whose
\* own output broke off was told nothing, and is taken to look before it retries.
MayRetry(p) == told[p] \in {"refused", "failed"}

Retry(p) ==
    /\ pc[p] = "done" /\ MayRetry(p) /\ runs[p] < MaxRuns
    /\ runs' = [runs EXCEPT ![p] = @ + 1]
    /\ Goto(p, "explain")
    /\ plan' = [plan EXCEPT ![p] = None]
    /\ bound' = [bound EXCEPT ![p] = None]
    /\ err' = [err EXCEPT ![p] = NoError]
    /\ outcome' = [outcome EXCEPT ![p] = None]
    /\ told' = [told EXCEPT ![p] = "nothing"]
    /\ effect' = [effect EXCEPT ![p] = FALSE]
    /\ UNCHANGED <<request, current, foreign, faults, applied>>

\* Another session changes data or statistics.
ForeignChange ==
    /\ foreign < MaxForeign
    /\ foreign' = foreign + 1
    /\ current' \in Plans \ {current}
    /\ UNCHANGED <<pc, request, plan, err, outcome, told, effect, runs, faults, bound, applied>>

\* The process dies; the server rolls back its open transaction.
Crash(p) ==
    /\ ~Ended(p)
    /\ Fault
    /\ Goto(p, "dead")
    /\ Data
    /\ UNCHANGED <<request, plan, err, outcome, told, runs>>

AllEnded == (\A p \in Callers : Ended(p)) /\ UNCHANGED vars

Next ==
    \/ \E p \in Callers :
         \/ Explain(p) \/ Authorize(p)
         \/ BindPlan(p) \/ Execute(p) \/ Commit(p)
         \/ Finish(p) \/ Close(p)
         \/ Retry(p) \/ Crash(p)
    \/ ForeignChange
    \/ AllEnded

Spec == Init /\ [][Next]_vars

-----------------------------------------------------------------------------
(* Properties. *)

TypeOK ==
    /\ pc \in [Callers -> {"explain", "authorize", "transaction", "execute", "commit",
                           "finish", "close", "done", "dead"}]
    /\ request \in [Callers -> Requests]
    /\ current \in Plans
    /\ plan \in [Callers -> Plans \cup {None}] /\ bound \in [Callers -> Plans \cup {None}]
    /\ err \in [Callers -> Errors]
    /\ \A p \in Callers :
         outcome[p] # None => ValidMutationOutcome(outcome[p], 1)
    /\ told \in [Callers -> {"nothing", "ok", "refused", "failed", "commit unknown",
                             "audit incomplete", "close failed", "output failed"}]
    /\ effect \in [Callers -> BOOLEAN]
    /\ runs \in [Callers -> 1..MaxRuns \cup {1}]
    /\ foreign \in 0..MaxForeign /\ faults \in 0..MaxFaults
    /\ applied \in [Callers -> Nat]

\* A statement takes effect only if the plan inside its own transaction is one the caller's
\* confirmation, ticket and flags authorize, however the plan moved since the preview
\* ("binds a governed execution to the exact EXPLAIN result that was risk-classified").
GovernedPlan ==
    \A p \in Callers : effect[p] => bound[p] # None /\ Authorized(request[p], bound[p])

\* The outcome of a run says "succeeded" only if the data changed and "failed" only if they
\* did not; only the commit that failed is counted as uncertain.  Success is told only of a
\* statement that took effect once and whose outcome is recorded.
OutcomeHonest ==
    \A p \in Callers : outcome[p] # None =>
        /\ outcome[p].succeeded = 1 => effect[p]
        /\ outcome[p].failed = 1 => ~effect[p]
        /\ outcome[p].uncertain = 1 => pc[p] = "dead" \/ told[p] \in {"commit unknown", "audit incomplete"}
        /\ told[p] = "ok" => applied[p] = 1 /\ outcome[p].succeeded = 1

\* A caller that retries whenever no message warns against it never applies its statement
\* twice: every failure after the commit, of the commit, the audit or the close, tells it
\* not to.
RetrySafe == \A p \in Callers : applied[p] <= 1
=============================================================================
