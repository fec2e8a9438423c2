-------------------------- MODULE OutcomeAccounting --------------------------
(***************************************************************************)
(* How a governed mutation accounts for its items: the constructors of     *)
(* cmd/mutation_audit.go that turn "n items, k done, this error" into the  *)
(* outcome of the audit record, and the predicate of internal/audit that   *)
(* refuses an outcome.  A refused outcome is never recorded: the command   *)
(* ends with AUDIT_INCOMPLETE and its intent stays without an answer.      *)
(***************************************************************************)
EXTENDS Integers

CONSTANTS
    MaxCount,   \* maxMutationCount, one thousand million in the code
    Codes       \* the symbolic codes ValidErrorCode accepts

\* The empty string, in a status or an error code.
Unset == "unset"

ASSUME AccountingAssumption ==
    /\ MaxCount \in Nat \ {0}
    /\ {"AUDIT_INCOMPLETE", "PARTIAL_FAILURE"} \subseteq Codes
    /\ Unset \notin Codes

\* An operation error as the accounting sees it: the code AsAppError gives it, and
\* whether it is a CommitIndeterminateError, whose own code is PARTIAL_FAILURE.
NoError == [code |-> Unset, effect |-> "known"]
CommitError == [code |-> "PARTIAL_FAILURE", effect |-> "unknown"]
Errors == {NoError, CommitError} \cup [code : Codes, effect : {"known"}]

Failed(err) == err.code # Unset
IsCommitIndeterminate(err) == err.effect = "unknown"

Tally(status, code, succeeded, failed, uncertain, skipped, executed) ==
    [status |-> status, errorCode |-> code, succeeded |-> succeeded, failed |-> failed,
     uncertain |-> uncertain, skipped |-> skipped, executed |-> executed]

\* What an audit record can hold.
Outcomes ==
    [status : {"succeeded", "failed", "partial"}, errorCode : Codes \cup {Unset},
     succeeded : Nat, failed : Nat, uncertain : Nat, skipped : Nat, executed : Nat]

Counts(o) == {o.succeeded, o.failed, o.uncertain, o.skipped, o.executed}

ValidMutationOutcome(o, items) ==
    /\ items \in 0..MaxCount
    /\ \/ o.status = "succeeded" /\ o.errorCode = Unset /\ o.uncertain = 0
       \/ o.status \in {"failed", "partial"} /\ o.errorCode \in Codes
    /\ Counts(o) \subseteq 0..MaxCount
    /\ o.succeeded + o.failed + o.uncertain + o.skipped = items
    /\ o.executed <= items

\* finishMutationAudit fills what the caller left empty.
Completed(o, err) ==
    LET status == IF Failed(err) THEN "failed" ELSE "succeeded"
    IN  [o EXCEPT !.status = IF @ = Unset THEN status ELSE @,
                  !.errorCode = IF @ = Unset THEN err.code ELSE @]

-----------------------------------------------------------------------------
\* finishMutationAuditProgress refuses impossible counts before it builds an outcome.
ProgressAccepted(total, succeeded, attempted, err) ==
    /\ 0 <= succeeded /\ succeeded <= attempted /\ attempted <= total
    /\ Failed(err) \/ (succeeded = total /\ attempted = total)

ProgressOutcome(total, succeeded, attempted, err) ==
    Completed(Tally(IF ~Failed(err) THEN "succeeded"
                    ELSE IF succeeded > 0 THEN "partial" ELSE "failed",
                    Unset, succeeded, attempted - succeeded, 0, total - attempted, succeeded),
              err)

\* Mutant: the item that failed counts as one never tried.
BatchAttempted_Unlucky(total, succeeded, err) == succeeded

\* Mutant: there is always one item after the last success.
BatchAttempted_Next(total, succeeded, err) == succeeded + 1

\* finishBatchMutationAudit: the item after the last success is the one that failed.
BatchAttempted(total, succeeded, err) ==
    IF Failed(err) /\ succeeded < total THEN succeeded + 1 ELSE succeeded

BatchOutcome(total, succeeded, err) ==
    ProgressOutcome(total, succeeded, BatchAttempted(total, succeeded, err), err)

\* Mutant: an unknown commit is accounted for like any other batch.
DDLOutcome_Batch(total, executed, err) == BatchOutcome(total, executed, err)

\* finishDDLMutationAudit: an unknown commit leaves every statement uncertain.
DDLOutcome(total, executed, err) ==
    IF IsCommitIndeterminate(err) THEN Completed(Tally("failed", Unset, 0, 0, total, 0, executed), err)
    ELSE BatchOutcome(total, executed, err)

SkippedOutcome(total, err) == ProgressOutcome(total, 0, 0, err)

\* The outcome beginMutationAudit spools when its intent may not be durable.
RefusedOutcome(items) == Tally("failed", "AUDIT_INCOMPLETE", 0, 0, 0, items, 0)

\* runDataExec: one statement, known to have succeeded, known to have failed, or unknown.
DataExecOutcome(err) ==
    LET one(condition) == IF condition THEN 1 ELSE 0
    IN  Completed(Tally(Unset, Unset,
                        one(~Failed(err)),
                        one(Failed(err) /\ ~IsCommitIndeterminate(err)),
                        one(IsCommitIndeterminate(err)),
                        0, 0),
                  err)
=============================================================================
