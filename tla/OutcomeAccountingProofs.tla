----------------------- MODULE OutcomeAccountingProofs ----------------------
(* No governed command can lose its outcome to its own accounting: for      *)
(* every number of items, every progress and every error, the outcome the   *)
(* constructors build is one that ValidMutationOutcome accepts.             *)
EXTENDS OutcomeAccounting, TLAPS

\* An error has an accepted code, and only success has none.
LEMMA ErrorCodes ==
    ASSUME NEW err \in Errors
    PROVE  /\ Failed(err) => err.code \in Codes
           /\ ~Failed(err) => err.code = Unset /\ ~IsCommitIndeterminate(err)
           /\ IsCommitIndeterminate(err) => Failed(err)
BY AccountingAssumption DEF Unset, Errors, NoError, CommitError, Failed, IsCommitIndeterminate

\* What finishMutationAuditProgress builds, field by field.
LEMMA ProgressFields ==
    ASSUME NEW total \in 0..MaxCount, NEW succeeded \in 0..total,
           NEW attempted \in succeeded..total, NEW err \in Errors
    PROVE  LET o == ProgressOutcome(total, succeeded, attempted, err)
           IN  /\ ~Failed(err) => o.status = "succeeded" /\ o.errorCode = Unset
               /\ Failed(err) => o.status \in {"failed", "partial"} /\ o.errorCode \in Codes
               /\ o.succeeded = succeeded /\ o.executed = succeeded /\ o.uncertain = 0
               /\ o.failed = attempted - succeeded /\ o.skipped = total - attempted
BY ErrorCodes DEF Unset, ProgressOutcome, Completed, Tally

LEMMA OutcomeForm ==
    ASSUME NEW status \in {"succeeded", "failed", "partial"}, NEW code \in Codes \cup {Unset},
           NEW a \in Nat, NEW b \in Nat, NEW c \in Nat, NEW d \in Nat, NEW e \in Nat
    PROVE  Tally(status, code, a, b, c, d, e) \in Outcomes
BY DEF Tally, Outcomes

LEMMA CompletedForm ==
    ASSUME NEW status \in {"succeeded", "failed", "partial"}, NEW error \in Errors,
           NEW a \in Nat, NEW b \in Nat, NEW c \in Nat, NEW d \in Nat, NEW e \in Nat
    PROVE  Completed(Tally(status, Unset, a, b, c, d, e), error)
             = Tally(status, error.code, a, b, c, d, e)
<1>1. status # Unset
  BY DEF Unset
<1> DEFINE o == Tally(status, Unset, a, b, c, d, e)
           coded == [o EXCEPT !.errorCode = error.code]
<1>2. Completed(o, error) = coded
  <2>1. o.status # Unset /\ o.errorCode = Unset
    BY <1>1 DEF Tally
  <2>2. Completed(o, error) = [[o EXCEPT !.status = o.status] EXCEPT !.errorCode = error.code]
    <3> HIDE DEF o
    <3> QED BY <2>1, Zenon DEF Completed
  <2> QED BY <2>2 DEF Tally
<1>3. coded = Tally(status, error.code, a, b, c, d, e)
  BY DEF Tally
<1> HIDE DEF o, coded
<1> QED BY <1>2, <1>3 DEF o

LEMMA ProgressForm ==
    ASSUME NEW total \in 0..MaxCount, NEW succeeded \in 0..total,
           NEW attempted \in succeeded..total, NEW error \in Errors
    PROVE  ProgressOutcome(total, succeeded, attempted, error) \in Outcomes
<1> DEFINE status == IF ~Failed(error) THEN "succeeded"
                     ELSE IF succeeded > 0 THEN "partial" ELSE "failed"
           raw == Tally(status, Unset, succeeded, attempted - succeeded, 0,
                        total - attempted, succeeded)
<1>1. ProgressOutcome(total, succeeded, attempted, error) = Completed(raw, error)
  BY DEF ProgressOutcome
<1>2. status \in {"succeeded", "failed", "partial"} /\ status # Unset
  BY DEF Unset
<1> HIDE DEF status
<1>3. /\ succeeded \in Nat /\ attempted - succeeded \in Nat /\ total - attempted \in Nat
      /\ Completed(raw, error) = Tally(status, error.code, succeeded, attempted - succeeded, 0,
                                       total - attempted, succeeded)
  BY <1>2, CompletedForm, AccountingAssumption
<1>4. error.code \in Codes \cup {Unset}
  BY ErrorCodes
<1> HIDE DEF raw
<1> QED BY <1>1, <1>2, <1>3, <1>4, OutcomeForm, AccountingAssumption

LEMMA ProgressValid ==
    ASSUME NEW total \in 0..MaxCount, NEW succeeded \in 0..total,
           NEW attempted \in succeeded..total, NEW err \in Errors
    PROVE  ValidMutationOutcome(ProgressOutcome(total, succeeded, attempted, err), total)
<1> DEFINE o == ProgressOutcome(total, succeeded, attempted, err)
<1>1. /\ ~Failed(err) => o.status = "succeeded" /\ o.errorCode = Unset
      /\ Failed(err) => o.status \in {"failed", "partial"} /\ o.errorCode \in Codes
      /\ o.succeeded = succeeded /\ o.executed = succeeded /\ o.uncertain = 0
      /\ o.failed = attempted - succeeded /\ o.skipped = total - attempted
  BY ProgressFields
<1> HIDE DEF Unset, o
<1>2. Counts(o) \subseteq 0..MaxCount
  BY <1>1, AccountingAssumption DEF Unset, Counts
<1> QED BY <1>1, <1>2, AccountingAssumption DEF Unset, ValidMutationOutcome, o

\* schema apply, import, reconcile and rollback: whatever ExecDDL reports (executed
\* statements and an error, or an unknown commit), the outcome is recorded.
THEOREM DDLOutcomeValid ==
    ASSUME NEW total \in 0..MaxCount, NEW executed \in 0..total, NEW err \in Errors,
           Failed(err) \/ executed = total
    PROVE  ValidMutationOutcome(DDLOutcome(total, executed, err), total)
<1>1. CASE IsCommitIndeterminate(err)
  <2>1. DDLOutcome(total, executed, err) =
          Tally("failed", err.code, 0, 0, total, 0, executed)
    BY <1>1 DEF Unset, DDLOutcome, Completed, Tally
  <2>2. err.code \in Codes
    BY <1>1, ErrorCodes
  <2> QED BY <2>1, <2>2, AccountingAssumption DEF Unset, ValidMutationOutcome, Counts, Tally
<1>2. CASE ~IsCommitIndeterminate(err)
  <2>1. BatchAttempted(total, executed, err) \in executed..total
    BY DEF Unset, BatchAttempted
  <2> QED BY <1>2, <2>1, ProgressValid DEF Unset, DDLOutcome, BatchOutcome
<1> QED BY <1>1, <1>2

\* A mutation that stops after its intent and before its side effect is recorded as
\* skipped, and so is one whose intent may not be durable.
THEOREM SkippedOutcomeValid ==
    ASSUME NEW total \in 0..MaxCount, NEW err \in Errors
    PROVE  /\ ValidMutationOutcome(SkippedOutcome(total, err), total)
           /\ ValidMutationOutcome(RefusedOutcome(total), total)
<1>1. ValidMutationOutcome(SkippedOutcome(total, err), total)
  BY ProgressValid DEF Unset, SkippedOutcome
<1>2. ValidMutationOutcome(RefusedOutcome(total), total)
  BY AccountingAssumption DEF Unset, RefusedOutcome, ValidMutationOutcome, Counts, Tally
<1> QED BY <1>1, <1>2

\* data exec: every result of ExecDMLBound is recorded.
THEOREM DataExecOutcomeValid ==
    ASSUME NEW err \in Errors
    PROVE  ValidMutationOutcome(DataExecOutcome(err), 1)
<1> DEFINE o == DataExecOutcome(err)
<1>1. /\ o.status = IF Failed(err) THEN "failed" ELSE "succeeded"
      /\ o.errorCode = err.code
      /\ o.skipped = 0 /\ o.executed = 0
      /\ o.succeeded = IF ~Failed(err) THEN 1 ELSE 0
      /\ o.failed = IF Failed(err) /\ ~IsCommitIndeterminate(err) THEN 1 ELSE 0
      /\ o.uncertain = IF IsCommitIndeterminate(err) THEN 1 ELSE 0
  BY DEF DataExecOutcome, Completed, Tally, Unset
<1> HIDE DEF o
<1>2. /\ Counts(o) \subseteq 0..MaxCount
      /\ o.succeeded + o.failed + o.uncertain + o.skipped = 1
  BY <1>1, ErrorCodes, AccountingAssumption DEF Counts
<1> QED BY <1>1, <1>2, ErrorCodes, AccountingAssumption DEF ValidMutationOutcome, o

\* An outcome without an unknown commit locates the failure: the succeeded items are the
\* executed ones, exactly one item failed when some were left, and the rest was skipped.
THEOREM DDLOutcomeLocatesFailure ==
    ASSUME NEW total \in 0..MaxCount, NEW executed \in 0..total, NEW err \in Errors,
           ~IsCommitIndeterminate(err)
    PROVE  LET o == DDLOutcome(total, executed, err)
           IN  /\ o.succeeded = executed /\ o.executed = executed /\ o.uncertain = 0
               /\ Failed(err) /\ executed < total =>
                     o.failed = 1 /\ o.skipped = total - executed - 1
               /\ ~Failed(err) \/ executed = total =>
                     o.failed = 0 /\ o.skipped = total - executed
<1>1. BatchAttempted(total, executed, err) \in executed..total
  BY DEF BatchAttempted
<1>2. DDLOutcome(total, executed, err) =
        ProgressOutcome(total, executed, BatchAttempted(total, executed, err), err)
  BY DEF DDLOutcome, BatchOutcome
<1> QED BY <1>1, <1>2, ProgressFields DEF BatchAttempted
=============================================================================
