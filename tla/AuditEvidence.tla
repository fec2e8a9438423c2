---------------------------- MODULE AuditEvidence ----------------------------
(***************************************************************************)
(* What the durable evidence of mutations promises, without saying how:    *)
(* no locks, no files, no failures.  A mutation is announced, performed    *)
(* and answered for once; the answer is recorded, or owed until somebody   *)
(* replays it, and an answer that was promised is never neither.           *)
(* MutationAudit implements this specification.                            *)
(***************************************************************************)
CONSTANTS Mutations

VARIABLES
    recorded,   \* what the audit log says
    owed,       \* answers kept for replay
    effect,     \* how each mutation ended
    promised    \* the mutations whose caller was told the answer is kept

vars == <<recorded, owed, effect, promised>>

Statement(m, says) == [of |-> m, says |-> says]

Intent(m) == Statement(m, "intent")
Answered(m) == \E s \in recorded \cup owed : s.of = m /\ s.says # "intent"

\* A mutation that was not performed is answered for as skipped.
Answer(m) == Statement(m, IF effect[m] = "none" THEN "skipped" ELSE effect[m])

Init ==
    /\ recorded = {}
    /\ owed = {}
    /\ effect = [m \in Mutations |-> "none"]
    /\ promised = {}

Announce(m) ==
    /\ effect[m] = "none" /\ ~Answered(m)
    /\ recorded' = recorded \cup {Intent(m)}
    /\ UNCHANGED <<owed, effect, promised>>

\* Only what is announced is performed, and nothing that was answered for already.
Perform(m) ==
    /\ Intent(m) \in recorded
    /\ effect[m] = "none" /\ ~Answered(m)
    /\ \E result \in {"succeeded", "failed"} : effect' = [effect EXCEPT ![m] = result]
    /\ UNCHANGED <<recorded, owed, promised>>

MayPromise(m) == promised' \in {promised, promised \cup {m}}

\* The answer is written at once, which only a performed mutation's is ...
Record(m) ==
    /\ effect[m] # "none" /\ ~Answered(m)
    /\ recorded' = recorded \cup {Answer(m)}
    /\ MayPromise(m)
    /\ UNCHANGED <<owed, effect>>

\* ... or kept for later.
Owe(m) ==
    /\ ~Answered(m)
    /\ owed' = owed \cup {Answer(m)}
    /\ MayPromise(m)
    /\ UNCHANGED <<recorded, effect>>

\* Replay is at least once: the answer stays owed until it is known to be recorded.
Replay(s) ==
    /\ s \in owed
    /\ recorded' = recorded \cup {s}
    /\ UNCHANGED <<owed, effect, promised>>

Retire(s) ==
    /\ s \in owed \cap recorded
    /\ owed' = owed \ {s}
    /\ UNCHANGED <<recorded, effect, promised>>

Next ==
    \/ \E m \in Mutations : Announce(m) \/ Perform(m) \/ Record(m) \/ Owe(m)
    \/ \E s \in owed : Replay(s) \/ Retire(s)

Spec == Init /\ [][Next]_vars

-----------------------------------------------------------------------------
\* What the promises amount to: a promised answer is kept somewhere, a performed mutation
\* was announced, and all answers for one mutation say the same thing, which is what
\* happened (the contract of beginMutationAudit and finishMutationAudit).
EvidenceSound ==
    /\ \A m \in promised : Answered(m)
    /\ \A m \in Mutations : effect[m] # "none" => Intent(m) \in recorded
    /\ \A s \in recorded \cup owed : s.says # "intent" => s = Answer(s.of)
=============================================================================
