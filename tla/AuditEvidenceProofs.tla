------------------------- MODULE AuditEvidenceProofs -------------------------
(* What the abstract promise of AuditEvidence is worth. *)
EXTENDS AuditEvidence, TLAPS

SoundInv ==
    /\ effect \in [Mutations -> {"none", "succeeded", "failed"}]
    /\ EvidenceSound

\* Every behaviour that keeps the abstract promise has sound evidence: with
\* EvidenceImplemented this holds of the locks, the spool and the log as well.
THEOREM PromiseIsSound == Spec => []EvidenceSound
<1> USE DEF EvidenceSound, Answered, Answer, Intent, Statement
<1>1. Init => SoundInv
  BY DEF Init, SoundInv
<1>2. SoundInv /\ [Next]_vars => SoundInv'
  <2> SUFFICES ASSUME SoundInv, [Next]_vars PROVE SoundInv'
    OBVIOUS
  <2>1. ASSUME NEW m \in Mutations, Announce(m) PROVE SoundInv'
    BY <2>1 DEF SoundInv, Announce
  <2>2. ASSUME NEW m \in Mutations, Perform(m) PROVE SoundInv'
    BY <2>2 DEF SoundInv, Perform
  <2>3. ASSUME NEW m \in Mutations, Record(m) PROVE SoundInv'
    <3>1. /\ recorded' = recorded \cup {Answer(m)} /\ UNCHANGED <<owed, effect>>
          /\ \A q \in promised' : q \in promised \/ q = m
      BY <2>3 DEF Record, MayPromise
    <3>2. Answer(m)' = Answer(m) /\ Answer(m).of = m /\ Answer(m).says # "intent"
      BY <2>3, <3>1 DEF SoundInv
    <3> QED BY <3>1, <3>2 DEF SoundInv
  <2>4. ASSUME NEW m \in Mutations, Owe(m) PROVE SoundInv'
    <3>1. /\ owed' = owed \cup {Answer(m)} /\ UNCHANGED <<recorded, effect>>
          /\ \A q \in promised' : q \in promised \/ q = m
      BY <2>4 DEF Owe, MayPromise
    <3>2. Answer(m)' = Answer(m) /\ Answer(m).of = m /\ Answer(m).says # "intent"
      BY <2>4, <3>1 DEF SoundInv
    <3>3. \A s \in owed' : s \in owed \/ s = Answer(m)
      BY <3>1
    <3>4. effect' \in [Mutations -> {"none", "succeeded", "failed"}]
      BY <3>1 DEF SoundInv
    <3>5. \A q \in promised' : Answered(q)'
      <4>1. Answered(m)'
        <5> HIDE DEF Answer, Statement
        <5> QED BY <3>1, <3>2
      <4>2. \A q \in promised : Answered(q)'
        <5> HIDE DEF Answer, Statement
        <5> QED BY <3>1 DEF SoundInv
      <4> QED BY <3>1, <4>1, <4>2
    <3>6. \A q \in Mutations : effect'[q] # "none" => Intent(q) \in recorded'
      BY <3>1 DEF SoundInv
    <3>7. \A s \in recorded' \cup owed' : s.says # "intent" => s = Answer(s.of)'
      BY <3>1, <3>2, <3>3 DEF SoundInv
    <3> QED BY <3>4, <3>5, <3>6, <3>7 DEF SoundInv
  <2>5. ASSUME NEW s \in owed, Replay(s) \/ Retire(s) PROVE SoundInv'
    BY <2>5 DEF SoundInv, Replay, Retire
  <2>6. CASE UNCHANGED vars
    BY <2>6 DEF SoundInv, vars
  <2> QED BY <2>1, <2>2, <2>3, <2>4, <2>5, <2>6 DEF Next
<1>3. SoundInv => EvidenceSound
  BY DEF SoundInv
<1> QED BY <1>1, <1>2, <1>3, PTL DEF Spec
=============================================================================
