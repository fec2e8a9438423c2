---------------------------- MODULE ContextControl ----------------------------
(***************************************************************************)
(* The control plane: the commands that change the context file (ctx set,  *)
(* import, use, delete, role set, role unset, migrate-credentials) and     *)
(* audit prune, which the policy of the current context governs (cmd/ctx*, *)
(* cmd/audit_prune.go, internal/dbgovctx).                                 *)
(*                                                                         *)
(* An invocation reads the file without a lock, is authorized by the       *)
(* policy it finds there, records its intent, and only then takes the lock *)
(* of the file, reads it again, compares the policy and changes the file.  *)
(* A file with the legacy apiVersion is rewritten first, outside the lock. *)
(*                                                                         *)
(* The store of opskit-core that reads and replaces the file, its lock,    *)
(* the credential store and the deletion of rotated logs are external.     *)
(***************************************************************************)
EXTENDS OutcomeAccounting, FiniteSets

CONSTANTS
    Procs,        \* the invocations, one command each
    Names,        \* context names
    Operators,    \* operator identities
    Secrets,      \* passwords
    None,         \* no name, no holder, no outcome
    NoPassword,   \* the empty password
    Reference,    \* a reference to the credential store
    Initial,      \* contents the context file may start with
    Requests,     \* what an invocation may be asked to do
    KeepLast,     \* audit prune --keep-last
    MaxRotated,   \* bound: rotated audit logs ever made
    MaxFaults     \* bound: I/O failures and crashes

Commands == {"set", "import", "use", "delete", "roleSet", "roleUnset", "migrate", "prune"}
RoleNames == {"none", "reader", "admin"}
Roles == [Operators -> RoleNames]
Contexts == [roles : Roles, password : Secrets \cup {NoPassword, Reference}]
Configs ==
    [api : {"legacy", "v1"}, current : Names \cup {None},
     contexts : UNION {[S -> Contexts] : S \in SUBSET Names}]

ASSUME ControlAssumption ==
    /\ IsFiniteSet(Names) /\ None \notin Names \cup Procs \cup Outcomes
    /\ NoPassword \notin Secrets /\ Reference \notin Secrets /\ Reference # NoPassword
    /\ Secrets # {}
    /\ Initial \subseteq {cfg \in Configs : cfg.current \in DOMAIN cfg.contexts \cup {None}}
    /\ \A r \in Requests :
         /\ r.command \in Commands /\ r.by \in Operators
         /\ r.target \in IF r.command \in {"migrate", "prune"} THEN Names \cup {None} ELSE Names
         /\ r.operator \in Operators /\ r.role \in RoleNames
         /\ r.password \in Secrets \cup {NoPassword} /\ r.document \in Contexts
    /\ {"AUTHORIZATION_REQUIRED", "CONFLICT", "LOCAL_IO_ERROR", "USAGE_ERROR"} \subseteq Codes
    /\ KeepLast \in Nat /\ MaxFaults \in Nat
    /\ MaxRotated \in 2..MaxCount /\ Cardinality(Names) <= MaxCount

VARIABLES
    pc,        \* where each invocation stands
    request,   \* what each was asked to do, and by whom
    file,      \* the context file; None while it is truncated
    lock,      \* holder of the lock of the context file
    basis,     \* what the authorization of each was based on
    held,      \* the file as each read it last, to migrate or to change it
    detached,  \* a save replaced the file after this invocation truncated it
    stored,    \* the credential store
    rotated,   \* the rotated audit logs, numbered from the oldest
    preview,   \* the rotated logs each prune saw before its authorization
    outcome,   \* the outcome each handed to the audit log
    faults,    \* failures injected so far
    content,   \* history: the last complete content of the file
    intended,  \* history: the password each reference was saved for
    touched,   \* history: the invocation changed something
    superseded \* history: a late upgrade put back an older policy while it held the lock

vars == <<pc, request, file, lock, basis, held, detached, stored, rotated, preview,
          outcome, faults, content, intended, touched, superseded>>

-----------------------------------------------------------------------------
(* The policy that governs a change. *)

NoRoles == [o \in Operators |-> "none"]
Known(cfg) == DOMAIN cfg.contexts

\* safety.Authorize of opskit-core at risk R3: roles bind only where some are assigned.
Permits(context, operator) == context.roles = NoRoles \/ context.roles[operator] = "admin"

\* A context whose password is still in the file.
Candidates(cfg, r) ==
    {n \in Known(cfg) : cfg.contexts[n].password \in Secrets /\ r.target \in {None, n}}

\* contextPreChangePolicy and currentContextChangePolicy: the contexts whose policies
\* decide; the target's own, or the current one's for a new or another context.
Governors(cfg, r) ==
    CASE r.command \in {"set", "import"} /\ r.target \notin Known(cfg) -> {cfg.current} \ {None}
      [] r.command = "use" -> IF cfg.current = None THEN {r.target} ELSE {cfg.current}
      [] r.command = "migrate" -> Candidates(cfg, r)
      [] r.command = "prune" -> {cfg.current} \ {None}
      [] OTHER -> {r.target}

\* The command can be carried out on this configuration at all.
Applicable(cfg, r) ==
    /\ Governors(cfg, r) \subseteq Known(cfg)
    /\ r.command \in {"use", "delete", "roleSet", "roleUnset"} => r.target \in Known(cfg)
    /\ r.command = "import" /\ ~r.force => r.target \notin Known(cfg)
    /\ r.command = "migrate" => Candidates(cfg, r) # {}

SamePolicies(left, right) == left.current = right.current /\ left.contexts = right.contexts

Permitted(cfg, r) == \A n \in Governors(cfg, r) : Permits(cfg.contexts[n], r.by)

\* The part of the file the authorization depends on.
Basis(cfg, r) ==
    LET names == Governors(cfg, r) \cup (IF r.command = "use" THEN {r.target} ELSE {})
    IN  [current |-> IF r.command \in {"use", "prune"} THEN cfg.current ELSE None,
         contexts |-> [n \in names \cap Known(cfg) |-> cfg.contexts[n]]]

\* Mutant: only the names are compared, not the policies.
SameBasis_Names(left, right) == DOMAIN left.contexts = DOMAIN right.contexts

\* verifyContextPreChangePolicy, switchCurrentContext and verifyAuditPrunePolicy.
SameBasis(left, right) == left = right

-----------------------------------------------------------------------------
(* The changes. *)

WithContext(cfg, n, context) ==
    [cfg EXCEPT !.contexts = [m \in Known(cfg) \cup {n} |->
                                IF m = n THEN context ELSE cfg.contexts[m]]]

\* Mutant: a deleted context leaves an empty entry.
Removed_Emptied(cfg, n) == [cfg EXCEPT !.contexts[n] = NoPassword]

\* Mutant: the deleted context stays the current one.
Removed_Selected(cfg, n) ==
    [cfg EXCEPT !.contexts = [m \in Known(cfg) \ {n} |-> cfg.contexts[m]]]

Removed(cfg, n) ==
    [cfg EXCEPT !.contexts = [m \in Known(cfg) \ {n} |-> cfg.contexts[m]],
                !.current = IF @ = n THEN None ELSE @]

\* ctx set stores a password in the credential store and assigns no roles.
NewContext(r) ==
    [roles |-> NoRoles, password |-> IF r.password = NoPassword THEN NoPassword ELSE Reference]

Changed(cfg, r) ==
    CASE r.command = "set" -> WithContext(cfg, r.target, NewContext(r))
      [] r.command = "import" -> WithContext(cfg, r.target, r.document)
      [] r.command = "use" -> [cfg EXCEPT !.current = r.target]
      [] r.command = "delete" -> Removed(cfg, r.target)
      [] r.command = "roleSet" -> [cfg EXCEPT !.contexts[r.target].roles[r.operator] = r.role]
      [] r.command = "roleUnset" -> [cfg EXCEPT !.contexts[r.target].roles[r.operator] = "none"]
      [] r.command = "migrate" ->
           [cfg EXCEPT !.contexts = [n \in Known(cfg) |->
              IF n \in Candidates(cfg, r) THEN [cfg.contexts[n] EXCEPT !.password = Reference]
              ELSE cfg.contexts[n]]]

\* What the command puts into the credential store before the file is saved; a migration
\* takes the passwords it read before it was authorized.
Puts(r, authorized) ==
    CASE r.command = "migrate" ->
           [n \in DOMAIN authorized.contexts |-> authorized.contexts[n].password]
      [] r.command = "set" /\ r.password # NoPassword -> [n \in {r.target} |-> r.password]
      [] OTHER -> [n \in {} |-> NoPassword]

\* audit prune --keep-last: all but the newest.
Prunable(logs) ==
    {f \in logs : Cardinality({g \in logs : g > f}) >= KeepLast}

Items(p) ==
    CASE request[p].command = "migrate" -> Cardinality(DOMAIN basis[p].contexts)
      [] request[p].command = "prune" -> Cardinality(Prunable(preview[p]))
      [] OTHER -> 1

-----------------------------------------------------------------------------
Empty == [current |-> None, contexts |-> [n \in {} |-> None]]

\* Mutant: an empty file is an empty configuration.
Loaded_Fresh(f) ==
    IF f = None THEN [api |-> "v1", current |-> None, contexts |-> Empty.contexts] ELSE f

\* LoadReadOnly and the store refuse a file without an apiVersion, as a truncated one is.
Loaded(f) == f

Init ==
    /\ pc = [p \in Procs |-> "preview"]
    /\ request \in [Procs -> Requests]
    /\ file \in Initial
    /\ lock = None
    /\ basis = [p \in Procs |-> Empty]
    /\ held = [p \in Procs |-> None]
    /\ detached = [p \in Procs |-> FALSE]
    /\ stored = [n \in Names |->
         IF n \in Known(file) /\ file.contexts[n].password = Reference
         THEN CHOOSE s \in Secrets : TRUE ELSE NoPassword]
    /\ rotated = {1, 2}
    /\ preview = [p \in Procs |-> {}]
    /\ outcome = [p \in Procs |-> None]
    /\ faults = 0
    /\ content = file
    /\ intended = stored
    /\ touched = [p \in Procs |-> FALSE]
    /\ superseded = [p \in Procs |-> FALSE]

Fault == faults < MaxFaults /\ faults' = faults + 1
Goto(p, where) == pc' = [pc EXCEPT ![p] = where]
Ended(p) == pc[p] \in {"done", "dead"}
Holding(p) == pc[p] \in {"verify", "save", "prune"}

Error(code) == [code |-> code, effect |-> "known"]

\* finishMutationAuditProgress and finishBatchMutationAudit; the lock is released before
\* the outcome of a change of the file, and after the outcome of a prune.
Conclude(p, succeeded, attempted, err) ==
    /\ Goto(p, "done")
    /\ outcome' = [outcome EXCEPT ![p] = ProgressOutcome(Items(p), succeeded, attempted, err)]
    /\ lock' = IF lock = p THEN None ELSE lock

Untried(p, code) == Conclude(p, 0, 0, Error(code))

Evidence == UNCHANGED <<rotated, preview>>
Recorded == UNCHANGED <<file, content, intended, stored, touched, superseded>>

-----------------------------------------------------------------------------
(* Before the lock. *)

\* runAuditPrune lists the rotated logs before it is authorized.
Preview(p) ==
    /\ pc[p] = "preview"
    /\ preview' = [preview EXCEPT ![p] = IF request[p].command = "prune" THEN rotated ELSE {}]
    /\ Goto(p, "authorize")
    /\ Recorded
    /\ UNCHANGED <<request, lock, basis, held, detached, rotated, outcome, faults>>

\* LoadReadOnly, the authorization and the intent.  A prune records its intent later.
Authorize(p) ==
    /\ pc[p] = "authorize"
    /\ \/ /\ Loaded(file) # None
          /\ Applicable(Loaded(file), request[p])
          /\ Permitted(Loaded(file), request[p])
          /\ basis' = [basis EXCEPT ![p] = Basis(Loaded(file), request[p])]
          /\ Goto(p, IF request[p].command = "prune" THEN "wait" ELSE "upgrade")
       \/ Goto(p, "done") /\ UNCHANGED basis
    /\ Recorded /\ Evidence
    /\ UNCHANGED <<request, lock, held, detached, outcome, faults>>

\* migrateLegacyContextAPIVersion: read, truncate, write, all without the lock.
ReadLegacy(p) ==
    /\ pc[p] = "upgrade"
    /\ IF file # None /\ file.api = "legacy"
       THEN held' = [held EXCEPT ![p] = file] /\ Goto(p, "truncate")
       ELSE Goto(p, "wait") /\ UNCHANGED held
    /\ Recorded /\ Evidence
    /\ UNCHANGED <<request, lock, basis, detached, outcome, faults>>

Truncate(p) ==
    /\ pc[p] = "truncate"
    /\ file' = None
    /\ detached' = [detached EXCEPT ![p] = FALSE]
    /\ Goto(p, "write")
    /\ Evidence
    /\ UNCHANGED <<request, lock, basis, held, stored, outcome, faults, content, intended, touched,
                   superseded>>

\* A save that replaced the file meanwhile may leave this writer with the old one.
WriteUpgraded(p) ==
    /\ pc[p] = "write"
    /\ \/ /\ file' = [held[p] EXCEPT !.api = "v1"] /\ content' = file'
          /\ superseded' = [q \in Procs |->
               superseded[q] \/ (Holding(q) /\ ~SamePolicies(held[p], content))]
       \/ detached[p] /\ UNCHANGED <<file, content, superseded>>
    /\ Goto(p, "wait")
    /\ Evidence
    /\ UNCHANGED <<request, lock, basis, held, detached, stored, outcome, faults, intended, touched>>

\* The file cannot be read or written.
UpgradeFails(p) ==
    /\ pc[p] \in {"upgrade", "truncate", "write"}
    /\ Fault
    /\ Untried(p, "LOCAL_IO_ERROR")
    /\ Recorded /\ Evidence
    /\ UNCHANGED <<request, basis, held, detached>>

-----------------------------------------------------------------------------
(* dbgovctx.Update, under the lock. *)

\* Mutant: the lock excludes nobody.
LockFree_Always == TRUE

LockFree == lock = None

\* The lock and the second reading of the file.  The store knows the new apiVersion only;
\* WithLockedRead accepts both.
LockAndLoad(p) ==
    /\ pc[p] = "wait"
    /\ LockFree
    /\ IF Loaded(file) # None /\ (Loaded(file).api = "v1" \/ request[p].command = "prune")
       THEN /\ lock' = p
            /\ held' = [held EXCEPT ![p] = Loaded(file)]
            /\ Goto(p, "verify")
            /\ UNCHANGED outcome
       ELSE /\ IF request[p].command = "prune" THEN Goto(p, "done") /\ UNCHANGED <<lock, outcome>>
               ELSE Untried(p, "LOCAL_IO_ERROR")
            /\ UNCHANGED held
    /\ Recorded /\ Evidence
    /\ UNCHANGED <<request, basis, detached, faults>>

\* The wait for the lock times out.
LockFails(p) ==
    /\ pc[p] = "wait"
    /\ Fault
    /\ IF request[p].command = "prune" THEN Goto(p, "done") /\ UNCHANGED <<lock, outcome>>
       ELSE Untried(p, "LOCAL_IO_ERROR")
    /\ Recorded /\ Evidence
    /\ UNCHANGED <<request, basis, held, detached>>

\* Mutant: an attempt is counted after it, not before.
PutsAttempted_After(stores) == stores

PutsAttempted(stores) == stores + 1

\* The callback of Update: the policy is compared, then the passwords are stored until
\* one fails; the failed one may have been stored as well.
Verify(p) ==
    /\ pc[p] = "verify" /\ request[p].command # "prune"
    /\ LET puts == Puts(request[p], basis[p])
           due == DOMAIN puts
           kept(S) == [n \in Names |-> IF n \in S THEN puts[n] ELSE stored[n]]
       IN  IF ~SameBasis(Basis(held[p], request[p]), basis[p])
           THEN /\ Untried(p, "AUTHORIZATION_REQUIRED")
                /\ UNCHANGED <<stored, touched, faults>>
           ELSE \/ /\ stored' = kept(due)
                   /\ touched' = [touched EXCEPT ![p] = due # {}]
                   /\ Goto(p, "save")
                   /\ UNCHANGED <<lock, outcome, faults>>
                \/ /\ Fault
                   /\ \E S \in SUBSET due : \E n \in due \ S :
                        /\ \/ stored' = kept(S) /\ touched' = [touched EXCEPT ![p] = S # {}]
                           \/ stored' = kept(S \cup {n}) /\ touched' = [touched EXCEPT ![p] = TRUE]
                        /\ Conclude(p, Cardinality(S), PutsAttempted(Cardinality(S)),
                                    Error("LOCAL_IO_ERROR"))
    /\ Evidence
    /\ UNCHANGED <<request, file, basis, held, detached, content, intended, superseded>>

\* The store replaces the file and the lock is released; an error may come before or
\* after the replacement.
Save(p) ==
    /\ pc[p] = "save"
    /\ LET next == Changed(held[p], request[p])
           puts == Puts(request[p], Basis(held[p], request[p]))
           replaced == /\ file' = next /\ content' = next
                       /\ intended' = [n \in Names |->
                              IF n \in DOMAIN puts THEN puts[n] ELSE intended[n]]
                       /\ detached' = [q \in Procs |-> detached[q] \/ pc[q] = "write"]
                       /\ touched' = [touched EXCEPT ![p] = TRUE]
       IN  \/ /\ replaced
              /\ Conclude(p, Items(p), Items(p), NoError)
              /\ UNCHANGED faults
           \/ /\ replaced \/ UNCHANGED <<file, content, intended, detached, touched>>
              /\ Fault
              /\ Conclude(p, IF request[p].command = "migrate" THEN Items(p) ELSE 0,
                          Items(p), Error("LOCAL_IO_ERROR"))
    /\ Evidence
    /\ UNCHANGED <<request, basis, held, stored, superseded>>

-----------------------------------------------------------------------------
(* audit prune, inside WithLockedRead. *)

\* Mutant: the logs are listed again after the authorization.
Expected_Listed(p) == rotated

\* The rotated logs that the candidates were chosen from, and that are expected still.
Expected(p) == preview[p]

\* The policy and the candidates are compared; the intent may fail to be recorded.
VerifyPrune(p) ==
    /\ pc[p] = "verify" /\ request[p].command = "prune"
    /\ \/ /\ SameBasis(Basis(held[p], request[p]), basis[p])
          /\ Prunable(rotated) = Prunable(Expected(p))
          /\ Goto(p, "prune")
          /\ UNCHANGED lock
       \/ Goto(p, "done") /\ lock' = None
    /\ Recorded /\ Evidence
    /\ UNCHANGED <<request, basis, held, detached, outcome, faults>>

\* coreaudit.PruneRotatedFiles: bound to the complete set that was previewed, it deletes
\* the candidates from the oldest, until one fails.
PruneRotatedFiles(p) ==
    /\ pc[p] = "prune"
    /\ LET candidates == Prunable(Expected(p))
       IN  IF rotated # Expected(p)
           THEN /\ Untried(p, "CONFLICT")
                /\ UNCHANGED <<rotated, touched, faults>>
           ELSE \/ /\ rotated' = rotated \ candidates
                   /\ touched' = [touched EXCEPT ![p] = candidates # {}]
                   /\ Conclude(p, Items(p), Items(p), NoError)
                   /\ UNCHANGED faults
                \/ /\ Fault
                   /\ \E last \in candidates \cup {0} :
                        LET deleted == {f \in candidates : f <= last}
                            k == Cardinality(deleted)
                        IN  /\ rotated' = rotated \ deleted
                            /\ touched' = [touched EXCEPT ![p] = deleted # {}]
                            /\ \/ k < Items(p) /\ Conclude(p, k, k + 1, Error("LOCAL_IO_ERROR"))
                               \/ k = Items(p) /\ Conclude(p, k, k, Error("LOCAL_IO_ERROR"))
                               \/ k = 0 /\ Untried(p, "LOCAL_IO_ERROR")
    /\ UNCHANGED <<request, file, basis, held, detached, stored, preview, content, intended,
                   superseded>>

\* Another command's append rotates the audit log.
Rotate ==
    /\ \E f \in 1..MaxRotated :
         /\ \A g \in rotated : g < f
         /\ rotated' = rotated \cup {f}
    /\ Recorded
    /\ UNCHANGED <<pc, request, lock, basis, held, detached, preview, outcome, faults>>

\* The process dies; the operating system frees its lock.
Crash(p) ==
    /\ ~Ended(p)
    /\ Fault
    /\ Goto(p, "dead")
    /\ lock' = IF lock = p THEN None ELSE lock
    /\ Recorded /\ Evidence
    /\ UNCHANGED <<request, basis, held, detached, outcome>>

AllEnded == (\A p \in Procs : Ended(p)) /\ UNCHANGED vars

Next ==
    \/ \E p \in Procs :
         \/ Preview(p) \/ Authorize(p)
         \/ ReadLegacy(p) \/ Truncate(p) \/ WriteUpgraded(p) \/ UpgradeFails(p)
         \/ LockAndLoad(p) \/ LockFails(p) \/ Verify(p) \/ Save(p)
         \/ VerifyPrune(p) \/ PruneRotatedFiles(p)
         \/ Crash(p)
    \/ Rotate
    \/ AllEnded

Spec == Init /\ [][Next]_vars

-----------------------------------------------------------------------------
(* Properties. *)

TypeOK ==
    /\ pc \in [Procs -> {"preview", "authorize", "upgrade", "truncate", "write", "wait",
                         "verify", "save", "prune", "done", "dead"}]
    /\ request \in [Procs -> Requests]
    /\ content \in Configs /\ file \in {content, None}
    /\ lock \in Procs \cup {None}
    /\ \A p \in Procs : basis[p].current \in Names \cup {None}
    /\ held \in [Procs -> Configs \cup {None}]
    /\ detached \in [Procs -> BOOLEAN]
    /\ stored \in [Names -> Secrets \cup {NoPassword}]
    /\ rotated \subseteq 1..MaxRotated
    /\ preview \in [Procs -> SUBSET (1..MaxRotated)]
    /\ faults \in 0..MaxFaults

\* The current context, whose policy governs the control plane, always has a policy:
\* neither a deletion nor a switch that was authorized before it leaves a name behind
\* ("current context %q has no persisted policy; refusing control-plane change").
CurrentExists == content.current \in Known(content) \cup {None}

\* What a command saves is what it makes of the content before it, although the policies
\* were read without the lock; and a file that an upgrade left empty when it died is never
\* taken for an empty configuration.  Only an upgrade of a legacy file that comes late, and
\* puts back the policies it read, makes a command that holds the lock save what it read.
UpdatesCompose ==
    [][content' # content =>
          \/ \E p \in Procs : pc[p] = "write" /\ content' = [held[p] EXCEPT !.api = "v1"]
          \/ \E p \in Procs :
               /\ pc[p] = "save"
               /\ superseded[p] \/ content' = Changed(content, request[p])]_vars

\* Every new content of the file is what one command makes of the content before it
\* ("Update applies a locked read-modify-write operation to the context config").
LockedReadModifyWrite ==
    [][content' # content =>
          \/ content' = [content EXCEPT !.api = "v1"]
          \/ \E p \in Procs : pc[p] = "save" /\ content' = Changed(content, request[p])]_vars

\* Whatever an invocation changes, in the file, in the credential store or among the
\* rotated logs, the policy in force at that moment lets its operator change, although
\* it was authorized by a policy it read before; unless a late upgrade put back an older
\* policy after it had taken the lock.
GovernedChange ==
    [][\A p \in Procs : touched'[p] /\ (~touched[p] \/ (pc[p] = "save" /\ content' # content)) =>
          superseded[p] \/ Permitted(content, request[p])]_vars

\* WithLockedRead "keeps that policy immutable for the callback": nothing but a late upgrade
\* changes the contexts while audit prune compares them and deletes evidence.
PolicyImmutable ==
    [][\A p \in Procs : pc[p] \in {"verify", "prune"} /\ request[p].command = "prune" =>
          \/ SamePolicies(content', content)
          \/ \E q \in Procs : pc[q] = "write" /\ held[q].api = "legacy"
                              /\ content' = [held[q] EXCEPT !.api = "v1"]]_vars

\* No rotated log goes but one that the operator saw among the candidates before the
\* authorization, and that would be one of them still, although other commands rotate the
\* log and prune meanwhile; and what was to be kept then is there when the prune deletes.
PrunesAsPreviewed ==
    [][\A f \in rotated \ rotated' : \E p \in Procs :
          /\ pc[p] = "prune"
          /\ f \in Prunable(preview[p]) \cap Prunable(rotated)
          /\ preview[p] \ Prunable(preview[p]) \subseteq rotated']_vars

\* A reference in the file stands for the password it was saved for, unless a command that
\* replaces this password is between the two stores, died there, or said that it failed.
CredentialsResolve ==
    \A n \in Known(content) : content.contexts[n].password = Reference =>
        \/ stored[n] # NoPassword /\ stored[n] = intended[n]
        \/ \E p \in Procs :
             /\ n \in DOMAIN Puts(request[p], basis[p])
             /\ touched[p]
             /\ pc[p] \in {"save", "dead"} \/ (outcome[p] # None /\ outcome[p].status # "succeeded")

\* An outcome is valid, says "succeeded" only of a change that was made, and calls
\* everything skipped only when nothing was touched.
OutcomeHonest ==
    \A p \in Procs : outcome[p] # None =>
        /\ ValidMutationOutcome(outcome[p], Items(p))
        /\ outcome[p].status = "succeeded" /\ Items(p) > 0 => touched[p]
        /\ outcome[p].skipped = Items(p) /\ Items(p) > 0 => ~touched[p]
=============================================================================
