------------------------- MODULE ContextControlProofs -------------------------
(* The control plane proved, for any number of invocations, contexts and   *)
(* operators: what the policy read before the lock still allows under it,  *)
(* what a save makes of the file, what the credential store keeps, and     *)
(* what the audit log is told.                                             *)
EXTENDS ContextControl, OutcomeAccountingProofs, FiniteSetTheorems

Consistent(cfg) == cfg.current \in Known(cfg) \cup {None}

Own(r) == r.command \in {"delete", "roleSet", "roleUnset"}

\* The requests as the assumption describes them.
LEMMA RequestFields ==
    ASSUME NEW r \in Requests
    PROVE  /\ r.command \in Commands /\ r.by \in Operators
           /\ r.command \notin {"migrate", "prune"} => r.target \in Names
           /\ r.operator \in Operators /\ r.role \in RoleNames
           /\ r.password \in Secrets \cup {NoPassword} /\ r.document \in Contexts
BY ControlAssumption

LEMMA ConfigShape ==
    ASSUME NEW cfg \in Configs
    PROVE  /\ cfg.api \in {"legacy", "v1"} /\ cfg.current \in Names \cup {None}
           /\ Known(cfg) \subseteq Names /\ cfg.contexts \in [Known(cfg) -> Contexts]
           /\ cfg = [api |-> cfg.api, current |-> cfg.current, contexts |-> cfg.contexts]
<1>1. PICK S \in SUBSET Names : cfg.contexts \in [S -> Contexts]
  BY DEF Configs
<1>2. Known(cfg) = S
  BY <1>1 DEF Known
<1> QED BY <1>1, <1>2 DEF Configs

LEMMA ConfigBuild ==
    ASSUME NEW S \in SUBSET Names, NEW f \in [S -> Contexts],
           NEW api \in {"legacy", "v1"}, NEW current_ \in Names \cup {None}
    PROVE  [api |-> api, current |-> current_, contexts |-> f] \in Configs
BY DEF Configs

LEMMA GovernorsOf ==
    ASSUME NEW cfg, NEW r \in Requests
    PROVE  /\ r.command \in {"set", "import"} =>
                Governors(cfg, r) = IF r.target \in Known(cfg) THEN {r.target} ELSE {cfg.current} \ {None}
           /\ r.command = "use" =>
                Governors(cfg, r) = IF cfg.current = None THEN {r.target} ELSE {cfg.current}
           /\ r.command = "migrate" => Governors(cfg, r) = Candidates(cfg, r)
           /\ r.command = "prune" => Governors(cfg, r) = {cfg.current} \ {None}
           /\ Own(r) => Governors(cfg, r) = {r.target}
<1>1. CASE r.command \in {"set", "import"}
  <2>1. CASE r.target \notin Known(cfg)
    BY <1>1, <2>1 DEF Governors, Own
  <2>2. CASE r.target \in Known(cfg)
    BY <1>1, <2>2 DEF Governors, Own
  <2> QED BY <2>1, <2>2
<1>2. CASE r.command = "use"
  BY <1>2 DEF Governors, Own
<1>3. CASE r.command = "migrate"
  BY <1>3 DEF Governors, Own
<1>4. CASE r.command = "prune"
  BY <1>4 DEF Governors, Own
<1>5. CASE Own(r)
  BY <1>5 DEF Governors, Own
<1> QED BY <1>1, <1>2, <1>3, <1>4, <1>5, RequestFields DEF Commands, Own

\* Equal bases have equal policies under equal names.
LEMMA BasisFields ==
    ASSUME NEW c, NEW d, NEW r, Basis(c, r) = Basis(d, r)
    PROVE  LET names(cfg) == Governors(cfg, r) \cup (IF r.command = "use" THEN {r.target} ELSE {})
           IN  /\ names(c) \cap Known(c) = names(d) \cap Known(d)
               /\ \A n \in names(c) \cap Known(c) : c.contexts[n] = d.contexts[n]
               /\ r.command \in {"use", "prune"} => c.current = d.current
<1> DEFINE names(cfg) == Governors(cfg, r) \cup (IF r.command = "use" THEN {r.target} ELSE {})
           policies(cfg) == [n \in names(cfg) \cap Known(cfg) |-> cfg.contexts[n]]
<1>1. /\ policies(c) = policies(d)
      /\ r.command \in {"use", "prune"} => c.current = d.current
  BY DEF Basis
<1>2. DOMAIN policies(c) = DOMAIN policies(d)
  BY <1>1
<1>3. names(c) \cap Known(c) = names(d) \cap Known(d)
  BY <1>2
<1>4. ASSUME NEW n \in names(c) \cap Known(c) PROVE c.contexts[n] = d.contexts[n]
  <2>1. policies(c)[n] = policies(d)[n]
    BY <1>1
  <2>2. policies(c)[n] = c.contexts[n]
    BY DEF policies
  <2>3. policies(d)[n] = d.contexts[n]
    BY <1>3 DEF policies
  <2> QED BY <2>1, <2>2, <2>3
<1> QED BY <1>1, <1>3, <1>4

LEMMA BasisDecides ==
    ASSUME NEW c \in Configs, NEW d \in Configs, NEW r \in Requests,
           Consistent(c), Consistent(d), Basis(c, r) = Basis(d, r),
           Applicable(c, r), Permitted(c, r)
    PROVE  /\ Permitted(d, r)
           /\ r.command = "use" => r.target \in Known(d)
<1> DEFINE names(cfg) == Governors(cfg, r) \cup (IF r.command = "use" THEN {r.target} ELSE {})
<1>1. /\ names(c) \cap Known(c) = names(d) \cap Known(d)
      /\ \A n \in names(c) \cap Known(c) : c.contexts[n] = d.contexts[n]
      /\ r.command \in {"use", "prune"} => c.current = d.current
  BY BasisFields
<1>2. Governors(c, r) \subseteq Known(c)
  BY DEF Applicable
<1>3. r.command \in {"use", "delete", "roleSet", "roleUnset"} => r.target \in Known(c)
  BY DEF Applicable
<1>4. /\ Governors(d, r) \subseteq Governors(c, r) /\ Governors(d, r) \subseteq Known(d)
      /\ r.command = "use" => r.target \in Known(d)
  <2> USE GovernorsOf
  <2>1. CASE r.command \in {"set", "import"}
    <3>1. names(c) = Governors(c, r) /\ names(d) = Governors(d, r)
      BY <2>1
    <3>2. CASE r.target \in Known(d)
      BY <1>1, <1>2, <2>1, <3>1, <3>2
    <3>3. CASE r.target \notin Known(d)
      BY <1>1, <1>2, <2>1, <3>1, <3>3 DEF Consistent
    <3> QED BY <3>2, <3>3
  <2>2. CASE r.command = "use"
    BY <1>1, <1>2, <1>3, <2>2
  <2>3. CASE r.command = "migrate"
    <3>1. Governors(d, r) \subseteq Known(d)
      BY <2>3 DEF Candidates
    <3> QED BY <1>1, <2>3, <3>1
  <2>4. CASE r.command = "prune"
    BY <1>1, <1>2, <2>4 DEF Consistent
  <2>5. CASE Own(r)
    <3>1. r.target \in Known(c) /\ names(c) = {r.target} /\ names(d) = {r.target}
      BY <1>3, <2>5 DEF Own
    <3>2. Governors(d, r) = {r.target} /\ Governors(c, r) = {r.target}
      BY <2>5
    <3> QED BY <1>1, <2>5, <3>1, <3>2 DEF Own
  <2> QED BY <2>1, <2>2, <2>3, <2>4, <2>5, RequestFields DEF Commands, Own
<1>5. ASSUME NEW n \in Governors(d, r) PROVE Permits(d.contexts[n], r.by)
  <2>1. d.contexts[n] = c.contexts[n]
    BY <1>1, <1>2, <1>4
  <2> QED BY <1>4, <2>1 DEF Permitted
<1> QED BY <1>4, <1>5 DEF Permitted

\* The current context and the contexts decide all of it.
LEMMA PoliciesDecide ==
    ASSUME NEW c, NEW d, NEW r \in Requests, SamePolicies(c, d)
    PROVE  Permitted(c, r) <=> Permitted(d, r)
<1>1. c.current = d.current /\ c.contexts = d.contexts
  BY DEF SamePolicies
<1>2. Known(c) = Known(d) /\ Candidates(c, r) = Candidates(d, r)
  BY <1>1 DEF Known, Candidates
<1>3. Governors(c, r) = Governors(d, r)
  BY <1>1, <1>2 DEF Governors
<1> QED BY <1>1, <1>3 DEF Permitted

\* Every command makes of a good configuration a good one.
LEMMA ChangedGood ==
    ASSUME NEW cfg \in Configs, Consistent(cfg), NEW r \in Requests, r.command # "prune",
           r.command = "use" => r.target \in Known(cfg)
    PROVE  Changed(cfg, r) \in Configs /\ Consistent(Changed(cfg, r))
<1> DEFINE next == Changed(cfg, r)
<1> SUFFICES next \in Configs /\ Consistent(next)
  OBVIOUS
<1> HIDE DEF next
<1>0. /\ cfg.api \in {"legacy", "v1"} /\ cfg.current \in Names \cup {None}
      /\ Known(cfg) \in SUBSET Names /\ cfg.contexts \in [Known(cfg) -> Contexts]
      /\ cfg = [api |-> cfg.api, current |-> cfg.current, contexts |-> cfg.contexts]
  BY ConfigShape
<1>1. ASSUME NEW S \in SUBSET Names, NEW f \in [S -> Contexts], NEW now \in S \cup {None},
             next = [api |-> cfg.api, current |-> now, contexts |-> f]
      PROVE  next \in Configs /\ Consistent(next)
  <2>1. next \in Configs
    BY <1>0, <1>1, ConfigBuild
  <2>2. Known(next) = S /\ next.current = now
    BY <1>1 DEF Known
  <2> QED BY <2>1, <2>2 DEF Consistent
<1>2. ASSUME NEW context \in Contexts, r.target \in Names, next = WithContext(cfg, r.target, context)
      PROVE  next \in Configs /\ Consistent(next)
  <2> DEFINE S == Known(cfg) \cup {r.target}
             f == [m \in S |-> IF m = r.target THEN context ELSE cfg.contexts[m]]
  <2>1. S \in SUBSET Names /\ f \in [S -> Contexts]
    BY <1>0, <1>2
  <2>2. next = [api |-> cfg.api, current |-> cfg.current, contexts |-> f]
    BY <1>0, <1>2 DEF WithContext
  <2>3. cfg.current \in S \cup {None}
    BY DEF Consistent
  <2> HIDE DEF f, S
  <2> QED BY <1>1, <2>1, <2>2, <2>3
<1>3. CASE r.command = "set"
  <2>1. NewContext(r) \in Contexts
    BY RequestFields DEF NewContext, Contexts, Roles, RoleNames, NoRoles
  <2> QED BY <1>2, <1>3, <2>1, RequestFields DEF next, Changed
<1>4. CASE r.command = "import"
  BY <1>2, <1>4, RequestFields DEF next, Changed
<1>5. CASE r.command = "use"
  <2>1. next = [api |-> cfg.api, current |-> r.target, contexts |-> cfg.contexts]
    BY <1>0, <1>5 DEF next, Changed
  <2> QED BY <1>0, <1>1, <1>5, <2>1
<1>6. CASE r.command = "delete"
  <2> DEFINE S == Known(cfg) \ {r.target}
             f == [m \in S |-> cfg.contexts[m]]
             now == IF cfg.current = r.target THEN None ELSE cfg.current
  <2>1. S \in SUBSET Names /\ f \in [S -> Contexts] /\ now \in S \cup {None}
    BY <1>0 DEF Consistent
  <2>2. next = [api |-> cfg.api, current |-> now, contexts |-> f]
    BY <1>0, <1>6 DEF next, Changed, Removed
  <2> HIDE DEF f, S, now
  <2> QED BY <1>1, <2>1, <2>2
<1>7. CASE r.command \in {"roleSet", "roleUnset"}
  <2> DEFINE role == IF r.command = "roleSet" THEN r.role ELSE "none"
             f == [cfg.contexts EXCEPT ![r.target].roles[r.operator] = role]
  <2>1. f \in [Known(cfg) -> Contexts]
    <3>1. role \in RoleNames
      BY RequestFields DEF RoleNames
    <3>2. \A c \in Contexts : [c EXCEPT !.roles[r.operator] = role] \in Contexts
      BY <3>1 DEF Contexts, Roles
    <3> QED BY <1>0, <3>2
  <2>2. next = [api |-> cfg.api, current |-> cfg.current, contexts |-> f]
    BY <1>0, <1>7 DEF next, Changed
  <2>3. cfg.current \in Known(cfg) \cup {None}
    BY DEF Consistent
  <2> HIDE DEF f
  <2> QED BY <1>0, <1>1, <2>1, <2>2, <2>3
<1>8. CASE r.command = "migrate"
  <2> DEFINE f == [n \in Known(cfg) |->
                     IF n \in Candidates(cfg, r) THEN [cfg.contexts[n] EXCEPT !.password = Reference]
                     ELSE cfg.contexts[n]]
  <2>1. f \in [Known(cfg) -> Contexts]
    BY <1>0 DEF Contexts
  <2>2. next = [api |-> cfg.api, current |-> cfg.current, contexts |-> f]
    BY <1>0, <1>8 DEF next, Changed
  <2>3. cfg.current \in Known(cfg) \cup {None}
    BY DEF Consistent
  <2> HIDE DEF f
  <2> QED BY <1>0, <1>1, <2>1, <2>2, <2>3
<1> QED BY <1>3, <1>4, <1>5, <1>6, <1>7, <1>8, RequestFields DEF Commands

\* An upgrade keeps the contexts and the choice among them.
LEMMA UpgradeGood ==
    ASSUME NEW cfg \in Configs, Consistent(cfg)
    PROVE  LET next == [cfg EXCEPT !.api = "v1"]
           IN  /\ next \in Configs /\ Consistent(next) /\ SamePolicies(next, cfg)
               /\ next.api = "v1"
<1>1. /\ cfg.current \in Names \cup {None} /\ Known(cfg) \in SUBSET Names
      /\ cfg.contexts \in [Known(cfg) -> Contexts]
      /\ cfg = [api |-> cfg.api, current |-> cfg.current, contexts |-> cfg.contexts]
  BY ConfigShape
<1>2. [cfg EXCEPT !.api = "v1"] = [api |-> "v1", current |-> cfg.current, contexts |-> cfg.contexts]
  BY <1>1
<1>3. [cfg EXCEPT !.api = "v1"] \in Configs
  BY <1>1, <1>2, ConfigBuild
<1> QED BY <1>2, <1>3 DEF Consistent, Known, SamePolicies

\* Configurations are equal when their versions and policies are.
LEMMA SameConfig ==
    ASSUME NEW c \in Configs, NEW d \in Configs, SamePolicies(c, d), c.api = d.api
    PROVE  c = d
<1>1. /\ c = [api |-> c.api, current |-> c.current, contexts |-> c.contexts]
      /\ d = [api |-> d.api, current |-> d.current, contexts |-> d.contexts]
  BY ConfigShape
<1> QED BY <1>1 DEF SamePolicies

-----------------------------------------------------------------------------
(* The invariant. *)

\* TypeOK in parts, and what it leaves out: every history is a function of the invocations.
ControlTypes ==
    /\ pc \in [Procs -> {"preview", "authorize", "upgrade", "truncate", "write", "wait",
                         "verify", "save", "prune", "done", "dead"}]
    /\ request \in [Procs -> Requests]
    /\ content \in Configs /\ file \in {content, None}
    /\ lock \in Procs \cup {None}
    /\ DOMAIN basis = Procs /\ DOMAIN outcome = Procs
    /\ held \in [Procs -> Configs \cup {None}]
    /\ detached \in [Procs -> BOOLEAN] /\ touched \in [Procs -> BOOLEAN]
    /\ superseded \in [Procs -> BOOLEAN]

CountTypes ==
    /\ rotated \subseteq 1..MaxRotated
    /\ preview \in [Procs -> SUBSET (1..MaxRotated)]
    /\ faults \in 0..MaxFaults

StoredTypes == stored \in [Names -> Secrets \cup {NoPassword}]

Typed == ControlTypes /\ CountTypes /\ StoredTypes

\* The authorization of an invocation was one of a file that was good.
Granted(p) ==
    \E cfg \in Configs : /\ Consistent(cfg) /\ Applicable(cfg, request[p])
                         /\ Permitted(cfg, request[p])
                         /\ basis[p] = Basis(cfg, request[p])

\* Where an invocation stands, what it holds and what it compared.
OwnInv(p) ==
    /\ pc[p] \in {"upgrade", "truncate", "write", "wait", "verify", "save", "prune"} => Granted(p)
    /\ pc[p] \in {"upgrade", "truncate", "write", "save"} => request[p].command # "prune"
    /\ pc[p] = "prune" => request[p].command = "prune"
    /\ pc[p] \in {"truncate", "write"} =>
          held[p] \in Configs /\ Consistent(held[p]) /\ held[p].api = "legacy"
    /\ Holding(p) => lock = p /\ held[p] \in Configs /\ Consistent(held[p])
    /\ pc[p] \in {"save", "prune"} => Basis(held[p], request[p]) = basis[p]
    /\ touched[p] => pc[p] \in {"save", "done", "dead"}
    /\ outcome[p] # None => pc[p] = "done"

\* What the holder of the lock read is what the file says, or an upgrade came late.
FreshInv(p) ==
    Holding(p) =>
        /\ request[p].command # "prune" => held[p].api = "v1" /\ content.api = "v1"
        /\ superseded[p] \/ SamePolicies(held[p], content)

ControlInv ==
    /\ Typed /\ Consistent(content)
    /\ \A p \in Procs : basis[p].current \in Names \cup {None}
    /\ \A p \in Procs : OwnInv(p) /\ FreshInv(p)

Command(p) ==
    \/ Preview(p) \/ Authorize(p)
    \/ ReadLegacy(p) \/ Truncate(p) \/ WriteUpgraded(p) \/ UpgradeFails(p)
    \/ LockAndLoad(p) \/ LockFails(p) \/ Verify(p) \/ Save(p)
    \/ VerifyPrune(p) \/ PruneRotatedFiles(p)
    \/ Crash(p)

\* Only an upgrade and a save make a new content.
LEMMA ContentStep ==
    ASSUME NEW p \in Procs, Command(p)
    PROVE  \/ content' = content /\ file' = file
           \/ content' = content /\ file' = None
           \/ pc[p] = "write" /\ content' = [held[p] EXCEPT !.api = "v1"] /\ file' = content'
           \/ pc[p] = "save" /\ content' = Changed(held[p], request[p]) /\ file' = content'
<1> USE DEF Recorded, Evidence
<1>1. CASE Preview(p) \/ Authorize(p) \/ ReadLegacy(p) \/ UpgradeFails(p) \/ Crash(p)
  BY <1>1 DEF Preview, Authorize, ReadLegacy, UpgradeFails, Crash
<1>2. CASE Truncate(p)
  BY <1>2 DEF Truncate
<1>3. CASE WriteUpgraded(p)
  BY <1>3 DEF WriteUpgraded
<1>4. CASE LockAndLoad(p) \/ LockFails(p) \/ Verify(p)
  BY <1>4 DEF LockAndLoad, LockFails, Verify
<1>5. CASE Save(p)
  BY <1>5 DEF Save
<1>6. CASE VerifyPrune(p) \/ PruneRotatedFiles(p)
  BY <1>6 DEF VerifyPrune, PruneRotatedFiles
<1> QED BY <1>1, <1>2, <1>3, <1>4, <1>5, <1>6 DEF Command

\* A save finds a context for the current name: it was compared with what was authorized.
LEMMA GrantHolds ==
    ASSUME NEW p \in Procs, request[p] \in Requests, Granted(p), held[p] \in Configs,
           Consistent(held[p]), Basis(held[p], request[p]) = basis[p]
    PROVE  /\ Permitted(held[p], request[p])
           /\ request[p].command = "use" => request[p].target \in Known(held[p])
<1>1. PICK cfg \in Configs : /\ Consistent(cfg) /\ Applicable(cfg, request[p])
                             /\ Permitted(cfg, request[p])
                             /\ basis[p] = Basis(cfg, request[p])
  BY DEF Granted
<1> QED BY <1>1, BasisDecides

LEMMA ContentGood ==
    ASSUME ControlInv, NEW p \in Procs, Command(p)
    PROVE  content' \in Configs /\ Consistent(content') /\ file' \in {content', None}
<1>1. /\ content \in Configs /\ file \in {content, None} /\ Consistent(content)
      /\ request[p] \in Requests /\ OwnInv(p)
  BY DEF ControlInv, Typed, ControlTypes
<1>2. CASE pc[p] = "write" /\ content' = [held[p] EXCEPT !.api = "v1"] /\ file' = content'
  BY <1>1, <1>2, UpgradeGood DEF OwnInv
<1>3. CASE pc[p] = "save" /\ content' = Changed(held[p], request[p]) /\ file' = content'
  <2>1. /\ Granted(p) /\ held[p] \in Configs /\ Consistent(held[p])
        /\ Basis(held[p], request[p]) = basis[p] /\ request[p].command # "prune"
    BY <1>1, <1>3 DEF OwnInv, Holding
  <2>2. request[p].command = "use" => request[p].target \in Known(held[p])
    BY <1>1, <2>1, GrantHolds
  <2> QED BY <1>1, <1>3, <2>1, <2>2, ChangedGood
<1> QED BY <1>1, <1>2, <1>3, ContentStep

LEMMA ControlStep ==
    ASSUME ControlInv, NEW p \in Procs, Command(p)
    PROVE  ControlTypes'
<1>0. /\ ControlTypes
      /\ content' \in Configs /\ file' \in {content', None}
  BY ContentGood DEF ControlInv, Typed
<1> USE <1>0 DEF ControlTypes, Goto, Recorded, Evidence, Conclude, Untried, Loaded
<1>1. CASE Preview(p)
  BY <1>1 DEF Preview
<1>2. CASE Authorize(p)
  BY <1>2 DEF Authorize
<1>3. CASE ReadLegacy(p)
  BY <1>3 DEF ReadLegacy
<1>4. CASE Truncate(p)
  BY <1>4 DEF Truncate
<1>5. CASE WriteUpgraded(p)
  <2>1. superseded' \in [Procs -> BOOLEAN]
    BY <1>5 DEF WriteUpgraded
  <2>2. /\ pc' = [pc EXCEPT ![p] = "wait"]
        /\ UNCHANGED <<request, lock, basis, held, detached, outcome, touched>>
    BY <1>5 DEF WriteUpgraded
  <2> QED BY <2>1, <2>2
<1>6. CASE UpgradeFails(p)
  BY <1>6 DEF UpgradeFails
<1>7. CASE LockAndLoad(p)
  BY <1>7 DEF LockAndLoad
<1>8. CASE LockFails(p)
  BY <1>8 DEF LockFails
<1>9. CASE Verify(p)
  <2>1. touched' \in [Procs -> BOOLEAN]
    <3>1. \/ touched' = touched
          \/ \E S : touched' = [touched EXCEPT ![p] = S # {}]
          \/ touched' = [touched EXCEPT ![p] = TRUE]
      <4> HIDE <1>0 DEF ControlTypes
      <4> QED BY <1>9 DEF Verify
    <3> QED BY <3>1
  <2>2. /\ \/ pc' = [pc EXCEPT ![p] = "save"] /\ lock' = lock
           \/ /\ pc' = [pc EXCEPT ![p] = "done"]
              /\ lock' = IF lock = p THEN None ELSE lock
        /\ UNCHANGED <<request, basis, held, detached, superseded>>
    <3> HIDE <1>0 DEF ControlTypes
    <3> QED BY <1>9 DEF Verify
  <2>3. outcome' = outcome \/ \E what : outcome' = [outcome EXCEPT ![p] = what]
    <3> HIDE <1>0 DEF ControlTypes
    <3> QED BY <1>9 DEF Verify
  <2>4. DOMAIN outcome' = Procs
    BY <2>3
  <2> QED BY <2>1, <2>2, <2>4
<1>10. CASE Save(p)
  <2>0. /\ touched' = touched \/ touched' = [touched EXCEPT ![p] = TRUE]
        /\ \/ detached' = detached
           \/ detached' = [q \in Procs |-> detached[q] \/ pc[q] = "write"]
    <3> HIDE <1>0 DEF ControlTypes
    <3> QED BY <1>10 DEF Save
  <2>1. touched' \in [Procs -> BOOLEAN] /\ detached' \in [Procs -> BOOLEAN]
    BY <2>0
  <2>2. /\ pc' = [pc EXCEPT ![p] = "done"]
        /\ lock' = IF lock = p THEN None ELSE lock
        /\ UNCHANGED <<request, basis, held, superseded>>
    <3> HIDE <1>0 DEF ControlTypes
    <3> QED BY <1>10 DEF Save
  <2>3. DOMAIN outcome' = Procs
    BY <1>10 DEF Save
  <2> QED BY <2>1, <2>2, <2>3
<1>11. CASE VerifyPrune(p)
  BY <1>11 DEF VerifyPrune
<1>12. CASE PruneRotatedFiles(p)
  <2>1. touched' \in [Procs -> BOOLEAN]
    BY <1>12 DEF PruneRotatedFiles
  <2>2. /\ pc' = [pc EXCEPT ![p] = "done"]
        /\ lock' = IF lock = p THEN None ELSE lock
        /\ DOMAIN outcome' = Procs
        /\ UNCHANGED <<request, basis, held, detached, superseded>>
    BY <1>12 DEF PruneRotatedFiles
  <2> QED BY <2>1, <2>2
<1>13. CASE Crash(p)
  BY <1>13 DEF Crash
<1> QED BY <1>1, <1>2, <1>3, <1>4, <1>5, <1>6, <1>7, <1>8, <1>9, <1>10, <1>11, <1>12, <1>13
        DEF Command

\* A command leaves what the other invocations have alone.
LEMMA OthersKept ==
    ASSUME ControlTypes, NEW p \in Procs, Command(p), OwnInv(p), NEW q \in Procs \ {p}
    PROVE  /\ pc'[q] = pc[q] /\ request'[q] = request[q] /\ basis'[q] = basis[q]
           /\ held'[q] = held[q] /\ touched'[q] = touched[q] /\ outcome'[q] = outcome[q]
           /\ lock = q => lock' = q
<1> USE DEF ControlTypes, Goto, Recorded, Evidence, Conclude, Untried
<1>1. CASE Preview(p) \/ Authorize(p) \/ ReadLegacy(p) \/ Truncate(p)
  BY <1>1 DEF Preview, Authorize, ReadLegacy, Truncate
<1>2. CASE WriteUpgraded(p) \/ UpgradeFails(p)
  BY <1>2 DEF WriteUpgraded, UpgradeFails
<1>3. CASE LockAndLoad(p) \/ LockFails(p)
  BY <1>3, ControlAssumption DEF LockAndLoad, LockFails, LockFree
<1>4. CASE Verify(p)
  BY <1>4 DEF Verify
<1>5. CASE Save(p)
  BY <1>5 DEF Save
<1>6. CASE PruneRotatedFiles(p)
  BY <1>6 DEF PruneRotatedFiles
<1>7. CASE VerifyPrune(p)
  BY <1>7 DEF VerifyPrune, OwnInv, Holding
<1>8. CASE Crash(p)
  BY <1>8 DEF Crash
<1> QED BY <1>1, <1>2, <1>3, <1>4, <1>5, <1>6, <1>7, <1>8 DEF Command

LEMMA GrantKept ==
    ASSUME NEW p \in Procs, request'[p] = request[p], basis'[p] = basis[p], Granted(p)
    PROVE  Granted(p)'
BY DEF Granted

LEMMA OwnStep ==
    ASSUME ControlInv, NEW p \in Procs, Command(p)
    PROVE  OwnInv(p)'
<1>0. /\ ControlTypes /\ Consistent(content) /\ OwnInv(p)
      /\ request'[p] = request[p]
  <2>1. request' = request
    BY DEF Command, Preview, Authorize, ReadLegacy, Truncate, WriteUpgraded, UpgradeFails,
           LockAndLoad, LockFails, Verify, Save, VerifyPrune, PruneRotatedFiles, Crash
  <2> QED BY <2>1 DEF ControlInv, Typed
<1>g. basis'[p] = basis[p] /\ Granted(p) => Granted(p)'
  BY <1>0, GrantKept
<1> USE <1>0, <1>g
    DEF ControlTypes, OwnInv, Holding, Goto, Recorded, Evidence, Conclude, Untried, Loaded
<1>1. CASE Preview(p)
  BY <1>1 DEF Preview
<1>2. CASE Authorize(p)
  <2>1. CASE pc'[p] = "done"
    BY <1>2, <2>1 DEF Authorize
  <2>2. CASE pc'[p] # "done"
    <3>1. /\ content \in Configs /\ Applicable(content, request[p])
          /\ Permitted(content, request[p])
          /\ basis'[p] = Basis(content, request[p])
      BY <1>2, <2>2 DEF Authorize
    <3>2. Granted(p)'
      BY <3>1 DEF Granted
    <3> QED BY <1>2, <2>2, <3>2 DEF Authorize
  <2> QED BY <2>1, <2>2
<1>3. CASE ReadLegacy(p)
  BY <1>3 DEF ReadLegacy
<1>4. CASE Truncate(p)
  BY <1>4 DEF Truncate
<1>5. CASE WriteUpgraded(p)
  BY <1>5 DEF WriteUpgraded
<1>6. CASE UpgradeFails(p)
  BY <1>6 DEF UpgradeFails
<1>7. CASE LockAndLoad(p)
  BY <1>7 DEF LockAndLoad
<1>8. CASE LockFails(p)
  BY <1>8 DEF LockFails
<1>9. CASE Verify(p)
  <2>1. CASE pc'[p] = "save"
    <3>1. /\ Basis(held[p], request[p]) = basis[p] /\ lock' = lock /\ held' = held
          /\ basis' = basis /\ outcome' = outcome
      BY <1>9, <2>1 DEF Verify, SameBasis
    <3> QED BY <1>9, <2>1, <3>1 DEF Verify
  <2>2. CASE pc'[p] # "save"
    <3>1. pc'[p] = "done"
      BY <1>9, <2>2 DEF Verify
    <3> QED BY <3>1
  <2> QED BY <2>1, <2>2
<1>10. CASE Save(p)
  <2>1. pc'[p] = "done"
    BY <1>10 DEF Save
  <2> QED BY <2>1
<1>11. CASE VerifyPrune(p)
  BY <1>11 DEF VerifyPrune, SameBasis
<1>12. CASE PruneRotatedFiles(p)
  <2>1. pc'[p] = "done"
    BY <1>12 DEF PruneRotatedFiles
  <2> QED BY <2>1
<1>13. CASE Crash(p)
  BY <1>13 DEF Crash, Ended
<1> QED BY <1>1, <1>2, <1>3, <1>4, <1>5, <1>6, <1>7, <1>8, <1>9, <1>10, <1>11, <1>12, <1>13
        DEF Command

LEMMA FreshStep ==
    ASSUME ControlInv, NEW p \in Procs, Command(p), NEW q \in Procs
    PROVE  FreshInv(q)'
<1>0. /\ ControlTypes /\ OwnInv(p) /\ OwnInv(q) /\ FreshInv(p) /\ FreshInv(q)
      /\ request' = request
  <2>1. request' = request
    BY DEF Command, Preview, Authorize, ReadLegacy, Truncate, WriteUpgraded, UpgradeFails,
           LockAndLoad, LockFails, Verify, Save, VerifyPrune, PruneRotatedFiles, Crash
  <2> QED BY <2>1 DEF ControlInv, Typed
<1>1. CASE WriteUpgraded(p)
  <2>1. /\ held' = held /\ pc'[p] = "wait"
        /\ q # p => pc'[q] = pc[q]
    BY <1>0, <1>1 DEF WriteUpgraded, ControlTypes, Goto
  <2>2. SUFFICES ASSUME Holding(q), q # p
                 PROVE  /\ request[q].command # "prune" => held[q].api = "v1" /\ content'.api = "v1"
                        /\ superseded'[q] \/ SamePolicies(held[q], content')
    BY <1>0, <2>1 DEF FreshInv, Holding
  <2>3. CASE UNCHANGED <<content, superseded>>
    BY <1>0, <2>2, <2>3 DEF FreshInv
  <2>4. CASE ~UNCHANGED <<content, superseded>>
    <3>1. /\ content' = [held[p] EXCEPT !.api = "v1"]
          /\ superseded'[q] = (superseded[q] \/ ~SamePolicies(held[p], content))
      BY <1>1, <2>2, <2>4 DEF WriteUpgraded
    <3>2. content'.api = "v1" /\ SamePolicies(content', held[p])
      BY <1>0, <1>1, <3>1, UpgradeGood DEF OwnInv, WriteUpgraded
    <3>3. CASE SamePolicies(held[p], content)
      BY <1>0, <2>2, <3>1, <3>2, <3>3 DEF FreshInv, SamePolicies
    <3>4. CASE ~SamePolicies(held[p], content)
      BY <1>0, <2>2, <3>1, <3>2, <3>4 DEF FreshInv
    <3> QED BY <3>3, <3>4
  <2> QED BY <2>3, <2>4
<1>2. CASE ~WriteUpgraded(p) /\ content' = content
  <2>1. superseded' = superseded
    BY <1>2 DEF Command, Preview, Authorize, ReadLegacy, Truncate, UpgradeFails,
           LockAndLoad, LockFails, Verify, Save, VerifyPrune, PruneRotatedFiles, Crash, Recorded
  <2>2. CASE q # p
    BY <1>0, <1>2, <2>1, <2>2, OthersKept DEF FreshInv, Holding
  <2>3. CASE q = p /\ LockAndLoad(p)
    BY <1>0, <1>2, <2>1, <2>3
       DEF FreshInv, Holding, LockAndLoad, Loaded, Untried, Conclude, Goto, ControlTypes,
           SamePolicies
  <2>4. CASE q = p /\ ~LockAndLoad(p)
    <3>1. Holding(p)' => Holding(p) /\ held'[p] = held[p]
      BY <1>0, <1>2, <2>4
         DEF Command, Preview, Authorize, ReadLegacy, Truncate, UpgradeFails, LockFails, Verify,
             Save, VerifyPrune, PruneRotatedFiles, Crash, Goto, Conclude, Untried, Holding,
             ControlTypes
    <3> QED BY <1>0, <1>2, <2>1, <2>4, <3>1 DEF FreshInv
  <2> QED BY <2>2, <2>3, <2>4
<1>3. CASE ~WriteUpgraded(p) /\ content' # content
  <2>1. Save(p)
    BY <1>3 DEF Command, Preview, Authorize, ReadLegacy, Truncate, UpgradeFails,
           LockAndLoad, LockFails, Verify, VerifyPrune, PruneRotatedFiles, Crash, Recorded
  <2>2. pc[p] = "save" /\ pc'[p] = "done" /\ (q # p => pc'[q] = pc[q])
    BY <1>0, <2>1 DEF Save, Conclude, Goto, ControlTypes
  <2>3. ~Holding(q)'
    BY <1>0, <2>2 DEF OwnInv, Holding
  <2> QED BY <2>3 DEF FreshInv
<1> QED BY <1>1, <1>2, <1>3

-----------------------------------------------------------------------------
(* The credential store, the rotated logs, and what is counted of them. *)

\* A migration stores the passwords that were in the file, nothing else.
LEMMA PutsKnown ==
    ASSUME NEW p \in Procs, request[p] \in Requests, Granted(p)
    PROVE  LET puts == Puts(request[p], basis[p])
           IN  /\ DOMAIN puts \subseteq Names
               /\ \A n \in DOMAIN puts : puts[n] \in Secrets
               /\ DOMAIN puts # {} => Cardinality(DOMAIN puts) = Items(p)
<1> DEFINE r == request[p]
           puts == Puts(r, basis[p])
<1>1. CASE r.command = "migrate"
  <2>1. PICK cfg \in Configs : basis[p] = Basis(cfg, r)
    BY DEF Granted
  <2>2. Governors(cfg, r) = Candidates(cfg, r) /\ Known(cfg) \subseteq Names
    BY <1>1, GovernorsOf, ConfigShape
  <2>3. basis[p].contexts = [n \in Candidates(cfg, r) \cap Known(cfg) |-> cfg.contexts[n]]
    BY <1>1, <2>1, <2>2 DEF Basis
  <2>4. puts = [n \in DOMAIN basis[p].contexts |-> basis[p].contexts[n].password]
    BY <1>1 DEF Puts
  <2>5. DOMAIN puts = Candidates(cfg, r) \cap Known(cfg)
    BY <2>3, <2>4
  <2>6. ASSUME NEW n \in DOMAIN puts PROVE puts[n] \in Secrets
    BY <2>3, <2>4, <2>5 DEF Candidates
  <2>7. Cardinality(DOMAIN puts) = Items(p)
    BY <1>1, <2>4 DEF Items
  <2> QED BY <2>2, <2>5, <2>6, <2>7
<1>2. CASE r.command = "set" /\ r.password # NoPassword
  <2>1. puts = [n \in {r.target} |-> r.password]
    BY <1>2 DEF Puts
  <2>2. r.target \in Names /\ r.password \in Secrets
    BY <1>2, RequestFields
  <2>3. DOMAIN puts = {r.target} /\ puts[r.target] = r.password
    BY <2>1
  <2>4. Cardinality(DOMAIN puts) = 1
    BY <2>3, FS_Singleton
  <2>5. Items(p) = 1
    BY <1>2 DEF Items
  <2> QED BY <2>2, <2>3, <2>4, <2>5
<1>3. CASE ~(r.command = "migrate") /\ ~(r.command = "set" /\ r.password # NoPassword)
  <2>1. puts = [n \in {} |-> NoPassword]
    BY <1>3 DEF Puts
  <2> QED BY <2>1
<1> QED BY <1>1, <1>2, <1>3

\* The items of a change never exceed what an outcome can count.
LEMMA ItemsBounded ==
    ASSUME NEW p \in Procs, request[p] \in Requests, Granted(p),
           preview[p] \in SUBSET (1..MaxRotated)
    PROVE  Items(p) \in 0..MaxCount
<1> DEFINE r == request[p]
<1>0. /\ MaxCount \in Nat \ {0} /\ MaxRotated \in Nat /\ MaxRotated <= MaxCount
      /\ IsFiniteSet(Names) /\ Cardinality(Names) <= MaxCount
  BY ControlAssumption, AccountingAssumption
<1>1. CASE r.command = "migrate"
  <2>1. DOMAIN basis[p].contexts \subseteq Names
    <3>1. PICK cfg \in Configs : basis[p] = Basis(cfg, r)
      BY DEF Granted
    <3>2. Known(cfg) \subseteq Names
      BY ConfigShape
    <3> QED BY <3>1, <3>2 DEF Basis
  <2>2. /\ IsFiniteSet(DOMAIN basis[p].contexts)
        /\ Cardinality(DOMAIN basis[p].contexts) <= Cardinality(Names)
    BY <1>0, <2>1, FS_Subset
  <2>3. Cardinality(DOMAIN basis[p].contexts) \in Nat /\ Cardinality(Names) \in Nat
    BY <1>0, <2>2, FS_CardinalityType
  <2>4. Items(p) = Cardinality(DOMAIN basis[p].contexts)
    BY <1>1 DEF Items
  <2> QED BY <1>0, <2>2, <2>3, <2>4
<1>2. CASE r.command = "prune"
  <2>0. 1 \in Int /\ MaxRotated \in Int /\ ~(1 > MaxRotated)
    BY ControlAssumption, AccountingAssumption
  <2>1. /\ IsFiniteSet(1..MaxRotated)
        /\ Cardinality(1..MaxRotated) = MaxRotated - 1 + 1
    BY <2>0, FS_Interval
  <2>2. Prunable(preview[p]) \in SUBSET (1..MaxRotated)
    BY DEF Prunable
  <2>3. /\ IsFiniteSet(Prunable(preview[p]))
        /\ Cardinality(Prunable(preview[p])) <= Cardinality(1..MaxRotated)
    BY <2>1, <2>2, FS_Subset
  <2>4. Cardinality(Prunable(preview[p])) \in Nat
    BY <2>3, FS_CardinalityType
  <2>5. Items(p) = Cardinality(Prunable(preview[p]))
    BY <1>2 DEF Items
  <2> QED BY <1>0, <2>1, <2>3, <2>4, <2>5
<1>3. CASE r.command \notin {"migrate", "prune"}
  BY <1>0, <1>3 DEF Items
<1> QED BY <1>1, <1>2, <1>3

\* TypeOK's numbers and the credential store.
LEMMA CountStep ==
    ASSUME ControlInv, NEW p \in Procs, Command(p)
    PROVE  CountTypes' /\ StoredTypes'
<1>0. /\ CountTypes /\ StoredTypes /\ request[p] \in Requests /\ OwnInv(p)
      /\ MaxFaults \in Nat
  BY ControlAssumption DEF ControlInv, Typed, ControlTypes
<1>1. rotated' \subseteq rotated
  BY DEF Command, Preview, Authorize, ReadLegacy, Truncate, WriteUpgraded, UpgradeFails,
         LockAndLoad, LockFails, Verify, Save, VerifyPrune, PruneRotatedFiles, Crash, Evidence
<1>2. \/ preview' = preview
      \/ preview' = [preview EXCEPT ![p] = IF request[p].command = "prune" THEN rotated ELSE {}]
  BY DEF Command, Preview, Authorize, ReadLegacy, Truncate, WriteUpgraded, UpgradeFails,
         LockAndLoad, LockFails, Verify, Save, VerifyPrune, PruneRotatedFiles, Crash, Evidence
<1>3. preview' \in [Procs -> SUBSET (1..MaxRotated)]
  BY <1>0, <1>2 DEF CountTypes
<1>4. UNCHANGED faults \/ Fault
  BY DEF Command, Preview, Authorize, ReadLegacy, Truncate, WriteUpgraded, UpgradeFails,
         LockAndLoad, LockFails, Verify, Save, VerifyPrune, PruneRotatedFiles, Crash
<1>5. faults' \in 0..MaxFaults
  BY <1>0, <1>4 DEF CountTypes, Fault
<1>6. StoredTypes'
  <2>1. CASE stored' = stored
    BY <1>0, <2>1 DEF StoredTypes
  <2>2. CASE stored' # stored
    <3> DEFINE puts == Puts(request[p], basis[p])
    <3>1. Verify(p)
      BY <2>2 DEF Command, Preview, Authorize, ReadLegacy, Truncate, WriteUpgraded, UpgradeFails,
             LockAndLoad, LockFails, Save, VerifyPrune, PruneRotatedFiles, Crash, Recorded
    <3>2. PICK S \in SUBSET DOMAIN puts :
             stored' = [n \in Names |-> IF n \in S THEN puts[n] ELSE stored[n]]
      <4> HIDE DEF puts
      <4>1. \/ stored' = [n \in Names |-> IF n \in DOMAIN puts THEN puts[n] ELSE stored[n]]
            \/ \E S \in SUBSET DOMAIN puts : \E n \in DOMAIN puts \ S :
                 \/ stored' = [m \in Names |-> IF m \in S THEN puts[m] ELSE stored[m]]
                 \/ stored' = [m \in Names |-> IF m \in S \cup {n} THEN puts[m] ELSE stored[m]]
        BY <2>2, <3>1 DEF Verify, puts
      <4> QED BY <4>1
    <3>3. \A n \in DOMAIN puts : puts[n] \in Secrets \cup {NoPassword}
      BY <1>0, <3>1, PutsKnown DEF OwnInv, Verify
    <3> HIDE DEF puts
    <3> QED BY <1>0, <3>2, <3>3 DEF StoredTypes
  <2> QED BY <2>1, <2>2
<1> QED BY <1>0, <1>1, <1>3, <1>5, <1>6 DEF CountTypes

LEMMA BasisStep ==
    ASSUME ControlInv, NEW p \in Procs, Command(p), NEW q \in Procs
    PROVE  basis'[q].current \in Names \cup {None}
<1>0. ControlTypes /\ basis[q].current \in Names \cup {None}
  BY DEF ControlInv, Typed
<1>1. basis' = basis \/ basis' = [basis EXCEPT ![p] = Basis(content, request[p])]
  BY <1>0 DEF Command, Preview, Authorize, ReadLegacy, Truncate, WriteUpgraded, UpgradeFails,
         LockAndLoad, LockFails, Verify, Save, VerifyPrune, PruneRotatedFiles, Crash, Loaded,
         ControlTypes
<1>2. Basis(content, request[p]).current \in Names \cup {None}
  BY <1>0, ConfigShape DEF Basis, ControlTypes
<1> QED BY <1>0, <1>1, <1>2 DEF ControlTypes

-----------------------------------------------------------------------------
LEMMA ControlInit == Init => ControlInv
<1> SUFFICES ASSUME Init PROVE ControlInv
  OBVIOUS
<1>1. file \in Configs /\ Consistent(file)
  BY ControlAssumption DEF Init, Consistent, Known
<1>2. ControlTypes
  BY <1>1 DEF Init, ControlTypes
<1>3. CountTypes
  <2>1. MaxRotated \in Nat /\ MaxRotated >= 2 /\ MaxFaults \in Nat
    BY ControlAssumption, AccountingAssumption
  <2> QED BY <2>1 DEF Init, CountTypes
<1>4. StoredTypes
  BY ControlAssumption DEF Init, StoredTypes
<1>5. ASSUME NEW p \in Procs
      PROVE  OwnInv(p) /\ FreshInv(p) /\ basis[p].current \in Names \cup {None}
  BY DEF Init, OwnInv, FreshInv, Holding, Empty
<1>6. Consistent(content)
  BY <1>1 DEF Init
<1> QED BY <1>2, <1>3, <1>4, <1>5, <1>6 DEF ControlInv, Typed

LEMMA ControlNext == ControlInv /\ [Next]_vars => ControlInv'
<1> SUFFICES ASSUME ControlInv, [Next]_vars PROVE ControlInv'
  OBVIOUS
<1>1. ASSUME NEW p \in Procs, Command(p) PROVE ControlInv'
  <2>1. Typed' /\ Consistent(content')
    BY <1>1, ControlStep, CountStep, ContentGood DEF Typed
  <2>2. ASSUME NEW q \in Procs
        PROVE  OwnInv(q)' /\ FreshInv(q)' /\ basis'[q].current \in Names \cup {None}
    <3>1. CASE q = p
      BY <1>1, <3>1, OwnStep, FreshStep, BasisStep
    <3>2. CASE q # p
      <4>1. /\ ControlTypes /\ OwnInv(p) /\ OwnInv(q)
        BY DEF ControlInv, Typed
      <4>2. /\ pc'[q] = pc[q] /\ request'[q] = request[q] /\ basis'[q] = basis[q]
            /\ held'[q] = held[q] /\ touched'[q] = touched[q] /\ outcome'[q] = outcome[q]
            /\ lock = q => lock' = q
        BY <1>1, <3>2, <4>1, OthersKept
      <4>3. OwnInv(q)'
        BY <4>1, <4>2, GrantKept DEF OwnInv, Holding
      <4> QED BY <1>1, <4>3, FreshStep, BasisStep
    <3> QED BY <3>1, <3>2
  <2>3. Consistent(content)'
    BY <2>1 DEF Consistent, Known
  <2> QED BY <2>1, <2>2, <2>3 DEF ControlInv
<1>2. CASE Rotate
  <2>1. CountTypes'
    BY <1>2 DEF Rotate, ControlInv, Typed, CountTypes
  <2>2. /\ ControlTypes' /\ StoredTypes'
    BY <1>2 DEF Rotate, Recorded, ControlInv, Typed, ControlTypes, StoredTypes
  <2>3. ASSUME NEW q \in Procs PROVE OwnInv(q)' /\ FreshInv(q)'
    BY <1>2 DEF Rotate, Recorded, ControlInv, OwnInv, FreshInv, Holding, Granted
  <2> QED BY <1>2, <2>1, <2>2, <2>3 DEF Rotate, Recorded, ControlInv, Typed, Consistent, Known
<1>3. CASE UNCHANGED vars
  <2>1. Typed'
    BY <1>3 DEF vars, ControlInv, Typed, ControlTypes, CountTypes, StoredTypes
  <2>2. ASSUME NEW q \in Procs PROVE OwnInv(q)' /\ FreshInv(q)'
    BY <1>3 DEF vars, ControlInv, OwnInv, FreshInv, Holding, Granted
  <2> QED BY <1>3, <2>1, <2>2 DEF vars, ControlInv, Consistent, Known
<1> QED BY <1>1, <1>2, <1>3 DEF Next, AllEnded, Command

-----------------------------------------------------------------------------
\* The control plane keeps the types of its state: every file a command saves is a
\* configuration again, and no counter leaves its bounds.
THEOREM ControlTypeCorrect == Spec => []TypeOK
<1>1. ControlInv => TypeOK
  BY DEF ControlInv, Typed, ControlTypes, CountTypes, StoredTypes, TypeOK
<1> QED BY <1>1, ControlInit, ControlNext, PTL DEF Spec

\* However many commands delete, import and switch contexts, whose policies they read without
\* the lock, the current context always has a policy.
THEOREM CurrentContextExists == Spec => []CurrentExists
<1>1. ControlInv => CurrentExists
  BY DEF ControlInv, Consistent, CurrentExists
<1> QED BY <1>1, ControlInit, ControlNext, PTL DEF Spec

\* What an invocation that compared the policy under the lock may still do: the policy in
\* force lets it, or an upgrade came late.
LEMMA HolderPermitted ==
    ASSUME ControlInv, NEW p \in Procs, Holding(p), Basis(held[p], request[p]) = basis[p]
    PROVE  superseded[p] \/ Permitted(content, request[p])
<1>1. /\ request[p] \in Requests /\ OwnInv(p) /\ FreshInv(p)
  BY DEF ControlInv, Typed, ControlTypes
<1>2. Granted(p) /\ held[p] \in Configs /\ Consistent(held[p])
  BY <1>1 DEF OwnInv, Holding
<1>3. Permitted(held[p], request[p])
  BY <1>1, <1>2, GrantHolds
<1> QED BY <1>1, <1>3, PoliciesDecide DEF FreshInv

\* An invocation changes something only under the lock, after it compared the policy.
LEMMA TouchesAsHolder ==
    ASSUME ControlInv, NEW p \in Procs, Command(p), NEW q \in Procs, touched'[q], ~touched[q]
    PROVE  Holding(q) /\ Basis(held[q], request[q]) = basis[q]
<1>1. ControlTypes /\ OwnInv(p) /\ OwnInv(q)
  BY DEF ControlInv, Typed
<1>2. q = p
  BY <1>1, OthersKept
<1>3. Verify(p) \/ Save(p) \/ PruneRotatedFiles(p)
  BY <1>1, <1>2 DEF Command, Preview, Authorize, ReadLegacy, Truncate, WriteUpgraded,
         UpgradeFails, LockAndLoad, LockFails, VerifyPrune, Crash, Recorded
<1>4. CASE Verify(p)
  BY <1>1, <1>2, <1>4 DEF Verify, SameBasis, Holding
<1>5. CASE Save(p) \/ PruneRotatedFiles(p)
  <2>1. pc[p] \in {"save", "prune"}
    BY <1>5 DEF Save, PruneRotatedFiles
  <2> QED BY <1>1, <1>2, <2>1 DEF OwnInv, Holding
<1> QED BY <1>3, <1>4, <1>5

\* Whatever a command changes, the policy in force at that moment permits, although the
\* command was authorized by one it read without the lock: for any number of invocations,
\* unless a late upgrade of a legacy file put an older policy back.
THEOREM ChangesGoverned == Spec => GovernedChange
<1> DEFINE Governed ==
      \A p \in Procs : touched'[p] /\ (~touched[p] \/ (pc[p] = "save" /\ content' # content)) =>
          superseded[p] \/ Permitted(content, request[p])
<1>1. Spec => []ControlInv
  BY ControlInit, ControlNext, PTL DEF Spec
<1>2. ControlInv /\ [Next]_vars => [Governed]_vars
  <2> SUFFICES ASSUME ControlInv, Next, NEW p \in Procs, touched'[p],
                      ~touched[p] \/ pc[p] = "save"
               PROVE  superseded[p] \/ Permitted(content, request[p])
    OBVIOUS
  <2>1. CASE pc[p] = "save"
    BY <2>1, HolderPermitted DEF ControlInv, OwnInv, Holding
  <2>2. CASE ~touched[p]
    <3>1. PICK q \in Procs : Command(q)
      BY <2>2 DEF Next, Command, Rotate, Recorded, AllEnded, vars
    <3>2. Holding(p) /\ Basis(held[p], request[p]) = basis[p]
      BY <2>2, <3>1, TouchesAsHolder
    <3> QED BY <3>2, HolderPermitted
  <2> QED BY <2>1, <2>2
<1> QED BY <1>1, <1>2, PTL DEF Spec, GovernedChange

\* Nothing lets two invocations hold the lock of the context file.
LEMMA OneHolder ==
    ASSUME ControlInv, NEW p \in Procs, NEW q \in Procs, Holding(p), Holding(q)
    PROVE  p = q
BY DEF ControlInv, OwnInv

\* Every new content comes from an upgrade or a save.
LEMMA ContentWriter ==
    ASSUME ControlInv, Next, content' # content
    PROVE  \E p \in Procs :
              \/ pc[p] = "write" /\ content' = [held[p] EXCEPT !.api = "v1"]
              \/ pc[p] = "save" /\ content' = Changed(held[p], request[p])
<1>1. PICK p \in Procs : Command(p)
  BY DEF Next, Command, Rotate, Recorded, AllEnded, vars
<1> QED BY <1>1, ContentStep

\* While audit prune compares the policy and deletes evidence, no command changes a context:
\* only an upgrade of a legacy file, which takes no lock, can.
THEOREM PrunePolicyKept == Spec => PolicyImmutable
<1> DEFINE Kept ==
      \A p \in Procs : pc[p] \in {"verify", "prune"} /\ request[p].command = "prune" =>
          \/ SamePolicies(content', content)
          \/ \E q \in Procs : pc[q] = "write" /\ held[q].api = "legacy"
                              /\ content' = [held[q] EXCEPT !.api = "v1"]
<1>1. Spec => []ControlInv
  BY ControlInit, ControlNext, PTL DEF Spec
<1>2. ControlInv /\ [Next]_vars => [Kept]_vars
  <2> SUFFICES ASSUME ControlInv, Next, content' # content, NEW p \in Procs,
                      pc[p] \in {"verify", "prune"}, request[p].command = "prune"
               PROVE  \E q \in Procs : pc[q] = "write" /\ held[q].api = "legacy"
                                       /\ content' = [held[q] EXCEPT !.api = "v1"]
    BY DEF SamePolicies
  <2>1. PICK q \in Procs :
          \/ pc[q] = "write" /\ content' = [held[q] EXCEPT !.api = "v1"]
          \/ pc[q] = "save" /\ content' = Changed(held[q], request[q])
    BY ContentWriter
  <2>2. pc[q] # "save"
    BY OneHolder DEF Holding
  <2>3. pc[q] = "write" /\ content' = [held[q] EXCEPT !.api = "v1"]
    BY <2>1, <2>2
  <2>4. held[q].api = "legacy"
    BY <2>3 DEF ControlInv, OwnInv
  <2> QED BY <2>3, <2>4
<1> QED BY <1>1, <1>2, PTL DEF Spec, PolicyImmutable

\* A rotated log that goes is one that the operator of the prune saw among the candidates, and
\* that is one still; what was to be kept stays, whoever rotated the log or pruned meanwhile.
THEOREM PrunesWhatWasSeen == Spec => PrunesAsPreviewed
<1> DEFINE Seen ==
      \A f \in rotated \ rotated' : \E p \in Procs :
          /\ pc[p] = "prune"
          /\ f \in Prunable(preview[p]) \cap Prunable(rotated)
          /\ preview[p] \ Prunable(preview[p]) \subseteq rotated'
<1>1. Next => Seen
  <2> SUFFICES ASSUME Next, NEW f \in rotated \ rotated' PROVE Seen
    OBVIOUS
  <2>1. PICK p \in Procs : Command(p)
    BY DEF Next, Command, Rotate, AllEnded, vars
  <2>2. PruneRotatedFiles(p)
    BY <2>1 DEF Command, Preview, Authorize, ReadLegacy, Truncate, WriteUpgraded, UpgradeFails,
           LockAndLoad, LockFails, Verify, Save, VerifyPrune, Crash, Evidence
  <2>3. /\ pc[p] = "prune" /\ rotated = preview[p]
        /\ \E deleted \in SUBSET Prunable(preview[p]) : rotated' = rotated \ deleted
    BY <2>2 DEF PruneRotatedFiles, Expected
  <2> QED BY <2>3 DEF Prunable
<1>2. [Next]_vars => [Seen]_vars
  BY <1>1
<1> QED BY <1>2, PTL DEF Spec, PrunesAsPreviewed

\* A holder that nobody superseded holds the content of the file itself.
LEMMA SavesWhatIs ==
    ASSUME ControlInv, NEW p \in Procs, pc[p] = "save", ~superseded[p]
    PROVE  held[p] = content
<1>1. /\ content \in Configs /\ held[p] \in Configs /\ SamePolicies(held[p], content)
      /\ held[p].api = content.api
  BY DEF ControlInv, Typed, ControlTypes, OwnInv, FreshInv, Holding
<1> QED BY <1>1, SameConfig

\* No update is lost: for any number of invocations, what a command saves is what it makes
\* of the content before it, unless a late upgrade of a legacy file came in between.
THEOREM NoUpdateLost == Spec => UpdatesCompose
<1> DEFINE Composed ==
      content' # content =>
          \/ \E p \in Procs : pc[p] = "write" /\ content' = [held[p] EXCEPT !.api = "v1"]
          \/ \E p \in Procs :
               /\ pc[p] = "save"
               /\ superseded[p] \/ content' = Changed(content, request[p])
<1>1. Spec => []ControlInv
  BY ControlInit, ControlNext, PTL DEF Spec
<1>2. ControlInv /\ [Next]_vars => [Composed]_vars
  <2> SUFFICES ASSUME ControlInv, Next, content' # content PROVE Composed
    OBVIOUS
  <2> QED BY ContentWriter, SavesWhatIs
<1> QED BY <1>1, <1>2, PTL DEF Spec, UpdatesCompose

-----------------------------------------------------------------------------
(* Without a legacy file. *)

UpgradedInv ==
    /\ content.api = "v1"
    /\ \A p \in Procs : pc[p] \notin {"truncate", "write"} /\ ~superseded[p]

\* A command leaves the version of the file alone.
LEMMA ChangedApi ==
    ASSUME NEW cfg \in Configs, NEW r \in Requests, r.command # "prune"
    PROVE  Changed(cfg, r).api = cfg.api
<1>1. cfg = [api |-> cfg.api, current |-> cfg.current, contexts |-> cfg.contexts]
  BY ConfigShape
<1>2. /\ \A context : WithContext(cfg, r.target, context).api = cfg.api
      /\ Removed(cfg, r.target).api = cfg.api
  BY <1>1 DEF WithContext, Removed
<1>3. /\ \A name : [cfg EXCEPT !.current = name].api = cfg.api
      /\ \A f : [cfg EXCEPT !.contexts = f].api = cfg.api
      /\ \A role : [cfg EXCEPT !.contexts[r.target].roles[r.operator] = role].api = cfg.api
  BY <1>1
<1>4. CASE r.command \in {"set", "import", "use", "delete"}
  BY <1>2, <1>3, <1>4 DEF Changed
<1>5. CASE r.command \in {"roleSet", "roleUnset", "migrate"}
  BY <1>3, <1>5 DEF Changed
<1> QED BY <1>4, <1>5, RequestFields DEF Commands

LEMMA UpgradedStep ==
    ASSUME ControlInv, UpgradedInv, [Next]_vars
    PROVE  UpgradedInv'
<1>1. CASE UNCHANGED <<content, pc, superseded>>
  BY <1>1 DEF UpgradedInv
<1>2. CASE \E p \in Procs : Command(p)
  <2>1. PICK p \in Procs : Command(p)
    BY <1>2
  <2>2. ControlTypes /\ OwnInv(p)
    BY DEF ControlInv, Typed
  <2>3. ~Truncate(p) /\ ~WriteUpgraded(p)
    BY DEF UpgradedInv, Truncate, WriteUpgraded
  <2>4. superseded' = superseded
    BY <2>1, <2>3 DEF Command, Preview, Authorize, ReadLegacy, UpgradeFails, LockAndLoad,
           LockFails, Verify, Save, VerifyPrune, PruneRotatedFiles, Crash, Recorded
  <2>5. content'.api = "v1"
    <3>1. CASE content' # content
      <4>1. pc[p] = "save" /\ content' = Changed(held[p], request[p])
        BY <2>1, <3>1, ContentStep DEF UpgradedInv
      <4>2. held[p] = content /\ request[p].command # "prune"
        BY <2>2, <4>1, SavesWhatIs DEF UpgradedInv, OwnInv
      <4> QED BY <2>2, <4>1, <4>2, ChangedApi DEF ControlTypes, UpgradedInv
    <3> QED BY <3>1 DEF UpgradedInv
  <2>6. ASSUME NEW q \in Procs PROVE pc'[q] \notin {"truncate", "write"}
    <3>1. CASE q # p
      BY <2>1, <2>2, <3>1, OthersKept DEF UpgradedInv
    <3>2. CASE q = p
      <4>1. CASE ReadLegacy(p)
        <5>1. file = None \/ file.api # "legacy"
          BY <2>2 DEF ControlTypes, UpgradedInv
        <5> QED BY <2>2, <3>2, <4>1, <5>1 DEF ReadLegacy, Goto, ControlTypes
      <4>2. CASE ~ReadLegacy(p)
        BY <2>1, <2>2, <2>3, <3>2, <4>2
           DEF Command, Preview, Authorize, UpgradeFails, LockAndLoad, LockFails, Verify, Save,
               VerifyPrune, PruneRotatedFiles, Crash, Goto, Conclude, Untried, ControlTypes,
               UpgradedInv
      <4> QED BY <4>1, <4>2
    <3> QED BY <3>1, <3>2
  <2> QED BY <2>4, <2>5, <2>6 DEF UpgradedInv
<1> QED BY <1>1, <1>2 DEF Next, Command, Rotate, Recorded, AllEnded, vars

\* "Update applies a locked read-modify-write operation to the context config": true of every
\* history in which the file never had the legacy version, for any number of invocations; the
\* exception that TLC finds is a legacy file.
THEOREM UpdateIsLocked ==
    ASSUME \A cfg \in Initial : cfg.api = "v1"
    PROVE  Spec => LockedReadModifyWrite
<1> DEFINE Composed ==
      content' # content =>
          \/ content' = [content EXCEPT !.api = "v1"]
          \/ \E p \in Procs : pc[p] = "save" /\ content' = Changed(content, request[p])
<1>1. Init => UpgradedInv
  BY DEF Init, UpgradedInv
<1>2. Spec => [](ControlInv /\ UpgradedInv)
  BY <1>1, ControlInit, ControlNext, UpgradedStep, PTL DEF Spec
<1>3. (ControlInv /\ UpgradedInv) /\ [Next]_vars => [Composed]_vars
  <2> SUFFICES ASSUME ControlInv, UpgradedInv, Next, content' # content PROVE Composed
    OBVIOUS
  <2> QED BY ContentWriter, SavesWhatIs DEF UpgradedInv
<1> QED BY <1>2, <1>3, PTL DEF Spec, LockedReadModifyWrite

-----------------------------------------------------------------------------
(* What the audit log is told. *)

HonestOutcome(o, items, changed) ==
    /\ ValidMutationOutcome(o, items)
    /\ o.status = "succeeded" /\ items > 0 => changed
    /\ o.skipped = items /\ items > 0 => ~changed

\* An outcome of a number of items is honest if success means a change, and if a change
\* means an attempt.
LEMMA ProgressHonest ==
    ASSUME NEW total \in 0..MaxCount, NEW succeeded \in 0..total,
           NEW attempted \in succeeded..total, NEW err \in Errors, NEW changed \in BOOLEAN,
           ~Failed(err) /\ total > 0 => changed,
           attempted = 0 /\ total > 0 => ~changed
    PROVE  HonestOutcome(ProgressOutcome(total, succeeded, attempted, err), total, changed)
<1> DEFINE o == ProgressOutcome(total, succeeded, attempted, err)
<1>1. ValidMutationOutcome(o, total)
  BY ProgressValid
<1>2. /\ Failed(err) => o.status \in {"failed", "partial"}
      /\ o.skipped = total - attempted
  BY ProgressFields
<1>3. total \in Nat /\ attempted \in Nat
  BY AccountingAssumption
<1> HIDE DEF o
<1>4. o.status = "succeeded" /\ total > 0 => changed
  BY <1>2
<1>5. o.skipped = total => attempted = 0
  BY <1>2, <1>3
<1>6. o.skipped = total /\ total > 0 => ~changed
  BY <1>5
<1> QED BY <1>1, <1>4, <1>6 DEF HonestOutcome, o

\* The errors these commands report.
LEMMA ControlErrors ==
    /\ NoError \in Errors /\ ~Failed(NoError)
    /\ \A code \in {"AUTHORIZATION_REQUIRED", "CONFLICT", "LOCAL_IO_ERROR"} :
          Error(code) \in Errors /\ Failed(Error(code))
BY ControlAssumption, AccountingAssumption DEF Errors, NoError, Error, Failed, Unset

\* A command that ends before it tried anything has changed nothing.
LEMMA UntriedHonest ==
    ASSUME NEW items \in 0..MaxCount,
           NEW code \in {"AUTHORIZATION_REQUIRED", "CONFLICT", "LOCAL_IO_ERROR"}
    PROVE  HonestOutcome(ProgressOutcome(items, 0, 0, Error(code)), items, FALSE)
<1>1. items \in Nat /\ 0 \in 0..items
  BY AccountingAssumption
<1>2. 0 \in 0..0
  OBVIOUS
<1> QED BY <1>1, <1>2, ControlErrors, ProgressHonest

\* The outcome of a callback that failed at one of its passwords.
LEMMA VerifyHonest ==
    ASSUME ControlInv, NEW p \in Procs, Verify(p), outcome'[p] # outcome[p]
    PROVE  HonestOutcome(outcome'[p], Items(p), touched'[p])
<1> DEFINE due == DOMAIN Puts(request[p], basis[p])
<1>1. /\ ControlTypes /\ CountTypes /\ OwnInv(p) /\ pc[p] = "verify"
  BY DEF ControlInv, Typed, Verify
<1>2. /\ Granted(p) /\ request[p] \in Requests /\ ~touched[p]
      /\ preview[p] \in SUBSET (1..MaxRotated)
  BY <1>1 DEF OwnInv, ControlTypes, CountTypes
<1>3. Items(p) \in 0..MaxCount
  BY <1>2, ItemsBounded
<1>4. CASE ~SameBasis(Basis(held[p], request[p]), basis[p])
  <2>1. /\ outcome'[p] = ProgressOutcome(Items(p), 0, 0, Error("AUTHORIZATION_REQUIRED"))
        /\ touched'[p] = FALSE
    BY <1>1, <1>2, <1>4 DEF Verify, Untried, Conclude, ControlTypes
  <2> QED BY <1>3, <2>1, UntriedHonest
<1>5. CASE SameBasis(Basis(held[p], request[p]), basis[p])
  <2>1. PICK S \in SUBSET due : \E n \in due \ S :
           /\ touched'[p] \in BOOLEAN
           /\ outcome'[p] = ProgressOutcome(Items(p), Cardinality(S), Cardinality(S) + 1,
                                            Error("LOCAL_IO_ERROR"))
    <3> HIDE DEF due
    <3>1. \E S \in SUBSET due : \E n \in due \ S :
             /\ \/ touched' = [touched EXCEPT ![p] = S # {}]
                \/ touched' = [touched EXCEPT ![p] = TRUE]
             /\ Conclude(p, Cardinality(S), PutsAttempted(Cardinality(S)), Error("LOCAL_IO_ERROR"))
      BY <1>5 DEF Verify, due
    <3> QED BY <1>1, <3>1 DEF Conclude, PutsAttempted, ControlTypes
  <2>2. due \subseteq Names /\ due # {} /\ Cardinality(due) = Items(p)
    BY <1>2, <2>1, PutsKnown
  <2>3. IsFiniteSet(due)
    BY <2>2, ControlAssumption, FS_Subset
  <2>4. Cardinality(S) < Items(p) /\ Cardinality(S) \in Nat
    <3>1. S \subseteq due /\ S # due
      BY <2>1
    <3> QED BY <2>2, <2>3, <3>1, FS_Subset, FS_CardinalityType
  <2>5. /\ Cardinality(S) \in 0..Items(p) /\ Cardinality(S) + 1 \in Cardinality(S)..Items(p)
        /\ Cardinality(S) + 1 # 0
    BY <1>3, <2>4, AccountingAssumption
  <2> QED BY <1>3, <2>1, <2>5, ControlErrors, ProgressHonest
<1> QED BY <1>4, <1>5

\* The outcome of a save: an error may hide that the file was replaced, and counts as tried.
LEMMA SaveHonest ==
    ASSUME ControlInv, NEW p \in Procs, Save(p)
    PROVE  HonestOutcome(outcome'[p], Items(p), touched'[p])
<1>1. /\ ControlTypes /\ CountTypes /\ OwnInv(p) /\ pc[p] = "save"
  BY DEF ControlInv, Typed, Save
<1>2. /\ Granted(p) /\ request[p] \in Requests
      /\ preview[p] \in SUBSET (1..MaxRotated) /\ request[p].command # "prune"
  BY <1>1 DEF OwnInv, ControlTypes, CountTypes
<1>3. Items(p) \in 0..MaxCount
  BY <1>2, ItemsBounded
<1>4. Items(p) \in Nat /\ 0 \in 0..Items(p) /\ Items(p) \in 0..Items(p)
  BY <1>3, AccountingAssumption
<1> HIDE DEF Items
<1>5. CASE /\ touched' = [touched EXCEPT ![p] = TRUE]
           /\ Conclude(p, Items(p), Items(p), NoError)
  <2>1. /\ outcome'[p] = ProgressOutcome(Items(p), Items(p), Items(p), NoError)
        /\ touched'[p] = TRUE
    BY <1>1, <1>5 DEF Conclude, ControlTypes
  <2>2. Items(p) \in Items(p)..Items(p)
    BY <1>4
  <2>3. Items(p) = 0 /\ Items(p) > 0 => ~TRUE
    BY <1>4
  <2> QED BY <1>3, <1>4, <2>1, <2>2, <2>3, ControlErrors, ProgressHonest
<1>6. CASE Conclude(p, IF request[p].command = "migrate" THEN Items(p) ELSE 0, Items(p),
                    Error("LOCAL_IO_ERROR"))
  <2> DEFINE made == IF request[p].command = "migrate" THEN Items(p) ELSE 0
  <2>1. /\ outcome'[p] = ProgressOutcome(Items(p), made, Items(p), Error("LOCAL_IO_ERROR"))
        /\ touched'[p] \in BOOLEAN
    <3>1. touched' = touched \/ touched' = [touched EXCEPT ![p] = TRUE]
      BY DEF Save
    <3> QED BY <1>1, <1>6, <3>1 DEF Conclude, ControlTypes
  <2>2. made \in 0..Items(p) /\ Items(p) \in made..Items(p)
    BY <1>4
  <2>3. Items(p) = 0 /\ Items(p) > 0 => ~touched'[p]
    BY <1>4
  <2> HIDE DEF made
  <2> QED BY <1>3, <2>1, <2>2, <2>3, ControlErrors, ProgressHonest
<1>7. \/ /\ touched' = [touched EXCEPT ![p] = TRUE]
         /\ Conclude(p, Items(p), Items(p), NoError)
      \/ Conclude(p, IF request[p].command = "migrate" THEN Items(p) ELSE 0, Items(p),
                  Error("LOCAL_IO_ERROR"))
  BY DEF Save
<1> QED BY <1>5, <1>6, <1>7

\* The outcome of a prune: what it deleted is counted, and a deletion is never denied.
LEMMA PruneHonest ==
    ASSUME ControlInv, NEW p \in Procs, PruneRotatedFiles(p)
    PROVE  HonestOutcome(outcome'[p], Items(p), touched'[p])
<1> DEFINE candidates == Prunable(preview[p])
           deletedBy(last) == {f \in candidates : f <= last}
<1>1. /\ ControlTypes /\ CountTypes /\ OwnInv(p) /\ pc[p] = "prune"
  BY DEF ControlInv, Typed, PruneRotatedFiles
<1>2. /\ Granted(p) /\ request[p] \in Requests /\ ~touched[p]
      /\ preview[p] \in SUBSET (1..MaxRotated) /\ request[p].command = "prune"
  BY <1>1 DEF OwnInv, ControlTypes, CountTypes
<1>3. Items(p) \in 0..MaxCount
  BY <1>2, ItemsBounded
<1>4. Items(p) \in Nat /\ 0 \in 0..Items(p) /\ Items(p) \in Items(p)..Items(p)
  BY <1>3, AccountingAssumption
<1>5. Items(p) = Cardinality(candidates)
  BY <1>2 DEF Items
<1>6. IsFiniteSet(candidates)
  <2>1. 1 \in Int /\ MaxRotated \in Int
    BY ControlAssumption, AccountingAssumption
  <2>2. candidates \subseteq 1..MaxRotated
    BY <1>2 DEF Prunable
  <2> QED BY <2>1, <2>2, FS_Interval, FS_Subset
<1>7. \/ /\ touched' = touched /\ Untried(p, "CONFLICT")
      \/ /\ touched' = [touched EXCEPT ![p] = candidates # {}]
         /\ Conclude(p, Items(p), Items(p), NoError)
      \/ \E last \in candidates \cup {0} :
            LET k == Cardinality(deletedBy(last))
            IN  /\ touched' = [touched EXCEPT ![p] = deletedBy(last) # {}]
                /\ \/ k < Items(p) /\ Conclude(p, k, k + 1, Error("LOCAL_IO_ERROR"))
                   \/ k = Items(p) /\ Conclude(p, k, k, Error("LOCAL_IO_ERROR"))
                   \/ k = 0 /\ Untried(p, "LOCAL_IO_ERROR")
  BY DEF PruneRotatedFiles, Expected
<1> HIDE DEF candidates
<1>8. CASE touched' = touched /\ Untried(p, "CONFLICT")
  <2>1. /\ outcome'[p] = ProgressOutcome(Items(p), 0, 0, Error("CONFLICT"))
        /\ touched'[p] = FALSE
    BY <1>1, <1>2, <1>8 DEF Untried, Conclude, ControlTypes
  <2> QED BY <1>3, <2>1, UntriedHonest
<1>9. CASE /\ touched' = [touched EXCEPT ![p] = candidates # {}]
           /\ Conclude(p, Items(p), Items(p), NoError)
  <2>1. /\ outcome'[p] = ProgressOutcome(Items(p), Items(p), Items(p), NoError)
        /\ touched'[p] = (candidates # {})
    BY <1>1, <1>9 DEF Conclude, ControlTypes
  <2>2. Items(p) > 0 => candidates # {}
    BY <1>4, <1>5, FS_EmptySet
  <2>3. ~(Items(p) = 0 /\ Items(p) > 0) /\ Items(p) \in 0..Items(p)
    BY <1>4
  <2> QED BY <1>3, <1>4, <2>1, <2>2, <2>3, ControlErrors, ProgressHonest
<1>10. ASSUME NEW last \in candidates \cup {0},
              touched' = [touched EXCEPT ![p] = deletedBy(last) # {}]
       PROVE  LET k == Cardinality(deletedBy(last))
              IN  \/ k < Items(p) /\ Conclude(p, k, k + 1, Error("LOCAL_IO_ERROR"))
                  \/ k = Items(p) /\ Conclude(p, k, k, Error("LOCAL_IO_ERROR"))
                  \/ k = 0 /\ Untried(p, "LOCAL_IO_ERROR")
                  => HonestOutcome(outcome'[p], Items(p), touched'[p])
  <2> DEFINE k == Cardinality(deletedBy(last))
  <2>1. touched'[p] = (deletedBy(last) # {})
    BY <1>1, <1>10 DEF ControlTypes
  <2>2. k \in Nat /\ (k = 0 <=> deletedBy(last) = {})
    <3>1. deletedBy(last) \subseteq candidates
      OBVIOUS
    <3>2. IsFiniteSet(deletedBy(last))
      BY <1>6, <3>1, FS_Subset
    <3> HIDE DEF deletedBy
    <3> QED BY <3>2, FS_CardinalityType, FS_EmptySet
  <2> HIDE DEF deletedBy, k
  <2>3. CASE k < Items(p) /\ Conclude(p, k, k + 1, Error("LOCAL_IO_ERROR"))
    <3>1. outcome'[p] = ProgressOutcome(Items(p), k, k + 1, Error("LOCAL_IO_ERROR"))
      BY <1>1, <2>3 DEF Conclude, ControlTypes
    <3>2. k \in 0..Items(p) /\ k + 1 \in k..Items(p) /\ k + 1 # 0
      BY <1>4, <2>2, <2>3
    <3>3. touched'[p] \in BOOLEAN
      BY <2>1
    <3> QED BY <1>3, <3>1, <3>2, <3>3, ControlErrors, ProgressHonest
  <2>4. CASE k = Items(p) /\ Conclude(p, k, k, Error("LOCAL_IO_ERROR"))
    <3>1. outcome'[p] = ProgressOutcome(Items(p), k, k, Error("LOCAL_IO_ERROR"))
      BY <1>1, <2>4 DEF Conclude, ControlTypes
    <3>2. k \in 0..Items(p) /\ k \in k..Items(p) /\ ~(k = 0 /\ Items(p) > 0)
      BY <1>4, <2>2, <2>4
    <3>3. touched'[p] \in BOOLEAN
      BY <2>1
    <3> QED BY <1>3, <3>1, <3>2, <3>3, ControlErrors, ProgressHonest
  <2>5. CASE k = 0 /\ Untried(p, "LOCAL_IO_ERROR")
    <3>1. /\ outcome'[p] = ProgressOutcome(Items(p), 0, 0, Error("LOCAL_IO_ERROR"))
          /\ touched'[p] = FALSE
      BY <1>1, <2>1, <2>2, <2>5 DEF Untried, Conclude, ControlTypes
    <3> QED BY <1>3, <3>1, UntriedHonest
  <2> QED BY <2>3, <2>4, <2>5 DEF k
<1> QED BY <1>7, <1>8, <1>9, <1>10

\* Every command that hands over an outcome hands over an honest one.
LEMMA OutcomeStep ==
    ASSUME ControlInv, NEW p \in Procs, Command(p), outcome'[p] # outcome[p]
    PROVE  HonestOutcome(outcome'[p], Items(p), touched'[p])
<1>1. CASE Verify(p)
  BY <1>1, VerifyHonest
<1>2. CASE Save(p)
  BY <1>2, SaveHonest
<1>3. CASE PruneRotatedFiles(p)
  BY <1>3, PruneHonest
<1>4. CASE ~Verify(p) /\ ~Save(p) /\ ~PruneRotatedFiles(p)
  <2>1. /\ ControlTypes /\ CountTypes /\ OwnInv(p)
    BY DEF ControlInv, Typed
  <2>2. touched' = touched /\ Untried(p, "LOCAL_IO_ERROR")
        /\ pc[p] \in {"upgrade", "truncate", "write", "wait"}
    BY <1>4 DEF Command, Preview, Authorize, ReadLegacy, Truncate, WriteUpgraded, UpgradeFails,
           LockAndLoad, LockFails, VerifyPrune, Crash, Recorded
  <2>3. /\ Granted(p) /\ request[p] \in Requests /\ touched[p] = FALSE
        /\ preview[p] \in SUBSET (1..MaxRotated)
    BY <2>1, <2>2 DEF OwnInv, ControlTypes, CountTypes
  <2>4. outcome'[p] = ProgressOutcome(Items(p), 0, 0, Error("LOCAL_IO_ERROR"))
    BY <2>1, <2>2 DEF Untried, Conclude, ControlTypes
  <2> QED BY <2>2, <2>3, <2>4, ItemsBounded, UntriedHonest
<1> QED BY <1>1, <1>2, <1>3, <1>4

\* What an outcome is about does not change once it was handed over.
LEMMA ItemsKept ==
    ASSUME ControlInv, NEW p \in Procs, Command(p), NEW q \in Procs, outcome'[q] # None
    PROVE  Items(q)' = Items(q)
<1>1. /\ ControlTypes /\ CountTypes /\ OwnInv(p) /\ OwnInv(q)
      /\ request' = request
  <2>1. request' = request
    BY DEF Command, Preview, Authorize, ReadLegacy, Truncate, WriteUpgraded, UpgradeFails,
           LockAndLoad, LockFails, Verify, Save, VerifyPrune, PruneRotatedFiles, Crash
  <2> QED BY <2>1 DEF ControlInv, Typed
<1>2. basis'[q] = basis[q] /\ preview'[q] = preview[q]
  <2>1. CASE Preview(p) \/ Authorize(p)
    <3>1. outcome' = outcome /\ pc[p] \in {"preview", "authorize"}
      BY <2>1 DEF Preview, Authorize
    <3>2. q # p
      BY <1>1, <3>1 DEF OwnInv
    <3> QED BY <1>1, <2>1, <3>2
            DEF Preview, Authorize, ControlTypes, CountTypes, Recorded, Evidence
  <2>2. CASE ~Preview(p) /\ ~Authorize(p)
    BY <2>2 DEF Command, ReadLegacy, Truncate, WriteUpgraded, UpgradeFails,
           LockAndLoad, LockFails, Verify, Save, VerifyPrune, PruneRotatedFiles, Crash, Evidence
  <2> QED BY <2>1, <2>2
<1> QED BY <1>1, <1>2 DEF Items

\* Whatever fails and whoever interferes, the outcome of a change of the control plane is one
\* that the audit log accepts, claims no success without a change, and denies no change.
THEOREM ControlOutcomesHonest == Spec => []OutcomeHonest
<1> DEFINE Honest(p) == outcome[p] # None => HonestOutcome(outcome[p], Items(p), touched[p])
           HonestInv == \A p \in Procs : Honest(p)
<1>1. Init => HonestInv
  BY DEF Init
<1>2. ControlInv /\ HonestInv /\ [Next]_vars => HonestInv'
  <2> SUFFICES ASSUME ControlInv, HonestInv, [Next]_vars, NEW q \in Procs, outcome'[q] # None
               PROVE  HonestOutcome(outcome'[q], Items(q)', touched'[q])
    OBVIOUS
  <2>1. CASE UNCHANGED <<outcome, request, basis, preview, touched>>
    BY <2>1 DEF Items
  <2>2. ASSUME NEW p \in Procs, Command(p)
        PROVE  HonestOutcome(outcome'[q], Items(q)', touched'[q])
    <3>1. Items(q)' = Items(q)
      BY <2>2, ItemsKept
    <3>2. /\ ControlTypes /\ OwnInv(p) /\ OwnInv(q)
      BY DEF ControlInv, Typed
    <3>3. CASE outcome'[q] # outcome[q]
      <4>1. q = p
        BY <2>2, <3>2, <3>3, OthersKept
      <4> QED BY <2>2, <3>1, <3>3, <4>1, OutcomeStep
    <3>4. CASE outcome'[q] = outcome[q]
      <4>1. touched'[q] = touched[q]
        <5>1. CASE q # p
          BY <2>2, <3>2, <5>1, OthersKept
        <5>2. CASE q = p
          <6>1. pc[p] = "done"
            BY <3>2, <3>4, <5>2 DEF OwnInv
          <6> QED BY <2>2, <5>2, <6>1
                  DEF Command, Preview, Authorize, ReadLegacy, Truncate, WriteUpgraded,
                      UpgradeFails, LockAndLoad, LockFails, Verify, Save, VerifyPrune,
                      PruneRotatedFiles, Crash, Ended
        <5> QED BY <5>1, <5>2
      <4> QED BY <3>1, <3>4, <4>1
    <3> QED BY <3>3, <3>4
  <2> QED BY <2>1, <2>2 DEF Next, Command, Rotate, Recorded, AllEnded, vars
<1>3. HonestInv => OutcomeHonest
  BY DEF OutcomeHonest, HonestOutcome
<1> QED BY <1>1, <1>2, <1>3, ControlInit, ControlNext, PTL DEF Spec

-----------------------------------------------------------------------------
(* The credential store and the references to it. *)

Due(p) == DOMAIN Puts(request[p], basis[p])

\* An invocation that replaces the password of n is between the two stores, died there, or
\* said that it failed.
Excuses(p, n) ==
    /\ n \in Due(p) /\ touched[p]
    /\ pc[p] \in {"save", "dead"} \/ (outcome[p] # None /\ outcome[p].status # "succeeded")

Resolves(n) ==
    \/ stored[n] # NoPassword /\ stored[n] = intended[n]
    \/ \E p \in Procs : Excuses(p, n)

Refers(cfg, n) == n \in Known(cfg) /\ cfg.contexts[n].password = Reference

\* A password once saved resolves, also where no file mentions it at the moment: a file that an
\* invocation still holds may bring the reference back.
CredentialInv ==
    /\ DOMAIN intended = Names
    /\ \A n \in Names :
         /\ intended[n] # NoPassword => Resolves(n)
         /\ Refers(content, n) => intended[n] # NoPassword
    /\ \A p \in Procs : \A n \in Names :
         (Holding(p) \/ pc[p] \in {"truncate", "write"}) /\ Refers(held[p], n) =>
             intended[n] # NoPassword
    /\ \A p \in Procs : pc[p] = "save" =>
         /\ touched[p] = (Due(p) # {})
         /\ \A n \in Due(p) : stored[n] = Puts(request[p], basis[p])[n]

\* No document of an import brings a reference that somebody else saved.
NoForeignReference == \A r \in Requests : r.document.password # Reference

\* An outcome of an error is there, and does not say "succeeded".
LEMMA FailureTold ==
    ASSUME NEW total \in 0..MaxCount, NEW succeeded \in 0..total, NEW attempted \in succeeded..total
    PROVE  LET o == ProgressOutcome(total, succeeded, attempted, Error("LOCAL_IO_ERROR"))
           IN  o # None /\ o.status # "succeeded"
<1> DEFINE err == Error("LOCAL_IO_ERROR")
           status == IF succeeded > 0 THEN "partial" ELSE "failed"
           o == ProgressOutcome(total, succeeded, attempted, err)
<1>1. Failed(err) /\ err.code \in Codes
  BY ControlErrors, ErrorCodes
<1>2. /\ total \in Nat /\ succeeded \in Nat /\ attempted - succeeded \in Nat
      /\ total - attempted \in Nat
  BY AccountingAssumption
<1> HIDE DEF err
<1>3. o = Tally(status, err.code, succeeded, attempted - succeeded, 0, total - attempted, succeeded)
  <2>1. o = Completed(Tally(status, Unset, succeeded, attempted - succeeded, 0,
                            total - attempted, succeeded), err)
    BY <1>1 DEF ProgressOutcome
  <2>2. status # Unset
    BY DEF Unset
  <2> HIDE DEF status, o
  <2> QED BY <2>1, <2>2 DEF Completed, Tally
<1>4. status \in {"partial", "failed"}
  OBVIOUS
<1> HIDE DEF status, o
<1>5. o \in Outcomes /\ o.status # "succeeded"
  BY <1>1, <1>2, <1>3, <1>4 DEF Outcomes, Tally
<1> QED BY <1>5, ControlAssumption DEF o, err

\* A reference in a file that a command makes was there before, or stands for what it stored.
LEMMA ChangedRefers ==
    ASSUME NoForeignReference, NEW cfg \in Configs, NEW r \in Requests, r.command # "prune",
           NEW n \in Names, Refers(Changed(cfg, r), n)
    PROVE  Refers(cfg, n) \/ n \in DOMAIN Puts(r, Basis(cfg, r))
<1>0. cfg = [api |-> cfg.api, current |-> cfg.current, contexts |-> cfg.contexts]
      /\ cfg.contexts \in [Known(cfg) -> Contexts]
  BY ConfigShape
<1>1. ASSUME NEW context, Refers(WithContext(cfg, r.target, context), n)
      PROVE  Refers(cfg, n) \/ (n = r.target /\ context.password = Reference)
  <2>1. WithContext(cfg, r.target, context).contexts =
          [m \in Known(cfg) \cup {r.target} |-> IF m = r.target THEN context ELSE cfg.contexts[m]]
    BY <1>0 DEF WithContext
  <2> QED BY <1>1, <2>1 DEF Refers, Known
<1>2. CASE r.command = "set"
  <2>1. Refers(WithContext(cfg, r.target, NewContext(r)), n)
    BY <1>2 DEF Changed
  <2>2. NewContext(r).password = Reference => r.password # NoPassword
    BY ControlAssumption DEF NewContext
  <2>3. r.password # NoPassword => DOMAIN Puts(r, Basis(cfg, r)) = {r.target}
    BY <1>2 DEF Puts
  <2> QED BY <1>1, <2>1, <2>2, <2>3
<1>3. CASE r.command = "import"
  BY <1>1, <1>3 DEF Changed, NoForeignReference
<1>4. CASE r.command = "use"
  BY <1>0, <1>4 DEF Changed, Refers, Known
<1>5. CASE r.command = "delete"
  BY <1>0, <1>5 DEF Changed, Removed, Refers, Known
<1>6. CASE r.command \in {"roleSet", "roleUnset"}
  <2> DEFINE role == IF r.command = "roleSet" THEN r.role ELSE "none"
  <2>1. Changed(cfg, r).contexts = [cfg.contexts EXCEPT ![r.target].roles[r.operator] = role]
    BY <1>0, <1>6 DEF Changed
  <2> HIDE DEF role
  <2>2. n \in Known(cfg) /\ [cfg.contexts EXCEPT ![r.target].roles[r.operator] = role][n].password = Reference
    BY <2>1 DEF Refers, Known
  <2> QED BY <1>0, <2>2 DEF Refers, Contexts
<1>7. CASE r.command = "migrate"
  <2>1. Changed(cfg, r).contexts =
          [m \in Known(cfg) |-> IF m \in Candidates(cfg, r)
                                THEN [cfg.contexts[m] EXCEPT !.password = Reference]
                                ELSE cfg.contexts[m]]
    BY <1>0, <1>7 DEF Changed
  <2>2. n \in Known(cfg) /\ (n \in Candidates(cfg, r) \/ Refers(cfg, n))
    BY <2>1 DEF Refers, Known
  <2>3. DOMAIN Puts(r, Basis(cfg, r)) = Candidates(cfg, r) \cap Known(cfg)
    BY <1>7, GovernorsOf DEF Puts, Basis
  <2> QED BY <2>2, <2>3
<1> QED BY <1>2, <1>3, <1>4, <1>5, <1>6, <1>7, RequestFields DEF Commands

\* Excuses survive every step of another invocation, and every step but a save of their own.
LEMMA ExcuseKept ==
    ASSUME ControlInv, NEW p \in Procs, Command(p), NEW q \in Procs, NEW n, Excuses(q, n),
           q # p \/ ~Save(p)
    PROVE  Excuses(q, n)'
<1>1. ControlTypes /\ OwnInv(p) /\ OwnInv(q)
  BY DEF ControlInv, Typed
<1>2. CASE q # p
  BY <1>1, <1>2, OthersKept DEF Excuses, Due
<1>3. CASE q = p
  <2>1. pc[p] \in {"save", "dead", "done"}
    BY <1>1, <1>3 DEF Excuses, OwnInv
  <2>2. Crash(p) /\ pc[p] = "save"
    BY <1>3, <2>1 DEF Command, Preview, Authorize, ReadLegacy, Truncate, WriteUpgraded,
           UpgradeFails, LockAndLoad, LockFails, Verify, Save, VerifyPrune, PruneRotatedFiles,
           Crash, Ended
  <2>3. /\ request' = request /\ basis' = basis /\ touched' = touched /\ pc'[p] = "dead"
    BY <1>1, <2>2 DEF Crash, Recorded, Goto, ControlTypes
  <2> QED BY <1>3, <2>3 DEF Excuses, Due
<1> QED BY <1>2, <1>3

\* What the callback of Update leaves in the store, whether it succeeds or fails.
LEMMA VerifyStores ==
    ASSUME ControlInv, NEW p \in Procs, Verify(p)
    PROVE  \E S \in SUBSET Due(p) :
             /\ stored' = [n \in Names |-> IF n \in S THEN Puts(request[p], basis[p])[n] ELSE stored[n]]
             /\ pc'[p] = "save" => S = Due(p) /\ touched'[p] = (Due(p) # {})
             /\ \A n \in S : touched'[p] /\ (pc'[p] = "save" \/
                                (outcome'[p] # None /\ outcome'[p].status # "succeeded"))
<1> DEFINE puts == Puts(request[p], basis[p])
           kept(S) == [n \in Names |-> IF n \in S THEN puts[n] ELSE stored[n]]
<1>1. /\ ControlTypes /\ CountTypes /\ StoredTypes /\ OwnInv(p) /\ pc[p] = "verify"
  BY DEF ControlInv, Typed, Verify
<1>2. /\ Granted(p) /\ request[p] \in Requests
      /\ preview[p] \in SUBSET (1..MaxRotated)
  BY <1>1 DEF OwnInv, ControlTypes, CountTypes
<1> HIDE DEF puts
<1>3. \/ stored' = stored /\ pc'[p] = "done"
      \/ /\ stored' = kept(Due(p)) /\ pc'[p] = "save"
         /\ touched' = [touched EXCEPT ![p] = Due(p) # {}]
      \/ \E S \in SUBSET Due(p) : \E n \in Due(p) \ S :
           /\ \/ stored' = kept(S) /\ touched' = [touched EXCEPT ![p] = S # {}]
              \/ stored' = kept(S \cup {n}) /\ touched' = [touched EXCEPT ![p] = TRUE]
           /\ Conclude(p, Cardinality(S), Cardinality(S) + 1, Error("LOCAL_IO_ERROR"))
  BY <1>1 DEF Verify, Untried, Conclude, Goto, PutsAttempted, ControlTypes, Due, puts
<1>4. CASE stored' = stored /\ pc'[p] = "done"
  <2>1. stored' = kept({})
    BY <1>1, <1>4 DEF StoredTypes
  <2>2. WITNESS {} \in SUBSET Due(p)
  <2> QED BY <1>4, <2>1 DEF puts
<1>5. CASE /\ stored' = kept(Due(p)) /\ pc'[p] = "save"
           /\ touched' = [touched EXCEPT ![p] = Due(p) # {}]
  BY <1>1, <1>5 DEF ControlTypes, puts
<1>6. ASSUME NEW S \in SUBSET Due(p), NEW m \in Due(p) \ S, NEW T \in {S, S \cup {m}},
             stored' = kept(T), T # {} => touched'[p],
             Conclude(p, Cardinality(S), Cardinality(S) + 1, Error("LOCAL_IO_ERROR"))
      PROVE  \E U \in SUBSET Due(p) :
               /\ stored' = kept(U)
               /\ pc'[p] = "save" => U = Due(p) /\ touched'[p] = (Due(p) # {})
               /\ \A n \in U : touched'[p] /\ (pc'[p] = "save" \/
                                  (outcome'[p] # None /\ outcome'[p].status # "succeeded"))
  <2>1. /\ Due(p) \subseteq Names /\ Cardinality(Due(p)) = Items(p)
    BY <1>2, <1>6, PutsKnown DEF Due
  <2>2. IsFiniteSet(Due(p))
    BY <2>1, ControlAssumption, FS_Subset
  <2>3. Cardinality(S) < Items(p) /\ Cardinality(S) \in Nat
    <3>1. S \subseteq Due(p) /\ S # Due(p)
      BY <1>6
    <3> QED BY <2>1, <2>2, <3>1, FS_Subset, FS_CardinalityType
  <2>4. Items(p) \in 0..MaxCount
    BY <1>2, ItemsBounded
  <2>5. Cardinality(S) \in 0..Items(p) /\ Cardinality(S) + 1 \in Cardinality(S)..Items(p)
    BY <2>3, <2>4, AccountingAssumption
  <2>6. /\ outcome'[p] = ProgressOutcome(Items(p), Cardinality(S), Cardinality(S) + 1,
                                         Error("LOCAL_IO_ERROR"))
        /\ pc'[p] = "done"
    BY <1>1, <1>6 DEF Conclude, Goto, ControlTypes
  <2>7. outcome'[p] # None /\ outcome'[p].status # "succeeded"
    BY <2>4, <2>5, <2>6, FailureTold
  <2>8. T \in SUBSET Due(p)
    BY <1>6
  <2> HIDE DEF kept
  <2> QED BY <1>6, <2>6, <2>7, <2>8
<1>7. CASE \E S \in SUBSET Due(p) : \E n \in Due(p) \ S :
             /\ \/ stored' = kept(S) /\ touched' = [touched EXCEPT ![p] = S # {}]
                \/ stored' = kept(S \cup {n}) /\ touched' = [touched EXCEPT ![p] = TRUE]
             /\ Conclude(p, Cardinality(S), Cardinality(S) + 1, Error("LOCAL_IO_ERROR"))
  <2> HIDE DEF kept
  <2>1. PICK S \in SUBSET Due(p) : \E n \in Due(p) \ S :
             /\ \/ stored' = kept(S) /\ touched' = [touched EXCEPT ![p] = S # {}]
                \/ stored' = kept(S \cup {n}) /\ touched' = [touched EXCEPT ![p] = TRUE]
             /\ Conclude(p, Cardinality(S), Cardinality(S) + 1, Error("LOCAL_IO_ERROR"))
    BY <1>7
  <2>2. PICK m \in Due(p) \ S :
             /\ \/ stored' = kept(S) /\ touched' = [touched EXCEPT ![p] = S # {}]
                \/ stored' = kept(S \cup {m}) /\ touched' = [touched EXCEPT ![p] = TRUE]
             /\ Conclude(p, Cardinality(S), Cardinality(S) + 1, Error("LOCAL_IO_ERROR"))
    BY <2>1
  <2>3. \E T \in {S, S \cup {m}} : stored' = kept(T) /\ (T # {} => touched'[p])
    BY <1>1, <2>2 DEF ControlTypes
  <2>4. \E U \in SUBSET Due(p) :
               /\ stored' = kept(U)
               /\ pc'[p] = "save" => U = Due(p) /\ touched'[p] = (Due(p) # {})
               /\ \A n \in U : touched'[p] /\ (pc'[p] = "save" \/
                                  (outcome'[p] # None /\ outcome'[p].status # "succeeded"))
    BY <1>6, <2>2, <2>3
  <2> QED BY <2>4 DEF kept, puts
<1> QED BY <1>3, <1>4, <1>5, <1>7

LEMMA CredentialInit == Init => CredentialInv
<1> SUFFICES ASSUME Init PROVE CredentialInv
  OBVIOUS
<1>1. /\ content = file /\ intended = stored /\ DOMAIN stored = Names
      /\ \A p \in Procs : pc[p] = "preview"
  BY DEF Init
<1>2. (CHOOSE s \in Secrets : TRUE) \in Secrets
  BY ControlAssumption
<1>3. ASSUME NEW n \in Names, Refers(content, n) PROVE intended[n] # NoPassword
  BY <1>1, <1>2, <1>3, ControlAssumption DEF Init, Refers
<1> QED BY <1>1, <1>3 DEF CredentialInv, Resolves, Holding

\* Nothing but the callback of Update and the replacement of the file touches either store.
LEMMA CredentialQuiet ==
    ASSUME ControlInv, CredentialInv, NEW p \in Procs, Command(p), ~Verify(p), ~Save(p)
    PROVE  CredentialInv'
<1>1. ControlTypes /\ OwnInv(p)
  BY DEF ControlInv, Typed
<1>2. stored' = stored /\ intended' = intended
  BY DEF Command, Preview, Authorize, ReadLegacy, Truncate, WriteUpgraded, UpgradeFails,
         LockAndLoad, LockFails, VerifyPrune, PruneRotatedFiles, Crash, Recorded
<1>3. ASSUME NEW n \in Names, intended[n] # NoPassword PROVE Resolves(n)'
  <2>1. Resolves(n)
    BY <1>3 DEF CredentialInv
  <2> QED BY <1>2, <2>1, ExcuseKept DEF Resolves
<1>4. ASSUME NEW n \in Names, Refers(content', n) PROVE intended[n] # NoPassword
  <2>1. CASE content' = content
    BY <1>4, <2>1 DEF CredentialInv
  <2>2. CASE content' # content
    <3>1. pc[p] = "write" /\ content' = [held[p] EXCEPT !.api = "v1"]
      <4>1. WriteUpgraded(p)
        BY <2>2 DEF Command, Preview, Authorize, ReadLegacy, Truncate, UpgradeFails,
               LockAndLoad, LockFails, VerifyPrune, PruneRotatedFiles, Crash, Recorded
      <4> QED BY <2>2, <4>1, ContentStep DEF WriteUpgraded
    <3>2. Refers(held[p], n)
      BY <1>1, <1>4, <3>1, UpgradeGood DEF OwnInv, Refers, SamePolicies, Known
    <3> QED BY <3>1, <3>2 DEF CredentialInv
  <2> QED BY <2>1, <2>2
<1>5. ASSUME NEW q \in Procs, NEW n \in Names, Holding(q)' \/ pc'[q] \in {"truncate", "write"},
             Refers(held'[q], n)
      PROVE  intended[n] # NoPassword
  <2>1. CASE q # p
    BY <1>1, <1>5, <2>1, OthersKept DEF CredentialInv, Holding
  <2>2. CASE q = p /\ (ReadLegacy(p) \/ LockAndLoad(p))
    <3>1. held'[p] = content
      BY <1>1, <1>5, <2>2
         DEF ReadLegacy, LockAndLoad, Loaded, Untried, Conclude, Goto, Holding, ControlTypes
    <3> QED BY <1>5, <2>2, <3>1 DEF CredentialInv
  <2>3. CASE q = p /\ ~ReadLegacy(p) /\ ~LockAndLoad(p)
    <3>1. held'[p] = held[p] /\ (Holding(p) \/ pc[p] \in {"truncate", "write"})
      BY <1>1, <1>5, <2>3
         DEF Command, Preview, Authorize, Truncate, WriteUpgraded, UpgradeFails, LockFails,
             VerifyPrune, PruneRotatedFiles, Crash, Untried, Conclude, Goto, Holding, ControlTypes
    <3> QED BY <1>5, <2>3, <3>1 DEF CredentialInv
  <2> QED BY <2>1, <2>2, <2>3
<1>6. ASSUME NEW q \in Procs, pc'[q] = "save"
      PROVE  /\ touched'[q] = (Due(q)' # {})
             /\ \A n \in Due(q)' : stored'[n] = Puts(request[q], basis[q])'[n]
  <2>1. /\ pc[q] = "save" /\ touched'[q] = touched[q]
        /\ request'[q] = request[q] /\ basis'[q] = basis[q]
    <3>1. CASE q # p
      BY <1>1, <1>6, <3>1, OthersKept
    <3>2. CASE q = p
      BY <1>1, <1>6, <3>2
         DEF Command, Preview, Authorize, ReadLegacy, Truncate, WriteUpgraded, UpgradeFails,
             LockAndLoad, LockFails, VerifyPrune, PruneRotatedFiles, Crash, Untried, Conclude,
             Goto, ControlTypes
    <3> QED BY <3>1, <3>2
  <2> QED BY <1>2, <2>1 DEF CredentialInv, Due
<1> QED BY <1>2, <1>3, <1>4, <1>5, <1>6 DEF CredentialInv

\* The callback stores passwords that the file does not refer to yet.
LEMMA CredentialVerify ==
    ASSUME ControlInv, CredentialInv, NEW p \in Procs, Verify(p)
    PROVE  CredentialInv'
<1>0. Command(p) /\ ~Save(p)
  BY DEF Command, Verify, Save
<1>1. /\ ControlTypes /\ OwnInv(p) /\ pc[p] = "verify"
      /\ UNCHANGED <<request, basis, held, content, intended>>
  BY DEF ControlInv, Typed, Verify
<1>2. PICK S \in SUBSET Due(p) :
        /\ stored' = [n \in Names |-> IF n \in S THEN Puts(request[p], basis[p])[n] ELSE stored[n]]
        /\ pc'[p] = "save" => S = Due(p) /\ touched'[p] = (Due(p) # {})
        /\ \A n \in S : touched'[p] /\ (pc'[p] = "save" \/
                           (outcome'[p] # None /\ outcome'[p].status # "succeeded"))
  BY VerifyStores
<1>3. ASSUME NEW n \in Names, intended[n] # NoPassword PROVE Resolves(n)'
  <2>1. CASE n \in S
    <3>1. Excuses(p, n)'
      BY <1>1, <1>2, <2>1 DEF Excuses, Due
    <3> QED BY <3>1 DEF Resolves
  <2>2. CASE n \notin S
    <3>1. stored'[n] = stored[n] /\ intended'[n] = intended[n]
      BY <1>1, <1>2, <2>2
    <3>2. Resolves(n)
      BY <1>3 DEF CredentialInv
    <3> QED BY <1>0, <3>1, <3>2, ExcuseKept DEF Resolves
  <2> QED BY <2>1, <2>2
<1>4. ASSUME NEW q \in Procs, Holding(q)' \/ pc'[q] \in {"truncate", "write"}
      PROVE  Holding(q) \/ pc[q] \in {"truncate", "write"}
  <2>1. CASE q # p
    BY <1>0, <1>1, <1>4, <2>1, OthersKept DEF Holding
  <2>2. CASE q = p
    BY <1>1, <2>2 DEF Holding
  <2> QED BY <2>1, <2>2
<1>5. ASSUME NEW q \in Procs, pc'[q] = "save" PROVE q = p
  <2>1. q # p => pc[q] = "save"
    BY <1>0, <1>1, <1>5, OthersKept
  <2> QED BY <1>1, <2>1, OneHolder DEF Holding
<1>6. ASSUME pc'[p] = "save"
      PROVE  /\ touched'[p] = (Due(p)' # {})
             /\ \A n \in Due(p)' : stored'[n] = Puts(request[p], basis[p])'[n]
  <2>1. Due(p) \subseteq Names
    BY <1>1, PutsKnown DEF Due, OwnInv, ControlTypes
  <2> QED BY <1>1, <1>2, <1>6, <2>1 DEF Due
<1>7. /\ DOMAIN intended' = Names
      /\ \A n \in Names : Refers(content', n) => intended'[n] # NoPassword
      /\ \A q \in Procs : \A n \in Names :
           (Holding(q)' \/ pc'[q] \in {"truncate", "write"}) /\ Refers(held'[q], n) =>
               intended'[n] # NoPassword
  BY <1>1, <1>4 DEF CredentialInv
<1> QED BY <1>1, <1>3, <1>5, <1>6, <1>7 DEF CredentialInv

\* What a save makes of both stores.
LEMMA SaveStores ==
    ASSUME ControlInv, NEW p \in Procs, Save(p)
    PROVE  LET puts == Puts(request[p], basis[p])
           IN  /\ UNCHANGED <<request, basis, held, stored>> /\ pc'[p] = "done"
               /\ \/ /\ content' = Changed(held[p], request[p])
                     /\ intended' = [n \in Names |->
                                       IF n \in DOMAIN puts THEN puts[n] ELSE intended[n]]
                  \/ /\ UNCHANGED <<content, intended, touched>>
                     /\ outcome'[p] # None /\ outcome'[p].status # "succeeded"
<1>1. /\ ControlTypes /\ CountTypes /\ OwnInv(p) /\ pc[p] = "save"
  BY DEF ControlInv, Typed, Save
<1>2. /\ Granted(p) /\ request[p] \in Requests
      /\ preview[p] \in SUBSET (1..MaxRotated)
      /\ Basis(held[p], request[p]) = basis[p]
  BY <1>1 DEF OwnInv, ControlTypes, CountTypes
<1>3. UNCHANGED <<request, basis, held, stored>> /\ pc'[p] = "done"
  BY <1>1 DEF Save, Conclude, Goto, ControlTypes
<1> DEFINE made == IF request[p].command = "migrate" THEN Items(p) ELSE 0
           puts == Puts(request[p], basis[p])
           replaced == /\ content' = Changed(held[p], request[p])
                       /\ intended' = [n \in Names |->
                                         IF n \in DOMAIN puts THEN puts[n] ELSE intended[n]]
<1>4. replaced \/ (/\ UNCHANGED <<content, intended, touched>>
                   /\ Conclude(p, made, Items(p), Error("LOCAL_IO_ERROR")))
  BY <1>2 DEF Save
<1>5. ASSUME Conclude(p, made, Items(p), Error("LOCAL_IO_ERROR"))
      PROVE  outcome'[p] # None /\ outcome'[p].status # "succeeded"
  <2>1. Items(p) \in 0..MaxCount
    BY <1>2, ItemsBounded
  <2> HIDE DEF Items
  <2>2. made \in 0..Items(p) /\ Items(p) \in made..Items(p)
    BY <2>1, AccountingAssumption
  <2>3. outcome'[p] = ProgressOutcome(Items(p), made, Items(p), Error("LOCAL_IO_ERROR"))
    BY <1>1, <1>5 DEF Conclude, ControlTypes
  <2> HIDE DEF made
  <2> QED BY <2>1, <2>2, <2>3, FailureTold
<1> HIDE DEF made
<1> QED BY <1>3, <1>4, <1>5

LEMMA CredentialSave ==
    ASSUME NoForeignReference, ControlInv, CredentialInv, NEW p \in Procs, Save(p)
    PROVE  CredentialInv'
<1> DEFINE puts == Puts(request[p], basis[p])
           replaced == /\ content' = Changed(held[p], request[p])
                       /\ intended' = [n \in Names |->
                                         IF n \in DOMAIN puts THEN puts[n] ELSE intended[n]]
<1>0. Command(p)
  BY DEF Command
<1>1. /\ ControlTypes /\ OwnInv(p) /\ pc[p] = "save"
      /\ Granted(p) /\ held[p] \in Configs /\ request[p] \in Requests
      /\ request[p].command # "prune" /\ Basis(held[p], request[p]) = basis[p]
  BY DEF ControlInv, Typed, Save, OwnInv, Holding, ControlTypes
<1>2. UNCHANGED <<request, basis, held, stored>> /\ pc'[p] = "done"
  BY SaveStores
<1>3. \/ replaced
      \/ /\ UNCHANGED <<content, intended, touched>>
         /\ outcome'[p] # None /\ outcome'[p].status # "succeeded"
  BY SaveStores
<1>4. DOMAIN puts = Due(p) /\ Due(p) \subseteq Names /\ \A n \in Due(p) : puts[n] \in Secrets
  BY <1>1, PutsKnown DEF Due
<1> HIDE DEF puts
<1>5. ASSUME replaced, NEW n \in Names
      PROVE  intended'[n] = IF n \in Due(p) THEN puts[n] ELSE intended[n]
  BY <1>4, <1>5
<1>6. DOMAIN intended' = Names
  <2>1. CASE replaced
    BY <1>4, <2>1
  <2> QED BY <1>3, <2>1 DEF CredentialInv
<1>7. ASSUME NEW n \in Names, intended[n] # NoPassword PROVE intended'[n] # NoPassword
  BY <1>3, <1>4, <1>5, <1>7, ControlAssumption
<1>8. ASSUME NEW n \in Names, intended'[n] # NoPassword PROVE Resolves(n)'
  <2>1. CASE n \in Due(p) /\ replaced
    <3>1. stored[n] = puts[n] /\ puts[n] # NoPassword
      BY <1>1, <1>4, <2>1, ControlAssumption DEF CredentialInv, puts
    <3> QED BY <1>2, <1>5, <2>1, <3>1 DEF Resolves
  <2>2. CASE n \in Due(p) /\ ~replaced
    <3>1. touched[p]
      BY <1>1, <2>2 DEF CredentialInv
    <3>2. Excuses(p, n)'
      BY <1>2, <1>3, <2>2, <3>1 DEF Excuses, Due
    <3> QED BY <3>2 DEF Resolves
  <2>3. CASE n \notin Due(p)
    <3>1. intended'[n] = intended[n] /\ stored'[n] = stored[n]
      BY <1>2, <1>3, <1>5, <2>3
    <3>2. Resolves(n) /\ ~Excuses(p, n)
      BY <1>8, <2>3, <3>1 DEF CredentialInv, Excuses
    <3> QED BY <1>0, <3>1, <3>2, ExcuseKept DEF Resolves
  <2> QED BY <2>1, <2>2, <2>3
<1>9. ASSUME NEW n \in Names, Refers(content', n) PROVE intended'[n] # NoPassword
  <2>1. CASE replaced
    <3>1. Refers(held[p], n) \/ n \in Due(p)
      BY <1>1, <1>9, <2>1, ChangedRefers DEF Due
    <3>2. Refers(held[p], n) => intended[n] # NoPassword
      BY <1>1 DEF CredentialInv, Holding
    <3>3. n \in Due(p) => intended'[n] # NoPassword
      BY <1>4, <1>5, <2>1, ControlAssumption
    <3> QED BY <1>7, <3>1, <3>2, <3>3
  <2>2. CASE UNCHANGED <<content, intended>>
    BY <1>9, <2>2 DEF CredentialInv
  <2> QED BY <1>3, <2>1, <2>2
<1>10. ASSUME NEW q \in Procs
       PROVE  /\ Holding(q)' \/ pc'[q] \in {"truncate", "write"} =>
                   Holding(q) \/ pc[q] \in {"truncate", "write"}
              /\ pc'[q] # "save"
  <2>1. CASE q # p
    <3>1. pc'[q] = pc[q]
      BY <1>0, <1>1, <2>1, OthersKept
    <3>2. pc[q] # "save"
      BY <1>1, <2>1, OneHolder DEF Holding
    <3> QED BY <3>1, <3>2 DEF Holding
  <2>2. CASE q = p
    BY <1>2, <2>2 DEF Holding
  <2> QED BY <2>1, <2>2
<1>11. ASSUME NEW q \in Procs, NEW n \in Names, Holding(q)' \/ pc'[q] \in {"truncate", "write"},
              Refers(held'[q], n)
       PROVE  intended'[n] # NoPassword
  BY <1>2, <1>7, <1>10, <1>11 DEF CredentialInv
<1> QED BY <1>6, <1>8, <1>9, <1>10, <1>11 DEF CredentialInv

\* A reference to the credential store stands for the password it was saved for, for any number
\* of invocations that store, migrate, delete and bring back passwords at once, unless one of
\* them is between the two stores, died there, or said that it failed; so long as nobody imports
\* a reference of another store.
THEOREM ReferencesResolve ==
    ASSUME NoForeignReference
    PROVE  Spec => []CredentialsResolve
<1>1. ControlInv /\ CredentialInv /\ [Next]_vars => CredentialInv'
  <2> SUFFICES ASSUME ControlInv, CredentialInv, [Next]_vars PROVE CredentialInv'
    OBVIOUS
  <2>1. ASSUME NEW p \in Procs, Command(p) PROVE CredentialInv'
    BY <2>1, CredentialQuiet, CredentialVerify, CredentialSave
  <2>2. CASE UNCHANGED <<pc, request, basis, held, stored, outcome, content, intended, touched>>
    <3>1. ASSUME NEW n \in Names, Resolves(n) PROVE Resolves(n)'
      BY <2>2, <3>1 DEF Resolves, Excuses, Due
    <3> QED BY <2>2, <3>1 DEF CredentialInv, Due, Refers, Holding, Known
  <2> QED BY <2>1, <2>2 DEF Next, Command, Rotate, Recorded, AllEnded, vars
<1>2. ControlInv /\ CredentialInv => CredentialsResolve
  <2> SUFFICES ASSUME ControlInv, CredentialInv, NEW n \in Known(content),
                      content.contexts[n].password = Reference
               PROVE  Resolves(n)
    BY DEF CredentialsResolve, Resolves, Excuses, Due
  <2>1. n \in Names /\ Refers(content, n)
    BY ConfigShape DEF ControlInv, Typed, ControlTypes, Refers
  <2> QED BY <2>1 DEF CredentialInv
<1> QED BY <1>1, <1>2, CredentialInit, ControlInit, ControlNext, PTL DEF Spec
=============================================================================
