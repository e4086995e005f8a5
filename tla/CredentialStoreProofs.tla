------------------------- MODULE CredentialStoreProofs -------------------------
(***************************************************************************)
(* The credential store, for any number of processes, aliases and          *)
(* commands, and whether or not processes die: its lock discipline, what   *)
(* is left of a removed workspace (GoneInv), what edits and migrations do  *)
(* to stored secrets and what a load without the lock finds (SafeInv).     *)
(***************************************************************************)
EXTENDS CredentialStore, Sequences, FiniteSetTheorems, TLAPS

(* Where a process holds the lock, and where it does not.                   *)
Critical == {"migrate", "edit", "push"}
Outside == {"idle", "open", "seed", "check", "read", "get", "lock"}

(* OneWriter is inductive once pc is known to be a function on Procs.       *)
LockInv == pc \in [Procs -> Critical \cup Outside] /\ OneWriter

(* Nothing is held at the start.                                            *)
LEMMA LockInvInit == Init => LockInv
<1> SUFFICES ASSUME pc = [p \in Procs |-> "idle"], lock = None PROVE LockInv
  BY DEF Init
<1>1. pc \in [Procs -> Critical \cup Outside]
  BY DEF Outside
<1>2. \A p \in Procs : pc[p] = "idle" /\ lock # p
  BY StoreAssumption
<1> QED
  BY <1>1, <1>2 DEF LockInv, OneWriter

(* One process moves; it enters or stays in the cycle with the lock its own, *)
(* or leaves it, or stays out of it, and then does not hold the lock.        *)
LEMMA MovePreserves ==
  ASSUME LockInv, NEW p \in Procs, NEW place \in Critical \cup Outside,
         pc' = [pc EXCEPT ![p] = place],
         \/ place \in Critical /\ lock' = p /\ lock \in {None, p}
         \/ place \in Outside /\ lock' # p /\ (lock' = lock \/ (lock' = None /\ lock \in {None, p}))
  PROVE  LockInv'
<1>1. pc' \in [Procs -> Critical \cup Outside]
  BY DEF LockInv
<1>2. ASSUME NEW q \in Procs
      PROVE  pc'[q] \in Critical <=> lock' = q
  <2>1. pc[q] \in Critical <=> lock = q
    BY DEF LockInv, OneWriter, Critical
  <2>2. None # q /\ None # p
    BY StoreAssumption
  <2>3. CASE q = p
    <3>1. pc'[q] = place
      BY <2>3 DEF LockInv
    <3>2. place \in Outside => place \notin Critical
      BY DEF Outside, Critical
    <3> QED
      BY <2>3, <3>1, <3>2
  <2>4. CASE q # p
    <3>1. pc'[q] = pc[q]
      BY <2>4 DEF LockInv
    <3> QED
      BY <2>1, <2>2, <2>4, <3>1
  <2> QED
    BY <2>3, <2>4
<1> QED
  BY <1>1, <1>2 DEF LockInv, OneWriter, Critical

(* Every action of a process preserves the discipline.                      *)
LEMMA StepPreserves ==
  ASSUME LockInv, NEW p \in Procs, Begin(p) \/ Step(p) \/ Dies(p)
  PROVE  LockInv'
<1> USE DEF At
<1>o. pc[p] \in Outside => lock # p
  BY DEF LockInv, OneWriter, Outside, Critical
<1>c. pc[p] \in Critical => lock = p
  BY DEF LockInv, OneWriter, Critical
<1>n. None # p
  BY StoreAssumption
(* It stays outside and leaves the lock alone.                              *)
<1>quiet. ASSUME pc[p] \in Outside, NEW place \in Outside,
                 pc' = [pc EXCEPT ![p] = place], lock' = lock
          PROVE  LockInv'
  BY <1>o, <1>quiet, MovePreserves
(* It stays inside, saving, and keeps the lock.                             *)
<1>save. ASSUME pc[p] \in Critical, pc' = [pc EXCEPT ![p] = "push"], lock' = lock
         PROVE  LockInv'
  BY <1>c, <1>save, MovePreserves DEF Critical
(* Its command is over.                                                     *)
<1>over. ASSUME pc' = [pc EXCEPT ![p] = "idle"],
                lock' = IF lock = p THEN None ELSE lock
         PROVE  LockInv'
  BY <1>n, <1>over, MovePreserves DEF Outside
(* It has the lock, or may take it: it goes on inside or lets go.           *)
<1>lock. ASSUME lock \in {None, p},
                \/ pc' = [pc EXCEPT ![p] = "migrate"] /\ lock' = p
                \/ pc' = [pc EXCEPT ![p] = "edit"] /\ lock' = p
                \/ pc' = [pc EXCEPT ![p] = "read"] /\ lock' = None
         PROVE  LockInv'
  BY <1>n, <1>lock, MovePreserves DEF Critical, Outside
<1>same. ASSUME pc' = pc, lock' = lock PROVE LockInv'
  BY <1>same DEF LockInv, OneWriter
<1>1. CASE Begin(p)
  BY <1>1, <1>quiet DEF Begin, Goto, Outside
<1>2. CASE Dies(p)
  BY <1>2, <1>over DEF Dies, Finish, Goto
<1>3. CASE Open(p)
  <2>1. \E place \in {"seed", "check", "lock"} : pc' = [pc EXCEPT ![p] = place]
    BY <1>3 DEF Open, Enter, Goto
  <2> QED
    BY <1>3, <2>1, <1>quiet DEF Open, Outside
<1>4. CASE Seed(p)
  <2>1. \E place \in {"check", "lock"} : pc' = [pc EXCEPT ![p] = place]
    BY <1>4 DEF Seed, Enter, Goto
  <2> QED
    BY <1>4, <2>1, <1>quiet DEF Seed, Outside
<1>5. CASE CheckVersion(p)
  <2>1. \E place \in {"lock", "read"} : pc' = [pc EXCEPT ![p] = place]
    BY <1>5 DEF CheckVersion, Goto
  <2> QED
    BY <1>5, <2>1, <1>quiet DEF CheckVersion, Outside
<1>6. CASE ReadFile(p)
  BY <1>6, <1>quiet DEF ReadFile, Goto, Outside
<1>7. CASE GetSecret(p)
  BY <1>7, <1>same DEF GetSecret
<1>8. CASE LoadReturns(p)
  BY <1>8, <1>over DEF LoadReturns, Finish, Goto
<1>9. CASE EnrollChecks(p)
  <2>1. CASE Finish(p)
    BY <2>1, <1>over DEF Finish, Goto
  <2>2. CASE ~Finish(p)
    BY <1>9, <2>2, <1>quiet DEF EnrollChecks, Goto, Outside
  <2> QED
    BY <2>1, <2>2
<1>10. CASE Lock(p)
  BY <1>10, <1>lock DEF Lock, GoOn, Goto
<1>11. CASE Migrate(p)
  BY <1>11, <1>save DEF Migrate, Save, Goto, Critical
<1>12. CASE EditUpsert(p)
  BY <1>12, <1>save DEF EditUpsert, Save, Goto, Critical
<1>13. CASE SetIdentity(p)
  BY <1>13, <1>save DEF SetIdentity, Save, Goto, Critical
<1>14. CASE SetDefault(p)
  BY <1>14, <1>save DEF SetDefault, Save, Goto, Critical
<1>15. CASE Remove(p)
  BY <1>15, <1>save DEF Remove, RemoveWith, Save, Goto, Critical
<1>16. CASE NothingToSave(p)
  BY <1>16, <1>over DEF NothingToSave, Finish, Goto
<1>17. CASE Push(p)
  BY <1>17, <1>same DEF Push
<1>18. CASE WriteMigrated(p)
  BY <1>18, <1>c, <1>lock DEF WriteMigrated, GoOn, Goto, Critical
<1>19. CASE Write(p)
  BY <1>19, <1>over DEF Write, Finish, Goto
<1> QED
  BY <1>1, <1>2, <1>3, <1>4, <1>5, <1>6, <1>7, <1>8, <1>9, <1>10, <1>11, <1>12, <1>13,
     <1>14, <1>15, <1>16, <1>17, <1>18, <1>19 DEF Step

(* The discipline is inductive.                                             *)
LEMMA LockInvNext == LockInv /\ [Next]_vars => LockInv'
<1> SUFFICES ASSUME LockInv, [Next]_vars PROVE LockInv'
  OBVIOUS
<1>1. CASE \E p \in Procs : Begin(p) \/ Step(p) \/ Dies(p)
  <2> PICK p \in Procs : Begin(p) \/ Step(p) \/ Dies(p)
    BY <1>1
  <2> QED
    BY StepPreserves
<1>2. CASE UNCHANGED vars
  BY <1>2 DEF vars, LockInv, OneWriter
<1> QED
  BY <1>1, <1>2 DEF Next, Done

(* However many processes share the store and whichever of them die, a      *)
(* process is inside a read-modify-write cycle exactly when it holds the    *)
(* lock: no two edits interleave, no holder waits for its own lock, and no  *)
(* lock is left held (WithLock, fslock.go:20-37; edit, credential.go:163).  *)
THEOREM LockDiscipline == Spec => []OneWriter
<1>1. LockInv => OneWriter
  BY DEF LockInv
<1> QED
  BY LockInvInit, LockInvNext, <1>1, PTL DEF Spec

-----------------------------------------------------------------------------
(* The types of what the store and its processes hold.                      *)
Ops == {"load", "upsert", "enroll", "identity", "default", "remove"}

Partial(S, R) == UNION {[D -> R] : D \in SUBSET S}
Auth == [type : AuthTypes, secret : Secrets]
Workspaces == [url : Urls, id : Identities \cup {None}, type : AuthTypes,
               secret : [Kinds -> Secrets \cup {Placeholder}]]
Files == [version : 0..2, default : Aliases \cup Urls \cup {None},
          ws : Partial(Aliases, Workspaces)]
Accounts == Kinds \X (Aliases \cup Urls \cup {None})
Cmds == [op : Ops, alias : Aliases \cup {None}, url : Urls \cup {None},
         id : Identities \cup {None}, type : AuthTypes, secret : Secrets]

StoreType ==
  /\ file \in Files
  /\ keychain \in Partial(Accounts, Secrets)
HistoryType ==
  /\ want \in Partial(Aliases, Auth)
  /\ abandoned \subseteq Aliases \X Secrets
  /\ watched \in [Procs -> SUBSET Aliases]
ProcType ==
  /\ cmd \in [Procs -> Cmds] /\ stage \in [Procs -> {"load", "edit"}]
  /\ draft \in [Procs -> Files] /\ left \in [Procs -> SUBSET (Kinds \X Aliases)]
  /\ issued \in 0..MaxCommands

(* Which parts of a command are filled in.                                  *)
CmdInv ==
  \A p \in Procs :
    /\ Stores(p) => cmd[p].url \in Urls
    /\ cmd[p].op \in {"enroll", "identity", "default", "remove"} => cmd[p].alias \in Aliases

(* A file without a version is not there; an edit or a save finds a file    *)
(* that is migrated, and a migration one that is not.                       *)
PhaseInv ==
  /\ file.version = 0 => file = Absent
  /\ file.default \in (IF IsLegacy THEN Urls ELSE DOMAIN file.ws) \cup {None}
  /\ \A p \in Procs : /\ At(p, "edit") => ~IsLegacy
                      /\ At(p, "migrate") => IsLegacy

(* What is still to read or to push is of the file in memory.               *)
LeftInv ==
  \A p \in Procs :
    /\ pc[p] \in {"get", "push"} => left[p] \subseteq AccountsOf(draft[p])
    /\ pc[p] = "push" => \A x \in left[p] : SecretOf(draft[p], x) # Placeholder

(* What a save will make of the file, by the command it is for.             *)
SaveInv ==
  \A p \in Procs : At(p, "push") =>
    LET d == draft[p] a == cmd[p].alias IN
    /\ d.default \in DOMAIN d.ws \cup {None}
    /\ IsLegacy => d.version = 2 /\ DOMAIN d.ws = DOMAIN file.ws
    /\ ~IsLegacy =>
         /\ cmd[p].op # "load"
         /\ Stores(p) => a \in Aliases /\ DOMAIN d.ws = DOMAIN file.ws \cup {a}
         /\ cmd[p].op = "remove" =>
              DOMAIN d.ws = DOMAIN file.ws \ {a} /\ \A x \in DOMAIN keychain : x[2] # a
         /\ cmd[p].op \in {"identity", "default"} => DOMAIN d.ws = DOMAIN file.ws

TypeInv == StoreType /\ HistoryType /\ ProcType /\ CmdInv /\ PhaseInv /\ LeftInv

(* Locks, types, and no account without a reason: inductive.                *)
GoneInv ==
  LockInv /\ lock \in Procs \cup {None} /\ TypeInv /\ SaveInv /\ RemovedIsGone

-----------------------------------------------------------------------------
(* What the file f and the keychain give for an account.                    *)
ValueIn(f, x) == IF x \in DOMAIN keychain THEN keychain[x] ELSE SecretOf(f, x)

(* A save of an edit, and one that is to replace the auth of a.             *)
Saving(p) == At(p, "push") /\ ~IsLegacy
Replaces(p, a) == Saving(p) /\ Stores(p) /\ cmd[p].alias = a

(* A secret v under a is what was stored, or what a dead upsert left; where *)
(* an old secret may not be replaced, it is any.                            *)
Stored(a, v) == v = want[a].secret \/ <<a, v>> \in abandoned
Kept(a, v) == v \in Secrets /\ (StaleSetMayFail \/ Stored(a, v)
                   \/ \E p \in Procs : Replaces(p, a) /\ v = cmd[p].secret)

(* The file knows what was stored under a, and its secrets are in one of    *)
(* the two stores.                                                          *)
KeptEntry(a) ==
  /\ a \in DOMAIN file.ws /\ file.ws[a].type = want[a].type
  /\ \A k \in KindsOf(want[a].type) : Kept(a, ValueIn(file, <<k, a>>))

KeptInv == ~IsLegacy => \A a \in DOMAIN want : KeptEntry(a)

(* What a save will leave for an account: what it has still to push, or what *)
(* is there.                                                                *)
Outcome(p, x) == IF x \in left[p] THEN SecretOf(draft[p], x) ELSE ValueIn(draft[p], x)

(* An entry of a save: the one it replaces has the command's secrets, any   *)
(* other those of the file, and a migrated one those that were stored.      *)
SavedEntry(p, a) ==
  LET entry == draft[p].ws[a] IN
  /\ Replaces(p, a) =>
       /\ entry.type = cmd[p].type
       /\ \A k \in KindsOf(entry.type) :
            Outcome(p, <<k, a>>) \in Secrets
            /\ (StaleSetMayFail \/ Outcome(p, <<k, a>>) = cmd[p].secret)
  /\ ~IsLegacy /\ ~Replaces(p, a) =>
       /\ a \in DOMAIN file.ws /\ entry.type = file.ws[a].type
       /\ \A k \in KindsOf(entry.type) : Outcome(p, <<k, a>>) = ValueIn(file, <<k, a>>)
  /\ IsLegacy /\ a \in DOMAIN want =>
       /\ entry.type = want[a].type
       /\ \A k \in KindsOf(entry.type) :
            Outcome(p, <<k, a>>) \in Secrets
            /\ (StaleSetMayFail \/ Outcome(p, <<k, a>>) = want[a].secret)

(* A save loses no alias.                                                   *)
DraftInv ==
  \A p \in Procs : At(p, "push") =>
    /\ DOMAIN want \subseteq DOMAIN draft[p].ws
    /\ \A a \in DOMAIN draft[p].ws : SavedEntry(p, a)

(* Until it is migrated, the version-1 store is as it was found.            *)
AsFound ==
  \E type \in AuthTypes, url \in Urls \cup {None} :
    /\ file = LegacyFile(type, url) /\ keychain = LegacyKeychain(type)
    /\ want = [a \in LegacyAliases |-> [type |-> type, secret |-> 0]]

(* Nobody reads it before, and nobody dies while it is migrated.            *)
LegacyInv ==
  IsLegacy /\ DOMAIN want # {} =>
    /\ DOMAIN want = DOMAIN file.ws
    /\ \A p \in Procs : pc[p] # "read"
    /\ AsFound \/ \E p \in Procs : pc[p] = "push"

(* A load at its file read, and at its secrets.                             *)
ReadInv ==
  \A p \in Procs : At(p, "get") =>
    /\ watched[p] \subseteq DOMAIN draft[p].ws
    /\ \A x \in AccountsOf(draft[p]) : x[2] \in watched[p] =>
         SecretOf(draft[p], x) # Placeholder \/ (x \in left[p] /\ x \in DOMAIN keychain)

(* No secret is lost: inductive under GoneInv.                              *)
SafeInv == ~MigrationMayDie => KeptInv /\ DraftInv /\ LegacyInv /\ ReadInv

-----------------------------------------------------------------------------
(* A partial function has a part of the set as its domain.                  *)
LEMMA PartialIs ==
  ASSUME NEW S, NEW R, NEW f
  PROVE  f \in Partial(S, R) <=> DOMAIN f \subseteq S /\ f \in [DOMAIN f -> R]
<1>1. ASSUME f \in Partial(S, R) PROVE DOMAIN f \subseteq S /\ f \in [DOMAIN f -> R]
  BY <1>1 DEF Partial
<1>2. ASSUME DOMAIN f \subseteq S, f \in [DOMAIN f -> R] PROVE f \in Partial(S, R)
  BY <1>2 DEF Partial
<1> QED BY <1>1, <1>2

(* A file is a version, a default and entries.                              *)
LEMMA FileParts ==
  ASSUME NEW f \in Files
  PROVE  /\ f = [version |-> f.version, default |-> f.default, ws |-> f.ws]
         /\ f.version \in 0..2 /\ f.default \in Aliases \cup Urls \cup {None}
         /\ DOMAIN f.ws \subseteq Aliases /\ f.ws \in [DOMAIN f.ws -> Workspaces]
         /\ \A a \in DOMAIN f.ws :
              /\ f.ws[a] \in Workspaces /\ f.ws[a].type \in AuthTypes
              /\ KindsOf(f.ws[a].type) \subseteq Kinds
              /\ \A k \in Kinds : f.ws[a].secret[k] \in Secrets \cup {Placeholder}
<1>1. f.ws \in Partial(Aliases, Workspaces)
  BY DEF Files
<1>2. DOMAIN f.ws \subseteq Aliases /\ f.ws \in [DOMAIN f.ws -> Workspaces]
  BY <1>1, PartialIs
<1>3. ASSUME NEW a \in DOMAIN f.ws
      PROVE  /\ f.ws[a] \in Workspaces /\ f.ws[a].type \in AuthTypes
             /\ KindsOf(f.ws[a].type) \subseteq Kinds
             /\ \A k \in Kinds : f.ws[a].secret[k] \in Secrets \cup {Placeholder}
  <2>1. f.ws[a] \in Workspaces
    BY <1>2
  <2> QED BY <2>1 DEF Workspaces, KindsOf, Kinds, AuthTypes
<1> QED BY <1>2, <1>3 DEF Files

(* Nothing in it that is a secret or an alias is one of the special values. *)
LEMMA Distinct == 
  /\ Placeholder \notin Secrets /\ None \notin Aliases /\ Secrets \subseteq Nat
  /\ \A a \in Aliases : a \notin Urls
BY StoreAssumption DEF Secrets

(* The keychain maps accounts to secrets.                                   *)
LEMMA KeychainParts ==
  ASSUME keychain \in Partial(Accounts, Secrets)
  PROVE  /\ DOMAIN keychain \subseteq Accounts /\ keychain \in [DOMAIN keychain -> Secrets]
         /\ \A x \in DOMAIN keychain : keychain[x] \in Secrets /\ keychain[x] # Placeholder
BY PartialIs, Distinct

(* Replacing the secrets of a file leaves the rest of it alone.             *)
LEMMA WithSecretsIs ==
  ASSUME NEW f \in Files, keychain \in Partial(Accounts, Secrets),
         NEW h, h = Hydrated(f)
  PROVE  /\ h \in Files /\ h.version = f.version /\ h.default = f.default
         /\ DOMAIN h.ws = DOMAIN f.ws
         /\ \A a \in DOMAIN f.ws :
              /\ h.ws[a].type = f.ws[a].type /\ h.ws[a].url = f.ws[a].url
              /\ h.ws[a].id = f.ws[a].id
              /\ \A k \in KindsOf(f.ws[a].type) : h.ws[a].secret[k] = ValueIn(f, <<k, a>>)
<1> DEFINE entry(a) == [f.ws[a] EXCEPT !.secret = [k \in Kinds |->
             IF k \in KindsOf(f.ws[a].type)
             THEN IF <<k, a>> \in DOMAIN keychain THEN keychain[<<k, a>>]
                  ELSE f.ws[a].secret[k]
             ELSE f.ws[a].secret[k]]]
<1>1. h = [f EXCEPT !.ws = [a \in DOMAIN f.ws |-> entry(a)]]
  BY DEF Hydrated, WithSecrets
<1>2. h = [version |-> f.version, default |-> f.default, ws |-> [a \in DOMAIN f.ws |-> entry(a)]]
  BY <1>1, FileParts
<1>3. ASSUME NEW a \in DOMAIN f.ws
      PROVE  /\ entry(a) \in Workspaces /\ entry(a).type = f.ws[a].type
             /\ entry(a).url = f.ws[a].url /\ entry(a).id = f.ws[a].id
             /\ \A k \in KindsOf(f.ws[a].type) : entry(a).secret[k] = ValueIn(f, <<k, a>>)
  <2>1. f.ws[a] \in Workspaces /\ KindsOf(f.ws[a].type) \subseteq Kinds
        /\ \A k \in Kinds : f.ws[a].secret[k] \in Secrets \cup {Placeholder}
    BY FileParts
  <2>2. \A x \in DOMAIN keychain : keychain[x] \in Secrets
    BY KeychainParts
  <2>3. /\ entry(a).secret \in [Kinds -> Secrets \cup {Placeholder}]
        /\ \A k \in KindsOf(f.ws[a].type) :
             entry(a).secret[k] = IF <<k, a>> \in DOMAIN keychain THEN keychain[<<k, a>>]
                                  ELSE f.ws[a].secret[k]
    BY <2>1, <2>2 DEF Workspaces
  <2>4. /\ entry(a) = [f.ws[a] EXCEPT !.secret = entry(a).secret]
        /\ entry(a).type = f.ws[a].type
        /\ entry(a).url = f.ws[a].url /\ entry(a).id = f.ws[a].id
    BY <2>1 DEF Workspaces
  <2>5. entry(a) \in Workspaces
    <3> HIDE DEF entry
    <3> QED BY <2>1, <2>3, <2>4 DEF Workspaces
  <2> QED BY <2>3, <2>4, <2>5 DEF ValueIn, SecretOf
<1> HIDE DEF entry
<1>4. h.ws \in Partial(Aliases, Workspaces)
  <2>1. DOMAIN h.ws \subseteq Aliases /\ h.ws \in [DOMAIN h.ws -> Workspaces]
    BY <1>2, <1>3, FileParts
  <2> QED BY <2>1, PartialIs
<1>5. h \in Files
  BY <1>2, <1>4, FileParts DEF Files
<1> QED BY <1>2, <1>3, <1>5

-----------------------------------------------------------------------------
(* Migrating gives each entry what its version-1 account holds.             *)
LEMMA MigratedIs ==
  ASSUME NEW f \in Files, keychain \in Partial(Accounts, Secrets),
         NEW h, h = Migrated(f)
  PROVE  /\ h \in Files /\ h.version = 2 /\ h.default \in DOMAIN f.ws \cup {None}
         /\ DOMAIN h.ws = DOMAIN f.ws
         /\ \A a \in DOMAIN f.ws :
              /\ h.ws[a].type = f.ws[a].type
              /\ \A k \in KindsOf(f.ws[a].type) :
                   LET account == LegacyAccount(k, f.ws[a].url) IN
                   h.ws[a].secret[k] =
                     IF f.ws[a].secret[k] = Placeholder /\ account \in DOMAIN keychain
                     THEN keychain[account] ELSE f.ws[a].secret[k]
<1> DEFINE legacy(a, k) == LegacyAccount(k, f.ws[a].url)
           value(a, k) == IF f.ws[a].secret[k] = Placeholder /\ legacy(a, k) \in DOMAIN keychain
                          THEN keychain[legacy(a, k)] ELSE f.ws[a].secret[k]
           entry(a) == [f.ws[a] EXCEPT !.secret = [k \in Kinds |->
             IF k \in KindsOf(f.ws[a].type) THEN value(a, k) ELSE f.ws[a].secret[k]]]
           matches == {a \in DOMAIN f.ws : f.ws[a].url = f.default}
           default == IF matches = {} THEN None ELSE CHOOSE a \in matches : TRUE
<1>1. h = [[f EXCEPT !.ws = [a \in DOMAIN f.ws |-> entry(a)]]
             EXCEPT !.version = 2, !.default = default]
  BY DEF Migrated, WithSecrets
<1>2. h = [version |-> 2, default |-> default, ws |-> [a \in DOMAIN f.ws |-> entry(a)]]
  <2> DEFINE W == [a \in DOMAIN f.ws |-> entry(a)]
  <2>1. f = [version |-> f.version, default |-> f.default, ws |-> f.ws]
    BY FileParts
  <2> HIDE DEF entry, default, W
  <2>2. [f EXCEPT !.ws = W] = [version |-> f.version, default |-> f.default, ws |-> W]
    BY <2>1
  <2>3. h = [[f EXCEPT !.ws = W] EXCEPT !.version = 2, !.default = default]
    BY <1>1 DEF W
  <2> QED BY <2>2, <2>3 DEF W
<1>3. ASSUME NEW a \in DOMAIN f.ws
      PROVE  /\ entry(a) \in Workspaces /\ entry(a).type = f.ws[a].type
             /\ \A k \in KindsOf(f.ws[a].type) : entry(a).secret[k] = value(a, k)
  <2>1. f.ws[a] \in Workspaces /\ KindsOf(f.ws[a].type) \subseteq Kinds
        /\ \A k \in Kinds : f.ws[a].secret[k] \in Secrets \cup {Placeholder}
    BY FileParts
  <2>2. \A k \in Kinds : value(a, k) \in Secrets \cup {Placeholder}
    BY <2>1, KeychainParts
  <2> HIDE DEF value
  <2>3. /\ entry(a).secret \in [Kinds -> Secrets \cup {Placeholder}]
        /\ \A k \in KindsOf(f.ws[a].type) : entry(a).secret[k] = value(a, k)
    BY <2>1, <2>2 DEF Workspaces
  <2>4. /\ entry(a) = [f.ws[a] EXCEPT !.secret = entry(a).secret]
        /\ entry(a).type = f.ws[a].type
    BY <2>1 DEF Workspaces
  <2>5. entry(a) \in Workspaces
    <3> HIDE DEF entry
    <3> QED BY <2>1, <2>3, <2>4 DEF Workspaces
  <2> QED BY <2>3, <2>4, <2>5
<1>4. default \in DOMAIN f.ws \cup {None}
  OBVIOUS
<1> HIDE DEF entry, default, value
<1>5. h.ws \in Partial(Aliases, Workspaces)
  <2>1. DOMAIN h.ws \subseteq Aliases /\ h.ws \in [DOMAIN h.ws -> Workspaces]
    BY <1>2, <1>3, FileParts
  <2> QED BY <2>1, PartialIs
<1>6. h \in Files
  BY <1>2, <1>4, <1>5, FileParts DEF Files
<1>7. \A a \in DOMAIN f.ws : h.ws[a] = entry(a)
  BY <1>2
<1>8. ASSUME NEW a \in DOMAIN f.ws, NEW k \in KindsOf(f.ws[a].type)
      PROVE  h.ws[a].secret[k] = value(a, k)
  BY <1>3, <1>7
<1>9. /\ h.version = 2 /\ h.default \in DOMAIN f.ws \cup {None} /\ DOMAIN h.ws = DOMAIN f.ws
      /\ \A a \in DOMAIN f.ws : h.ws[a].type = f.ws[a].type
  BY <1>2, <1>3, <1>4, <1>7
<1>10. \A a \in DOMAIN f.ws : \A k \in KindsOf(f.ws[a].type) :
         LET account == LegacyAccount(k, f.ws[a].url) IN
         h.ws[a].secret[k] =
           IF f.ws[a].secret[k] = Placeholder /\ account \in DOMAIN keychain
           THEN keychain[account] ELSE f.ws[a].secret[k]
  BY <1>8 DEF value, legacy
<1> QED BY <1>6, <1>9, <1>10

(* An upsert stores its own secrets under its alias, and touches no other.  *)
LEMMA MergeIs ==
  ASSUME NEW f \in Files, NEW a \in Aliases, NEW c \in Cmds, c.url \in Urls,
         NEW h, h = MergeWorkspace(f, a, c)
  PROVE  /\ h \in Files /\ h.version = f.version
         /\ h.default \in {a, f.default}
         /\ DOMAIN h.ws = DOMAIN f.ws \cup {a}
         /\ h.ws[a].type = c.type
         /\ \A k \in KindsOf(c.type) : h.ws[a].secret[k] = c.secret
         /\ \A b \in DOMAIN f.ws : b # a => h.ws[b] = f.ws[b]
<1> DEFINE id == IF c.id = None /\ a \in DOMAIN f.ws THEN f.ws[a].id ELSE c.id
           entry == Entry(c.url, id, c.type, AuthOf(c.type, c.secret))
           default == IF f.default = None THEN a ELSE f.default
<1>1. h = [f EXCEPT !.ws = With(f.ws, a, entry), !.default = default]
  BY DEF MergeWorkspace
<1>2. entry \in Workspaces /\ entry.type = c.type
      /\ \A k \in KindsOf(c.type) : entry.secret[k] = c.secret
  <2>1. a \in DOMAIN f.ws => f.ws[a].id \in Identities \cup {None}
    BY FileParts DEF Workspaces
  <2>2. id \in Identities \cup {None} /\ c.type \in AuthTypes /\ c.secret \in Secrets
    BY <2>1 DEF Cmds
  <2>3. AuthOf(c.type, c.secret) \in [Kinds -> Secrets \cup {Placeholder}]
        /\ \A k \in KindsOf(c.type) : AuthOf(c.type, c.secret)[k] = c.secret
    BY <2>2 DEF AuthOf, KindsOf, Kinds
  <2> HIDE DEF id
  <2> QED BY <2>2, <2>3 DEF Entry, Workspaces
<1> HIDE DEF entry
<1>3. /\ h.version = f.version /\ h.default = default /\ h.ws = With(f.ws, a, entry)
      /\ h = [version |-> f.version, default |-> default, ws |-> With(f.ws, a, entry)]
  <2> HIDE DEF default
  <2> QED BY <1>1, FileParts
<1>4. /\ DOMAIN h.ws = DOMAIN f.ws \cup {a} /\ h.ws[a] = entry
      /\ \A b \in DOMAIN f.ws : b # a => h.ws[b] = f.ws[b]
  BY <1>3 DEF With
<1>5. h.ws \in Partial(Aliases, Workspaces)
  <2>1. DOMAIN h.ws \subseteq Aliases /\ h.ws \in [DOMAIN h.ws -> Workspaces]
    BY <1>2, <1>3, <1>4, FileParts DEF With
  <2> QED BY <2>1, PartialIs
<1>6. h \in Files
  <2>1. default \in Aliases \cup Urls \cup {None}
    BY FileParts
  <2> HIDE DEF default
  <2> QED BY <1>3, <1>5, <2>1, FileParts DEF Files
<1> QED BY <1>2, <1>3, <1>4, <1>6

(* Setting one secret leaves the others.                                    *)
LEMMA SetSecretIs ==
  ASSUME NEW f \in Files, NEW x \in AccountsOf(f), NEW v \in Secrets \cup {Placeholder},
         NEW h, h = SetSecret(f, x, v)
  PROVE  /\ h \in Files /\ h.version = f.version /\ h.default = f.default
         /\ DOMAIN h.ws = DOMAIN f.ws
         /\ \A a \in DOMAIN f.ws : h.ws[a].type = f.ws[a].type
         /\ AccountsOf(h) = AccountsOf(f)
         /\ SecretOf(h, x) = v
         /\ \A y \in AccountsOf(f) : y # x => SecretOf(h, y) = SecretOf(f, y)
<1> DEFINE entry == [f.ws[x[2]] EXCEPT !.secret = [@ EXCEPT ![x[1]] = v]]
<1>1. x[1] \in Kinds /\ x[2] \in DOMAIN f.ws /\ x = <<x[1], x[2]>>
  BY DEF AccountsOf
<1>2. h = [f EXCEPT !.ws = [f.ws EXCEPT ![x[2]] = entry]]
  BY DEF SetSecret
<1>3. f.ws[x[2]] \in Workspaces
  BY <1>1, FileParts
<1>4. entry \in Workspaces /\ entry.type = f.ws[x[2]].type
      /\ entry.secret = [f.ws[x[2]].secret EXCEPT ![x[1]] = v]
  BY <1>1, <1>3 DEF Workspaces
<1> HIDE DEF entry
<1>5. /\ h = [version |-> f.version, default |-> f.default, ws |-> [f.ws EXCEPT ![x[2]] = entry]]
      /\ h.ws = [f.ws EXCEPT ![x[2]] = entry]
  BY <1>2, FileParts
<1>6. /\ DOMAIN h.ws = DOMAIN f.ws /\ h.ws[x[2]] = entry
      /\ \A a \in DOMAIN f.ws : a # x[2] => h.ws[a] = f.ws[a]
  BY <1>1, <1>5, FileParts
<1>7. h.ws \in Partial(Aliases, Workspaces)
  <2>1. DOMAIN h.ws \subseteq Aliases /\ h.ws \in [DOMAIN h.ws -> Workspaces]
    BY <1>4, <1>5, <1>6, FileParts
  <2> QED BY <2>1, PartialIs
<1>8. h \in Files /\ h.version = f.version /\ h.default = f.default
  BY <1>5, <1>7, FileParts DEF Files
<1>9. \A a \in DOMAIN f.ws : h.ws[a].type = f.ws[a].type
  BY <1>4, <1>6
<1>10. AccountsOf(h) = AccountsOf(f)
  BY <1>6, <1>9 DEF AccountsOf
<1>11. SecretOf(h, x) = v
  <2>1. f.ws[x[2]].secret \in [Kinds -> Secrets \cup {Placeholder}]
    BY <1>3 DEF Workspaces
  <2> QED BY <1>1, <1>4, <1>6, <2>1 DEF SecretOf
<1>12. ASSUME NEW y \in AccountsOf(f), y # x PROVE SecretOf(h, y) = SecretOf(f, y)
  <2>1. y[1] \in Kinds /\ y[2] \in DOMAIN f.ws /\ y = <<y[1], y[2]>>
    BY DEF AccountsOf
  <2>2. f.ws[x[2]].secret \in [Kinds -> Secrets \cup {Placeholder}]
    BY <1>3 DEF Workspaces
  <2>3. CASE y[2] = x[2]
    <3>1. y[1] # x[1]
      BY <1>1, <1>12, <2>1, <2>3
    <3> QED BY <1>1, <1>4, <1>6, <2>1, <2>2, <2>3, <3>1 DEF SecretOf
  <2>4. CASE y[2] # x[2]
    BY <1>6, <2>1, <2>4 DEF SecretOf
  <2> QED BY <2>3, <2>4
<1> QED BY <1>6, <1>8, <1>9, <1>10, <1>11, <1>12

-----------------------------------------------------------------------------
(* What a process starts from, and what a store is found with.              *)
LEMMA AbsentIs == Absent \in Files /\ Idle \in Cmds /\ Absent.version = 0 /\ DOMAIN Absent.ws = {}
<1>1. Absent.ws \in Partial(Aliases, Workspaces)
  <2>1. DOMAIN Absent.ws = {}
    BY DEF Absent
  <2>2. Absent.ws \in [{} -> Workspaces]
    BY DEF Absent
  <2> QED BY <2>1, <2>2, PartialIs
<1>2. Absent = [version |-> 0, default |-> None, ws |-> Absent.ws]
  BY DEF Absent
<1>3. Absent \in Files
  BY <1>1, <1>2 DEF Files
<1>4. Idle \in Cmds
  BY StoreAssumption DEF Idle, Command, Cmds, Ops, AuthTypes, Secrets
<1> QED BY <1>3, <1>4 DEF Absent

(* A version-1 file.                                                        *)
LEMMA LegacyFileIs ==
  ASSUME NEW type \in AuthTypes, NEW url \in Urls \cup {None}, NEW f, f = LegacyFile(type, url)
  PROVE  /\ f \in Files /\ f.version = 1 /\ f.default = url /\ DOMAIN f.ws = LegacyAliases
         /\ \A a \in LegacyAliases :
              /\ f.ws[a].type = type /\ f.ws[a].url = LegacyUrl[a]
              /\ \A k \in Kinds : f.ws[a].secret[k] = Placeholder
<1> DEFINE entry(a) == Entry(LegacyUrl[a], None, type, [k \in Kinds |-> Placeholder])
<1>1. f = [version |-> 1, default |-> url, ws |-> [a \in LegacyAliases |-> entry(a)]]
  BY DEF LegacyFile
<1>2. \A a \in LegacyAliases : entry(a) \in Workspaces
  BY StoreAssumption DEF Entry, Workspaces
<1>3. [a \in LegacyAliases |-> entry(a)] \in Partial(Aliases, Workspaces)
  <2> HIDE DEF entry
  <2> QED BY <1>2, StoreAssumption, PartialIs
<1>4. f \in Files
  <2> HIDE DEF entry
  <2> QED BY <1>1, <1>3 DEF Files
<1>5. \A a \in LegacyAliases :
        /\ entry(a).type = type /\ entry(a).url = LegacyUrl[a]
        /\ \A k \in Kinds : entry(a).secret[k] = Placeholder
  BY DEF Entry
<1> HIDE DEF entry
<1> QED BY <1>1, <1>4, <1>5

(* A version-1 keychain is keyed by URL.                                    *)
LEMMA LegacyKeychainIs ==
  ASSUME NEW type \in AuthTypes
  PROVE  /\ LegacyKeychain(type) \in Partial(Accounts, Secrets)
         /\ \A x \in DOMAIN LegacyKeychain(type) : x[2] \notin Aliases
         /\ \A a \in LegacyAliases, k \in KindsOf(type) :
              /\ LegacyAccount(k, LegacyUrl[a]) \in DOMAIN LegacyKeychain(type)
              /\ LegacyKeychain(type)[LegacyAccount(k, LegacyUrl[a])] = 0
<1> DEFINE D == {LegacyAccount(k, LegacyUrl[a]) : k \in KindsOf(type), a \in LegacyAliases}
<1>1. D \subseteq Accounts /\ \A x \in D : x[2] \notin Aliases
  <2> SUFFICES ASSUME NEW k \in KindsOf(type), NEW a \in LegacyAliases
               PROVE  LET x == LegacyAccount(k, LegacyUrl[a]) IN
                      x \in Accounts /\ x[2] \notin Aliases
    OBVIOUS
  <2>1. k \in Kinds /\ LegacyUrl[a] \in Urls
    BY StoreAssumption DEF KindsOf, Kinds
  <2> QED BY <2>1, StoreAssumption DEF LegacyAccount, Accounts
<1>2. LegacyKeychain(type) = [x \in D |-> 0]
  BY DEF LegacyKeychain
<1>3. 0 \in Secrets
  BY StoreAssumption DEF Secrets
<1>4. \A a \in LegacyAliases, k \in KindsOf(type) : LegacyAccount(k, LegacyUrl[a]) \in D
  OBVIOUS
<1> HIDE DEF D
<1>5. LegacyKeychain(type) \in Partial(Accounts, Secrets)
  BY <1>1, <1>2, <1>3, PartialIs
<1> QED BY <1>1, <1>2, <1>4, <1>5

-----------------------------------------------------------------------------
(* The end of a command, and a save, keep the types.                        *)
LEMMA FinishType ==
  ASSUME ProcType, CmdInv, watched \in [Procs -> SUBSET Aliases], NEW p \in Procs, Finish(p),
         issued' = issued
  PROVE  ProcType' /\ CmdInv' /\ watched' \in [Procs -> SUBSET Aliases]
<1>1. ProcType' /\ watched' \in [Procs -> SUBSET Aliases]
  BY AbsentIs DEF ProcType, Finish
<1>2. \A q \in Procs : cmd'[q] = IF q = p THEN Idle ELSE cmd[q]
  BY DEF Finish, ProcType
<1>3. CmdInv'
  BY <1>2 DEF CmdInv, Stores, Idle, Command
<1> QED BY <1>1, <1>3

(* What is pushed are accounts of the file.                                 *)
LEMMA ToPushIs ==
  ASSUME NEW f \in Files
  PROVE  /\ ToPush(f) \subseteq AccountsOf(f) /\ AccountsOf(f) \subseteq Kinds \X Aliases
         /\ \A x \in AccountsOf(f) : x[2] \in DOMAIN f.ws /\ x[1] \in KindsOf(f.ws[x[2]].type)
                                     /\ x = <<x[1], x[2]>> /\ SecretOf(f, x) \in Secrets \cup {Placeholder}
         /\ \A a \in DOMAIN f.ws : \A k \in KindsOf(f.ws[a].type) : <<k, a>> \in AccountsOf(f)
<1>1. DOMAIN f.ws \subseteq Aliases
  BY FileParts
<1>2. ASSUME NEW x \in AccountsOf(f)
      PROVE  /\ x[2] \in DOMAIN f.ws /\ x[1] \in KindsOf(f.ws[x[2]].type) /\ x[1] \in Kinds
             /\ x = <<x[1], x[2]>>
  BY DEF AccountsOf
<1>3. \A x \in AccountsOf(f) : SecretOf(f, x) \in Secrets \cup {Placeholder}
  BY <1>2, FileParts DEF SecretOf
<1>4. \A a \in DOMAIN f.ws : \A k \in KindsOf(f.ws[a].type) : <<k, a>> \in AccountsOf(f)
  BY FileParts DEF AccountsOf
<1> QED BY <1>1, <1>2, <1>3, <1>4 DEF ToPush

(* A save prepares the file, and what of it goes to the keychain.            *)
LEMMA SaveType ==
  ASSUME ProcType, NEW p \in Procs, NEW f \in Files, Save(p, f)
  PROVE  /\ draft' \in [Procs -> Files] /\ left' \in [Procs -> SUBSET (Kinds \X Aliases)]
         /\ draft'[p] = f /\ left'[p] = ToPush(f)
         /\ \A q \in Procs : q # p => draft'[q] = draft[q] /\ left'[q] = left[q]
<1>1. ToPush(f) \subseteq Kinds \X Aliases
  BY ToPushIs
<1> QED BY <1>1 DEF Save, ProcType

-----------------------------------------------------------------------------
(* Naming the identity of an entry changes nothing else.                    *)
LEMMA IdentityIs ==
  ASSUME NEW f \in Files, NEW b \in DOMAIN f.ws, NEW i \in Identities \cup {None},
         NEW h, h = [f EXCEPT !.ws[b].id = i]
  PROVE  /\ h \in Files /\ h.version = f.version /\ h.default = f.default
         /\ DOMAIN h.ws = DOMAIN f.ws
         /\ \A a \in DOMAIN f.ws : h.ws[a].type = f.ws[a].type /\ h.ws[a].secret = f.ws[a].secret
<1> DEFINE entry == [f.ws[b] EXCEPT !.id = i]
<1>1. entry \in Workspaces /\ entry.type = f.ws[b].type /\ entry.secret = f.ws[b].secret
  <2>1. f.ws[b] \in Workspaces
    BY FileParts
  <2> QED BY <2>1 DEF Workspaces
<1>2. h = [f EXCEPT !.ws = [f.ws EXCEPT ![b] = entry]]
  OBVIOUS
<1> HIDE DEF entry
<1>3. /\ h = [version |-> f.version, default |-> f.default, ws |-> [f.ws EXCEPT ![b] = entry]]
      /\ h.ws = [f.ws EXCEPT ![b] = entry]
  BY <1>2, FileParts
<1>4. /\ DOMAIN h.ws = DOMAIN f.ws /\ h.ws[b] = entry
      /\ \A a \in DOMAIN f.ws : a # b => h.ws[a] = f.ws[a]
  BY <1>3, FileParts
<1>5. h.ws \in Partial(Aliases, Workspaces)
  <2>1. DOMAIN h.ws \subseteq Aliases /\ h.ws \in [DOMAIN h.ws -> Workspaces]
    BY <1>1, <1>3, <1>4, FileParts
  <2> QED BY <2>1, PartialIs
<1>6. h \in Files
  BY <1>3, <1>5, FileParts DEF Files
<1> QED BY <1>1, <1>3, <1>4, <1>6

(* Nor does choosing a default.                                             *)
LEMMA DefaultIs ==
  ASSUME NEW f \in Files, NEW d \in Aliases \cup Urls \cup {None},
         NEW h, h = [f EXCEPT !.default = d]
  PROVE  h \in Files /\ h.version = f.version /\ h.default = d /\ h.ws = f.ws
<1>1. h = [version |-> f.version, default |-> d, ws |-> f.ws]
  BY FileParts
<1>2. f.ws \in Partial(Aliases, Workspaces)
  BY DEF Files
<1> QED BY <1>1, <1>2, FileParts DEF Files

-----------------------------------------------------------------------------
Edits(p) == EditUpsert(p) \/ SetIdentity(p) \/ SetDefault(p) \/ Remove(p)

(* Entry a of f is what the file and the keychain give for it.              *)
SameEntry(f, a) ==
  /\ a \in DOMAIN file.ws /\ f.ws[a].type = file.ws[a].type
  /\ \A k \in KindsOf(f.ws[a].type) : f.ws[a].secret[k] = ValueIn(file, <<k, a>>)

(* Entry a of f is what the command c brings.                               *)
NewEntry(f, a, c) ==
  /\ a \in DOMAIN f.ws /\ f.ws[a].type = c.type
  /\ \A k \in KindsOf(f.ws[a].type) : f.ws[a].secret[k] = c.secret

(* What the edits save: their own entry, and the others as they are.        *)
Edited(p, f) ==
  LET c == cmd'[p] IN
  /\ f.version = file.version /\ f.default \in DOMAIN f.ws \cup {None}
  /\ IF Stores(p) THEN /\ c.alias \in Aliases /\ c = [cmd[p] EXCEPT !.alias = c.alias]
                       /\ NewEntry(f, c.alias, c)
                       /\ DOMAIN f.ws = DOMAIN file.ws \cup {c.alias}
                       /\ \A a \in DOMAIN f.ws : a # c.alias => SameEntry(f, a)
     ELSE /\ c = cmd[p] /\ \A a \in DOMAIN f.ws : SameEntry(f, a)
          /\ \/ c.op \in {"identity", "default"} /\ DOMAIN f.ws = DOMAIN file.ws
             \/ c.op = "remove" /\ DOMAIN f.ws = DOMAIN file.ws \ {c.alias}

(* Hydrating changes the secrets of the file's entries, and nothing else.   *)
LEMMA HydratedIs ==
  ASSUME StoreType, NEW h, h = Hydrated(file)
  PROVE  /\ h \in Files /\ h.version = file.version /\ h.default = file.default
         /\ DOMAIN h.ws = DOMAIN file.ws
         /\ \A a \in DOMAIN file.ws : SameEntry(h, a)
<1>1. file \in Files /\ keychain \in Partial(Accounts, Secrets)
  BY DEF StoreType
<1>2. /\ h \in Files /\ h.version = file.version /\ h.default = file.default
      /\ DOMAIN h.ws = DOMAIN file.ws
      /\ \A a \in DOMAIN file.ws :
           /\ h.ws[a].type = file.ws[a].type
           /\ \A k \in KindsOf(file.ws[a].type) : h.ws[a].secret[k] = ValueIn(file, <<k, a>>)
  BY <1>1, WithSecretsIs
<1> QED BY <1>2 DEF SameEntry

(* Every edit saves a file that has been edited in its way.                 *)
LEMMA EditSaves ==
  ASSUME StoreType, ProcType, CmdInv, PhaseInv, NEW p \in Procs, Edits(p)
  PROVE  \E f \in Files : Save(p, f) /\ Edited(p, f)
<1> DEFINE h == Hydrated(file)
<1>1. /\ h \in Files /\ h.version = file.version /\ h.default = file.default
      /\ DOMAIN h.ws = DOMAIN file.ws
      /\ \A a \in DOMAIN file.ws : SameEntry(h, a)
  BY HydratedIs
<1>2. /\ cmd[p] \in Cmds /\ file \in Files
      /\ file.default \in DOMAIN file.ws \cup {None}
      /\ DOMAIN file.ws \subseteq Aliases
  <2>1. At(p, "edit")
    BY DEF Edits, EditUpsert, SetIdentity, SetDefault, Remove, RemoveWith
  <2>2. ~IsLegacy /\ file \in Files
    BY <2>1 DEF PhaseInv, StoreType
  <2> QED BY <2>2, FileParts DEF PhaseInv, ProcType
<1> HIDE DEF h
<1>3. CASE EditUpsert(p)
  <2>1. PICK a \in UpsertTargets(file, cmd[p]) :
          /\ cmd' = [cmd EXCEPT ![p].alias = a]
          /\ Save(p, MergeWorkspace(h, a, cmd[p]))
    BY <1>3 DEF EditUpsert, h
  <2>2. a \in Aliases
    <3>1. CASE cmd[p].alias # None
      BY <1>2, <2>1, <3>1 DEF UpsertTargets, Cmds
    <3>2. CASE cmd[p].alias = None
      BY <1>2, <2>1, <3>2 DEF UpsertTargets
    <3> QED BY <3>1, <3>2
  <2>3. cmd'[p] = [cmd[p] EXCEPT !.alias = a] /\ Stores(p) /\ cmd[p].url \in Urls
    BY <1>3, <2>1 DEF ProcType, CmdInv, EditUpsert
  <2> DEFINE f == MergeWorkspace(h, a, cmd[p])
  <2>4. /\ f \in Files /\ f.version = h.version /\ f.default \in {a, h.default}
        /\ DOMAIN f.ws = DOMAIN h.ws \cup {a}
        /\ f.ws[a].type = cmd[p].type
        /\ \A k \in KindsOf(cmd[p].type) : f.ws[a].secret[k] = cmd[p].secret
        /\ \A b \in DOMAIN h.ws : b # a => f.ws[b] = h.ws[b]
    BY <1>1, <1>2, <2>2, <2>3, MergeIs
  <2> HIDE DEF f
  <2>5. cmd'[p].alias = a /\ cmd'[p].type = cmd[p].type /\ cmd'[p].secret = cmd[p].secret
    BY <1>2, <2>3 DEF Cmds
  <2>6. NewEntry(f, a, cmd'[p])
    BY <2>4, <2>5 DEF NewEntry
  <2>7. \A b \in DOMAIN f.ws : b # a => SameEntry(f, b)
    BY <1>1, <2>4 DEF SameEntry
  <2>8. Edited(p, f)
    BY <1>1, <1>2, <2>2, <2>3, <2>4, <2>5, <2>6, <2>7 DEF Edited
  <2> QED BY <2>1, <2>4, <2>8 DEF f
<1>4. CASE SetIdentity(p)
  <2> DEFINE f == [h EXCEPT !.ws[cmd[p].alias].id = cmd[p].id]
  <2>1. /\ cmd[p].alias \in DOMAIN h.ws /\ cmd[p].id \in Identities \cup {None}
        /\ Save(p, f) /\ cmd' = cmd /\ cmd[p].op = "identity"
    BY <1>1, <1>2, <1>4 DEF SetIdentity, h, Cmds
  <2>2. /\ f \in Files /\ f.version = h.version /\ f.default = h.default
        /\ DOMAIN f.ws = DOMAIN h.ws
        /\ \A a \in DOMAIN h.ws : f.ws[a].type = h.ws[a].type /\ f.ws[a].secret = h.ws[a].secret
    BY <1>1, <2>1, IdentityIs
  <2> HIDE DEF f
  <2>3. \A a \in DOMAIN f.ws : SameEntry(f, a)
    BY <1>1, <2>2 DEF SameEntry
  <2>4. ~Stores(p)
    BY <2>1 DEF Stores
  <2>5. Edited(p, f)
    BY <1>1, <1>2, <2>1, <2>2, <2>3, <2>4 DEF Edited
  <2> QED BY <2>1, <2>2, <2>5
<1>5. CASE SetDefault(p)
  <2> DEFINE f == [h EXCEPT !.default = cmd[p].alias]
  <2>1. /\ cmd[p].alias \in DOMAIN file.ws /\ cmd[p].alias \in Aliases
        /\ Save(p, f) /\ cmd' = cmd /\ cmd[p].op = "default"
    BY <1>2, <1>5 DEF SetDefault, h
  <2>2. f \in Files /\ f.version = h.version /\ f.default = cmd[p].alias /\ f.ws = h.ws
    BY <1>1, <2>1, DefaultIs
  <2> HIDE DEF f
  <2>3. \A a \in DOMAIN f.ws : SameEntry(f, a)
    BY <1>1, <2>2 DEF SameEntry
  <2>4. ~Stores(p)
    BY <2>1 DEF Stores
  <2>5. Edited(p, f)
    BY <1>1, <1>2, <2>1, <2>2, <2>3, <2>4 DEF Edited
  <2> QED BY <2>1, <2>2, <2>5
<1>6. CASE Remove(p)
  <2> DEFINE gone == cmd[p].alias
  <2>1. PICK d \in NextDefaults(gone) : Save(p, [h EXCEPT !.ws = Without(@, {gone}), !.default = d])
    BY <1>6 DEF Remove, RemoveWith, h
  <2>2. gone \in DOMAIN file.ws /\ cmd' = cmd /\ cmd[p].op = "remove"
    BY <1>6 DEF Remove, RemoveWith
  <2>3. d \in (DOMAIN file.ws \ {gone}) \cup {None}
    <3>1. CASE file.default # gone
      BY <1>2, <2>1, <3>1 DEF NextDefaults
    <3>2. CASE file.default = gone
      BY <2>1, <3>2 DEF NextDefaults
    <3> QED BY <3>1, <3>2
  <2>4. d \in Aliases \cup Urls \cup {None}
    BY <1>2, <2>3
  <2> DEFINE f == [h EXCEPT !.ws = Without(@, {gone}), !.default = d]
  <2>5. /\ f \in Files /\ f.version = h.version /\ f.default = d
        /\ DOMAIN f.ws = DOMAIN h.ws \ {gone} /\ \A b \in DOMAIN f.ws : f.ws[b] = h.ws[b]
    <3> DEFINE W == Without(h.ws, {gone})
    <3>1. f = [h EXCEPT !.ws = W, !.default = d]
      OBVIOUS
    <3> HIDE DEF f, W, gone
    <3>2. h = [version |-> h.version, default |-> h.default, ws |-> h.ws]
      BY <1>1, FileParts
    <3>3. f = [version |-> h.version, default |-> d, ws |-> W]
      BY <3>1, <3>2
    <3>4. f.ws = Without(h.ws, {gone}) /\ f = [version |-> h.version, default |-> d, ws |-> f.ws]
      BY <3>3 DEF W
    <3>5. h \in Files /\ d \in Aliases \cup Urls \cup {None}
      BY <1>1, <2>4
    <3>6. f.ws = [b \in DOMAIN h.ws \ {gone} |-> h.ws[b]]
      BY <3>4 DEF Without, Restrict
    <3>7. f.ws \in Partial(Aliases, Workspaces)
      <4>1. DOMAIN f.ws \subseteq Aliases /\ f.ws \in [DOMAIN f.ws -> Workspaces]
        BY <3>5, <3>6, FileParts
      <4> QED BY <4>1, PartialIs
    <3>8. f \in Files
      BY <3>4, <3>5, <3>7, FileParts DEF Files
    <3>9. f.version = h.version /\ f.default = d
      BY <3>4
    <3> QED BY <3>6, <3>8, <3>9
  <2>6. Save(p, f)
    BY <2>1
  <2> HIDE DEF f
  <2>7. \A b \in DOMAIN f.ws : SameEntry(f, b)
    BY <1>1, <2>5 DEF SameEntry
  <2>8. ~Stores(p)
    BY <2>2 DEF Stores
  <2>9. Edited(p, f)
    BY <1>1, <2>2, <2>3, <2>5, <2>7, <2>8 DEF Edited
  <2> QED BY <2>5, <2>6, <2>9
<1> QED BY <1>3, <1>4, <1>5, <1>6 DEF Edits

-----------------------------------------------------------------------------
(* Every command the program can be given is well formed.                   *)
LEMMA CommandsAre ==
  ASSUME issued \in 0..MaxCommands, issued < MaxCommands, NEW c \in Commands
  PROVE  /\ c \in Cmds
         /\ c.op \in {"upsert", "enroll"} => c.url \in Urls
         /\ c.op \in {"enroll", "identity", "default", "remove"} => c.alias \in Aliases
<1>1. 0 \in Secrets /\ issued + 1 \in Secrets
  BY StoreAssumption DEF Secrets
<1>2. CASE c = Idle
  BY <1>2, AbsentIs DEF Idle, Command
<1>3. ASSUME NEW a \in Aliases \cup {None}, NEW u \in Urls, NEW t \in AuthTypes,
             c = Command("upsert", a, u, None, t, issued + 1)
      PROVE  c \in Cmds /\ c.op = "upsert" /\ c.url \in Urls
  BY <1>1, <1>3 DEF Command, Cmds, Ops
<1>4. ASSUME NEW a \in Aliases, NEW u \in Urls, NEW i \in Identities, NEW t \in AuthTypes,
             c = Command("enroll", a, u, i, t, issued + 1)
      PROVE  c \in Cmds /\ c.op = "enroll" /\ c.url \in Urls /\ c.alias \in Aliases
  BY <1>1, <1>4 DEF Command, Cmds, Ops
<1>5. ASSUME NEW a \in Aliases, NEW i \in Identities,
             c = Command("identity", a, None, i, "standard", 0)
      PROVE  c \in Cmds /\ c.op = "identity" /\ c.alias \in Aliases
  BY <1>1, <1>5 DEF Command, Cmds, Ops, AuthTypes
<1>6. ASSUME NEW op \in {"default", "remove"}, NEW a \in Aliases,
             c = Command(op, a, None, None, "standard", 0)
      PROVE  c \in Cmds /\ c.op = op /\ c.alias \in Aliases
  BY <1>1, <1>6 DEF Command, Cmds, Ops, AuthTypes
<1>7. \/ c = Idle
      \/ \E a \in Aliases \cup {None}, u \in Urls, t \in AuthTypes :
           c = Command("upsert", a, u, None, t, issued + 1)
      \/ \E a \in Aliases, u \in Urls, i \in Identities, t \in AuthTypes :
           c = Command("enroll", a, u, i, t, issued + 1)
      \/ \E a \in Aliases, i \in Identities : c = Command("identity", a, None, i, "standard", 0)
      \/ \E op \in {"default", "remove"}, a \in Aliases :
           c = Command(op, a, None, None, "standard", 0)
  BY DEF Commands
<1> QED BY <1>2, <1>3, <1>4, <1>5, <1>6, <1>7

(* A function with one more value, or with fewer.                           *)
LEMMA WithType ==
  ASSUME NEW S, NEW R, NEW f \in Partial(S, R), NEW x \in S, NEW v \in R, NEW g, g = With(f, x, v)
  PROVE  /\ g \in Partial(S, R) /\ DOMAIN g = DOMAIN f \cup {x} /\ g[x] = v
         /\ \A y \in DOMAIN f : y # x => g[y] = f[y]
<1>1. DOMAIN f \subseteq S /\ f \in [DOMAIN f -> R]
  BY PartialIs
<1>2. /\ DOMAIN g = DOMAIN f \cup {x} /\ g[x] = v /\ \A y \in DOMAIN f : y # x => g[y] = f[y]
      /\ g \in [DOMAIN g -> R]
  BY <1>1 DEF With
<1> QED BY <1>1, <1>2, PartialIs

(* A function without some of its arguments keeps the values of the others. *)
LEMMA WithoutType ==
  ASSUME NEW S, NEW R, NEW f \in Partial(S, R), NEW T, NEW g, g = Without(f, T)
  PROVE  /\ g \in Partial(S, R) /\ DOMAIN g = DOMAIN f \ T
         /\ \A y \in DOMAIN g : g[y] = f[y]
<1>1. DOMAIN f \subseteq S /\ f \in [DOMAIN f -> R]
  BY PartialIs
<1>2. g = [y \in DOMAIN f \ T |-> f[y]]
  BY DEF Without, Restrict
<1>3. DOMAIN g \subseteq S /\ g \in [DOMAIN g -> R]
  BY <1>1, <1>2
<1> QED BY <1>2, <1>3, PartialIs

-----------------------------------------------------------------------------
(* A step that leaves the store and its history alone.                      *)
LEMMA TypeStay ==
  ASSUME StoreType, HistoryType, UNCHANGED <<store, want, abandoned>>,
         watched' \in [Procs -> SUBSET Aliases]
  PROVE  StoreType' /\ HistoryType'
BY DEF StoreType, HistoryType, store

(* Every step of a process keeps the types.                                 *)
LEMMA TypeStep ==
  ASSUME TypeInv, SaveInv, NEW p \in Procs, Begin(p) \/ Step(p) \/ Dies(p)
  PROVE  StoreType' /\ HistoryType' /\ ProcType' /\ CmdInv'
<1>t. StoreType /\ HistoryType /\ ProcType /\ CmdInv /\ PhaseInv
  BY DEF TypeInv
<1>w. watched \in [Procs -> SUBSET Aliases] /\ file \in Files
      /\ keychain \in Partial(Accounts, Secrets)
  BY <1>t DEF HistoryType, StoreType
<1>f. ASSUME Finish(p), issued' = issued
      PROVE  ProcType' /\ CmdInv' /\ watched' \in [Procs -> SUBSET Aliases]
  BY <1>f, <1>t, <1>w, FinishType
(* Its command stays, and what it holds in memory stays a file.             *)
<1>c. ASSUME cmd' = cmd PROVE CmdInv'
  BY <1>c, <1>t DEF CmdInv, Stores
<1>1. CASE Begin(p)
  <2>1. PICK c \in Commands : cmd' = [cmd EXCEPT ![p] = c]
    BY <1>1 DEF Begin
  <2>2. issued \in 0..MaxCommands /\ issued < MaxCommands /\ issued' = issued + 1
    BY <1>1, <1>t DEF Begin, ProcType
  <2>3. /\ c \in Cmds
        /\ c.op \in {"upsert", "enroll"} => c.url \in Urls
        /\ c.op \in {"enroll", "identity", "default", "remove"} => c.alias \in Aliases
    BY <2>2, CommandsAre
  <2>4. UNCHANGED <<stage, draft, left, store, want, abandoned, watched>>
    BY <1>1 DEF Begin, history
  <2>5. issued' \in 0..MaxCommands
    BY <2>2, StoreAssumption
  <2>6. ProcType'
    BY <1>t, <2>1, <2>3, <2>4, <2>5 DEF ProcType
  <2>7. \A q \in Procs : cmd'[q] = IF q = p THEN c ELSE cmd[q]
    BY <1>t, <2>1 DEF ProcType
  <2>8. CmdInv'
    BY <1>t, <2>3, <2>7 DEF CmdInv, Stores
  <2> QED BY <1>t, <1>w, <2>4, <2>6, <2>8, TypeStay
<1>2. CASE Open(p) \/ CheckVersion(p)
  <2>1. /\ UNCHANGED <<store, want, abandoned, watched, cmd, draft, left, issued>>
        /\ stage' \in {stage, [stage EXCEPT ![p] = "load"], [stage EXCEPT ![p] = "edit"]}
    BY <1>2 DEF Open, CheckVersion, Enter, history
  <2>2. ProcType'
    BY <1>t, <2>1 DEF ProcType
  <2> QED BY <1>t, <1>w, <1>c, <2>1, <2>2, TypeStay
<1>3. CASE Seed(p)
  <2>1. /\ UNCHANGED <<keychain, want, abandoned, watched, cmd, draft, left, issued>>
        /\ stage' \in {[stage EXCEPT ![p] = "load"], [stage EXCEPT ![p] = "edit"]}
        /\ file' = file \/ \E url \in Urls : file' = LegacyFile("browser", url)
    BY <1>3 DEF Seed, Enter, history
  <2>2. ProcType'
    BY <1>t, <2>1 DEF ProcType
  <2>3. file' \in Files
    <3>1. "browser" \in AuthTypes
      BY DEF AuthTypes
    <3>2. ASSUME NEW url \in Urls PROVE LegacyFile("browser", url) \in Files
      BY <3>1, LegacyFileIs
    <3> QED BY <1>w, <2>1, <3>2
  <2> QED BY <1>t, <1>w, <1>c, <2>1, <2>2, <2>3 DEF StoreType, HistoryType
<1>4. CASE ReadFile(p)
  <2>1. /\ UNCHANGED <<store, cmd, stage, issued, want, abandoned>>
        /\ draft' = [draft EXCEPT ![p] = file] /\ left' = [left EXCEPT ![p] = AccountsOf(file)]
        /\ watched' = [watched EXCEPT ![p] = DOMAIN want]
    BY <1>4 DEF ReadFile
  <2>2. AccountsOf(file) \subseteq Kinds \X Aliases /\ DOMAIN want \subseteq Aliases
    BY <1>t, <1>w, ToPushIs, PartialIs DEF HistoryType
  <2>3. ProcType'
    BY <1>t, <1>w, <2>1, <2>2 DEF ProcType
  <2>4. watched' \in [Procs -> SUBSET Aliases]
    BY <1>w, <2>1, <2>2
  <2> QED BY <1>t, <1>c, <2>1, <2>3, <2>4, TypeStay
<1>5. CASE LoadReturns(p) \/ NothingToSave(p)
  <2>1. Finish(p) /\ UNCHANGED <<store, issued, want, abandoned>>
    BY <1>5 DEF LoadReturns, NothingToSave
  <2> QED BY <1>t, <1>f, <2>1, TypeStay
<1>6. CASE EnrollChecks(p)
  <2>1. UNCHANGED <<store, issued, want, abandoned>>
    BY <1>6 DEF EnrollChecks
  <2>2. CASE Finish(p)
    BY <1>t, <1>f, <2>1, <2>2, TypeStay
  <2>3. CASE ~Finish(p)
    <3>1. stage' = [stage EXCEPT ![p] = "edit"] /\ UNCHANGED <<cmd, draft, left, watched>>
      BY <1>6, <2>3 DEF EnrollChecks
    <3>2. ProcType'
      BY <1>t, <2>1, <3>1 DEF ProcType
    <3> QED BY <1>t, <1>w, <1>c, <2>1, <3>1, <3>2, TypeStay
  <2> QED BY <2>2, <2>3
<1>7. CASE Lock(p)
  <2>1. /\ UNCHANGED <<store, cmd, stage, issued, want, abandoned, watched, left>>
        /\ draft' \in {draft, [draft EXCEPT ![p] = Absent]}
    BY <1>7 DEF Lock, GoOn, history
  <2>2. ProcType'
    BY <1>t, <2>1, AbsentIs DEF ProcType
  <2> QED BY <1>t, <1>w, <1>c, <2>1, <2>2, TypeStay
<1>8. CASE Migrate(p)
  <2>1. Migrated(file) \in Files
    BY <1>w, MigratedIs
  <2>2. Save(p, Migrated(file)) /\ UNCHANGED <<file, cmd, stage, issued, want, abandoned, watched>>
    BY <1>8 DEF Migrate, history
  <2>3. ProcType'
    BY <1>t, <2>1, <2>2, SaveType DEF ProcType
  <2>4. keychain' \in Partial(Accounts, Secrets)
    BY <1>8, <1>w, WithoutType DEF Migrate
  <2> QED BY <1>t, <1>w, <1>c, <2>2, <2>3, <2>4 DEF StoreType, HistoryType
<1>9. CASE Edits(p)
  <2>1. PICK f \in Files : Save(p, f) /\ Edited(p, f)
    BY <1>t, <1>9, EditSaves
  <2>2. UNCHANGED <<file, stage, issued>>
    BY <1>9 DEF Edits, EditUpsert, SetIdentity, SetDefault, Remove, RemoveWith, store
  <2>3. cmd' = [cmd EXCEPT ![p] = cmd'[p]] /\ cmd'[p] \in Cmds
    <3>1. cmd' = cmd \/ \E a : cmd' = [cmd EXCEPT ![p].alias = a]
      BY <1>9 DEF Edits, EditUpsert, SetIdentity, SetDefault, Remove, RemoveWith
    <3>2. cmd' = [cmd EXCEPT ![p] = cmd'[p]]
      BY <1>t, <3>1 DEF ProcType
    <3>3. cmd[p] \in Cmds
      BY <1>t DEF ProcType
    <3>4. cmd'[p] \in Cmds
      <4>1. CASE Stores(p)
        BY <2>1, <3>3, <4>1 DEF Edited, Cmds
      <4>2. CASE ~Stores(p)
        BY <2>1, <3>3, <4>2 DEF Edited
      <4> QED BY <4>1, <4>2
    <3> QED BY <3>2, <3>4
  <2>4. ProcType'
    BY <1>t, <2>1, <2>2, <2>3, SaveType DEF ProcType
  <2>5. CmdInv'
    <3>1. ASSUME Stores(p) PROVE cmd'[p].op = cmd[p].op /\ cmd'[p].url = cmd[p].url
                                 /\ cmd'[p].alias \in Aliases
      <4>1. cmd[p] \in Cmds
        BY <1>t DEF ProcType
      <4> QED BY <2>1, <3>1, <4>1 DEF Edited, Cmds
    <3>2. ~Stores(p) => cmd'[p] = cmd[p]
      BY <2>1 DEF Edited
    <3>3. \A q \in Procs : q # p => cmd'[q] = cmd[q]
      BY <1>t, <2>3 DEF ProcType
    <3>4. ASSUME NEW q \in Procs
          PROVE  /\ Stores(q)' => cmd'[q].url \in Urls
                 /\ cmd'[q].op \in {"enroll", "identity", "default", "remove"} => cmd'[q].alias \in Aliases
      BY <1>t, <3>1, <3>2, <3>3 DEF CmdInv, Stores
    <3> QED BY <3>4 DEF CmdInv
  <2>6. keychain' \in Partial(Accounts, Secrets) /\ HistoryType'
    <3>1. CASE Remove(p)
      <4>1. keychain' \in Partial(Accounts, Secrets)
        BY <1>w, <3>1, WithoutType DEF Remove, RemoveWith
      <4>2. want' \in Partial(Aliases, Auth)
        BY <1>t, <3>1, WithoutType DEF Remove, RemoveWith, HistoryType
      <4>3. abandoned' \subseteq abandoned
        BY <3>1 DEF Remove, RemoveWith
      <4>4. watched' \in [Procs -> SUBSET Aliases]
        BY <1>w, <3>1 DEF Remove, RemoveWith
      <4> QED BY <1>t, <4>1, <4>2, <4>3, <4>4 DEF HistoryType
    <3>2. CASE ~Remove(p)
      BY <1>t, <1>w, <1>9, <3>2 DEF Edits, EditUpsert, SetIdentity, SetDefault, store, history, HistoryType
    <3> QED BY <3>1, <3>2
  <2> QED BY <1>w, <2>2, <2>4, <2>5, <2>6 DEF StoreType
<1>10. CASE GetSecret(p)
  <2>1. PICK x \in left[p] :
          /\ At(p, "get") /\ left' = [left EXCEPT ![p] = @ \ {x}]
          /\ draft' = [draft EXCEPT ![p] =
                         IF x \in DOMAIN keychain THEN SetSecret(@, x, keychain[x]) ELSE @]
          /\ UNCHANGED <<store, pc, cmd, stage, issued, want, abandoned, watched>>
    BY <1>10 DEF GetSecret, history
  <2>2. draft[p] \in Files /\ x \in AccountsOf(draft[p])
    BY <1>t, <2>1 DEF ProcType, TypeInv, LeftInv, At
  <2>3. x \in DOMAIN keychain => SetSecret(draft[p], x, keychain[x]) \in Files
    BY <1>w, <2>2, KeychainParts, SetSecretIs
  <2>4. ProcType'
    BY <1>t, <2>1, <2>2, <2>3 DEF ProcType
  <2> QED BY <1>t, <1>w, <1>c, <2>1, <2>4, TypeStay
<1>11. CASE Push(p)
  <2>1. PICK x \in left[p] :
          /\ At(p, "push") /\ left' = [left EXCEPT ![p] = @ \ {x}]
          /\ Accepts(p, x) \/ (Refuses(x) /\ UNCHANGED <<keychain, draft>>)
          /\ UNCHANGED <<file, lock, pc, cmd, stage, issued, want, abandoned, watched>>
    BY <1>11 DEF Push, history
  <2>2. /\ draft[p] \in Files /\ x \in AccountsOf(draft[p]) /\ x \in Accounts
        /\ SecretOf(draft[p], x) \in Secrets \cup {Placeholder}
    <3>1. draft[p] \in Files /\ x \in AccountsOf(draft[p])
      BY <1>t, <2>1 DEF ProcType, TypeInv, LeftInv, At
    <3>2. AccountsOf(draft[p]) \subseteq Kinds \X Aliases
      BY <3>1, ToPushIs
    <3> QED BY <3>1, <3>2, ToPushIs DEF Accounts
  <2>3. SecretOf(draft[p], x) \in Secrets
    BY <1>t, <2>1, <2>2 DEF TypeInv, LeftInv, At
  <2>4. SetSecret(draft[p], x, Placeholder) \in Files
    BY <2>2, SetSecretIs
  <2>5. ProcType'
    BY <1>t, <2>1, <2>4 DEF ProcType, Accepts
  <2>6. keychain' \in Partial(Accounts, Secrets)
    <3>1. CASE Accepts(p, x)
      BY <1>w, <2>2, <2>3, <3>1, WithType DEF Accepts
    <3> QED BY <1>w, <2>1, <3>1
  <2> QED BY <1>t, <1>w, <1>c, <2>1, <2>5, <2>6 DEF StoreType, HistoryType
<1>12. CASE WriteMigrated(p)
  <2>1. /\ file' = draft[p] /\ UNCHANGED <<keychain, cmd, stage, issued, want, abandoned, watched, left>>
        /\ draft' = [draft EXCEPT ![p] = Absent]
    BY <1>12 DEF WriteMigrated, GoOn, history
  <2>2. ProcType' /\ file' \in Files
    BY <1>t, <2>1, AbsentIs DEF ProcType
  <2> QED BY <1>t, <1>w, <1>c, <2>1, <2>2 DEF StoreType, HistoryType
<1>13. CASE Write(p)
  <2>1. /\ At(p, "push") /\ ~IsLegacy /\ file' = [draft[p] EXCEPT !.version = 2] /\ Finish(p)
        /\ UNCHANGED <<keychain, issued>>
        /\ IF Stores(p)
           THEN /\ want' = With(want, cmd[p].alias, [type |-> cmd[p].type, secret |-> cmd[p].secret])
                /\ abandoned' = {x \in abandoned : x[1] # cmd[p].alias}
           ELSE UNCHANGED <<want, abandoned>>
    BY <1>13 DEF Write
  <2>2. file' \in Files
    <3>1. draft[p] \in Files
      BY <1>t DEF ProcType
    <3> QED BY <2>1, <3>1 DEF Files
  <2>3. want' \in Partial(Aliases, Auth) /\ abandoned' \subseteq abandoned
    <3>1. CASE Stores(p)
      <4>1. cmd[p].alias \in Aliases
        BY <2>1, <3>1 DEF SaveInv
      <4> DEFINE v == [type |-> cmd[p].type, secret |-> cmd[p].secret]
      <4>2. v \in Auth /\ want' = With(want, cmd[p].alias, v)
        BY <1>t, <2>1, <3>1 DEF ProcType, Cmds, Auth
      <4>3. want \in Partial(Aliases, Auth)
        BY <1>t DEF HistoryType
      <4> HIDE DEF v
      <4>4. want' \in Partial(Aliases, Auth)
        BY <4>1, <4>2, <4>3, WithType
      <4> QED BY <2>1, <3>1, <4>4
    <3>2. CASE ~Stores(p)
      BY <1>t, <2>1, <3>2 DEF HistoryType
    <3> QED BY <3>1, <3>2
  <2> QED BY <1>t, <1>w, <1>f, <2>1, <2>2, <2>3 DEF StoreType, HistoryType
<1>14. CASE Dies(p)
  <2>1. /\ Finish(p) /\ UNCHANGED <<store, issued, want>>
        /\ abandoned' = IF At(p, "push") /\ ~IsLegacy /\ Stores(p)
                        THEN abandoned \cup {<<cmd[p].alias, cmd[p].secret>>} ELSE abandoned
    BY <1>14 DEF Dies
  <2>2. At(p, "push") /\ ~IsLegacy /\ Stores(p) => cmd[p].alias \in Aliases /\ cmd[p].secret \in Secrets
    BY <1>t DEF SaveInv, ProcType, Cmds
  <2>3. abandoned' \subseteq Aliases \X Secrets
    BY <1>t, <2>1, <2>2 DEF HistoryType
  <2> QED BY <1>t, <1>f, <2>1, <2>3 DEF StoreType, HistoryType, store
<1> QED
  BY <1>1, <1>2, <1>3, <1>4, <1>5, <1>6, <1>7, <1>8, <1>9, <1>10, <1>11, <1>12, <1>13, <1>14
     DEF Step, Edits

-----------------------------------------------------------------------------
(* A step of a process is its own: what the others hold stays theirs.       *)
LEMMA Others ==
  ASSUME LockInv, ProcType, watched \in [Procs -> SUBSET Aliases],
         NEW p \in Procs, Begin(p) \/ Step(p) \/ Dies(p),
         NEW q \in Procs, q # p
  PROVE  /\ pc'[q] = pc[q] /\ cmd'[q] = cmd[q] /\ draft'[q] = draft[q] /\ left'[q] = left[q]
         /\ watched'[q] \subseteq watched[q]
<1>t. /\ pc \in [Procs -> Critical \cup Outside] /\ cmd \in [Procs -> Cmds]
      /\ draft \in [Procs -> Files] /\ left \in [Procs -> SUBSET (Kinds \X Aliases)]
  BY DEF LockInv, ProcType
<1>f. ASSUME Finish(p) PROVE /\ pc'[q] = pc[q] /\ cmd'[q] = cmd[q] /\ draft'[q] = draft[q]
                             /\ left'[q] = left[q] /\ watched'[q] \subseteq watched[q]
  BY <1>t, <1>f DEF Finish, Goto
<1>1. CASE Begin(p) \/ Open(p) \/ Seed(p) \/ CheckVersion(p)
  BY <1>t, <1>1 DEF Begin, Open, Seed, CheckVersion, Enter, Goto, history
<1>2. CASE ReadFile(p) \/ GetSecret(p)
  BY <1>t, <1>2 DEF ReadFile, GetSecret, Goto, history
<1>3. CASE LoadReturns(p) \/ NothingToSave(p) \/ Write(p) \/ Dies(p)
  BY <1>f, <1>3 DEF LoadReturns, NothingToSave, Write, Dies
<1>4. CASE EnrollChecks(p)
  BY <1>t, <1>f, <1>4 DEF EnrollChecks, Goto
<1>5. CASE Lock(p) \/ WriteMigrated(p)
  BY <1>t, <1>5 DEF Lock, WriteMigrated, GoOn, Goto, history
<1>6. CASE Migrate(p) \/ EditUpsert(p) \/ SetIdentity(p) \/ SetDefault(p)
  BY <1>t, <1>6 DEF Migrate, EditUpsert, SetIdentity, SetDefault, Save, Goto, history
<1>7. CASE Remove(p)
  BY <1>t, <1>7 DEF Remove, RemoveWith, Save, Goto
<1>8. CASE Push(p)
  BY <1>t, <1>8 DEF Push, Accepts, history
<1> QED BY <1>1, <1>2, <1>3, <1>4, <1>5, <1>6, <1>7, <1>8 DEF Step

(* Who does not hold the lock leaves the store as it is, or seeds it.       *)
LEMMA Unlocked ==
  ASSUME LockInv, NEW p \in Procs, Begin(p) \/ Step(p) \/ Dies(p), lock # p
  PROVE  /\ UNCHANGED <<keychain, want, abandoned>>
         /\ file' = file \/ (lock = None /\ file = Absent /\ Seed(p))
<1>1. pc[p] \notin Critical
  BY DEF LockInv, OneWriter, Critical
<1>2. CASE Begin(p) \/ Open(p) \/ Seed(p) \/ CheckVersion(p)
  BY <1>2 DEF Begin, Open, Seed, CheckVersion, store, history
<1>3. CASE ReadFile(p) \/ GetSecret(p) \/ LoadReturns(p) \/ EnrollChecks(p) \/ Lock(p)
  BY <1>3 DEF ReadFile, GetSecret, LoadReturns, EnrollChecks, Lock, store, history
<1>4. CASE NothingToSave(p) \/ Dies(p)
  BY <1>1, <1>4 DEF NothingToSave, Dies, At, Critical, store
<1>5. ~(Migrate(p) \/ Edits(p) \/ Push(p) \/ WriteMigrated(p) \/ Write(p))
  BY <1>1 DEF Migrate, Edits, EditUpsert, SetIdentity, SetDefault, Remove, RemoveWith, Push,
              WriteMigrated, Write, At, Critical
<1> QED BY <1>2, <1>3, <1>4, <1>5 DEF Step, Edits

(* While a process is in its cycle, no other touches the store.             *)
LEMMA Held ==
  ASSUME LockInv, NEW p \in Procs, Begin(p) \/ Step(p) \/ Dies(p),
         NEW q \in Procs, q # p, pc[q] \in Critical
  PROVE  UNCHANGED <<file, keychain, want, abandoned>>
<1>1. lock = q /\ lock # None
  BY StoreAssumption DEF LockInv, OneWriter, Critical
<1> QED BY <1>1, Unlocked

(* Where the steps lead that matter to the store.                           *)
LEMMA Arrives ==
  ASSUME LockInv, NEW p \in Procs, Begin(p) \/ Step(p) \/ Dies(p)
  PROVE  /\ pc'[p] = "push" => Migrate(p) \/ Edits(p) \/ Push(p)
         /\ pc'[p] = "get" => ReadFile(p) \/ GetSecret(p)
         /\ pc'[p] = "edit" => (Lock(p) \/ WriteMigrated(p)) /\ GoOn(p)
         /\ pc'[p] = "migrate" => Lock(p) /\ IsLegacy
<1>t. pc \in [Procs -> Critical \cup Outside]
  BY DEF LockInv
<1>f. ASSUME Finish(p) PROVE pc'[p] = "idle"
  BY <1>t, <1>f DEF Finish, Goto
<1>g. ASSUME GoOn(p) PROVE pc'[p] \in {"read", "edit"}
  BY <1>t, <1>g DEF GoOn, Goto
<1>1. CASE Begin(p) \/ Open(p) \/ Seed(p) \/ CheckVersion(p)
  <2>1. pc'[p] \in {"open", "seed", "check", "lock", "read"}
    BY <1>t, <1>1 DEF Begin, Open, Seed, CheckVersion, Enter, Goto
  <2> QED BY <2>1
<1>2. CASE ReadFile(p)
  BY <1>t, <1>2 DEF ReadFile, Goto
<1>3. CASE GetSecret(p)
  BY <1>3 DEF GetSecret, At
<1>4. CASE LoadReturns(p) \/ NothingToSave(p) \/ Write(p) \/ Dies(p)
  BY <1>f, <1>4 DEF LoadReturns, NothingToSave, Write, Dies
<1>5. CASE EnrollChecks(p)
  <2>1. pc'[p] \in {"idle", "lock"}
    BY <1>t, <1>f, <1>5 DEF EnrollChecks, Goto
  <2> QED BY <2>1
<1>6. CASE Lock(p)
  BY <1>t, <1>g, <1>6 DEF Lock, Goto
<1>7. CASE WriteMigrated(p)
  BY <1>t, <1>g, <1>7 DEF WriteMigrated
<1>8. CASE Migrate(p) \/ Edits(p)
  <2>1. pc'[p] = "push"
    BY <1>t, <1>8 DEF Migrate, Edits, EditUpsert, SetIdentity, SetDefault, Remove, RemoveWith, Save, Goto
  <2> QED BY <1>8, <2>1
<1>9. CASE Push(p)
  BY <1>9 DEF Push, At
<1> QED BY <1>1, <1>2, <1>3, <1>4, <1>5, <1>6, <1>7, <1>8, <1>9 DEF Step, Edits

-----------------------------------------------------------------------------
(* The version and the default of the file.                                 *)
LEMMA PhaseStep ==
  ASSUME LockInv, TypeInv, SaveInv, NEW p \in Procs, Begin(p) \/ Step(p) \/ Dies(p)
  PROVE  PhaseInv'
<1>t. StoreType /\ HistoryType /\ ProcType /\ PhaseInv /\ CmdInv
  BY DEF TypeInv
<1>p. pc \in [Procs -> Critical \cup Outside]
  BY DEF LockInv
<1>w. watched \in [Procs -> SUBSET Aliases]
  BY <1>t DEF HistoryType
<1>1. /\ file'.version = 0 => file' = Absent
      /\ file'.default \in (IF file'.version = 1 THEN Urls ELSE DOMAIN file'.ws) \cup {None}
  <2>1. CASE file' = file
    BY <1>t, <2>1 DEF PhaseInv, IsLegacy
  <2>2. CASE Seed(p) /\ file' # file
    <3>1. PICK url \in Urls : file' = LegacyFile("browser", url)
      BY <2>2 DEF Seed
    <3>2. "browser" \in AuthTypes
      BY DEF AuthTypes
    <3>3. file'.version = 1 /\ file'.default = url
      BY <3>1, <3>2, LegacyFileIs
    <3> QED BY <3>3
  <2>3. CASE WriteMigrated(p)
    <3>1. file' = draft[p] /\ At(p, "push") /\ IsLegacy
      BY <2>3 DEF WriteMigrated
    <3>2. file'.version = 2 /\ file'.default \in DOMAIN file'.ws \cup {None}
      BY <3>1 DEF SaveInv
    <3> QED BY <3>2
  <2>4. CASE Write(p)
    <3>1. file' = [draft[p] EXCEPT !.version = 2] /\ At(p, "push") /\ draft[p] \in Files
      BY <1>t, <2>4 DEF Write, ProcType
    <3>2. file'.version = 2 /\ file'.default = draft[p].default /\ file'.ws = draft[p].ws
      BY <3>1 DEF Files
    <3>3. draft[p].default \in DOMAIN draft[p].ws \cup {None}
      BY <3>1 DEF SaveInv
    <3> QED BY <3>2, <3>3
  <2>5. file' = file \/ Seed(p) \/ WriteMigrated(p) \/ Write(p)
    <3>1. CASE lock # p
      BY <3>1, Unlocked
    <3>2. CASE lock = p
      <4>1. pc[p] \in Critical
        BY <3>2 DEF LockInv, OneWriter, Critical
      <4> QED BY <4>1 DEF Step, Dies, Begin, Open, CheckVersion, ReadFile, GetSecret, LoadReturns,
            EnrollChecks, Lock, Migrate, EditUpsert, SetIdentity, SetDefault, Remove, RemoveWith,
            NothingToSave, Push, store, Critical, At
    <3> QED BY <3>1, <3>2
  <2> QED BY <2>1, <2>2, <2>3, <2>4, <2>5
<1>2. ASSUME NEW q \in Procs, pc'[q] = "edit" PROVE file'.version # 1
  <2>1. CASE q # p
    <3>1. pc[q] = "edit"
      BY <1>t, <1>w, <1>2, <2>1, Others
    <3>2. file' = file
      BY <2>1, <3>1, Held DEF Critical
    <3> QED BY <1>t, <3>1, <3>2 DEF PhaseInv, At, IsLegacy
  <2>2. CASE q = p /\ Lock(p) /\ GoOn(p)
    <3>1. ~IsLegacy
      BY <1>p, <1>2, <2>2 DEF Lock, Goto
    <3> QED BY <2>2, <3>1 DEF Lock, store, IsLegacy
  <2>3. CASE q = p /\ WriteMigrated(p)
    BY <2>3 DEF WriteMigrated, SaveInv
  <2> QED BY <1>2, <2>1, <2>2, <2>3, Arrives
<1>3. ASSUME NEW q \in Procs, pc'[q] = "migrate" PROVE file'.version = 1
  <2>1. CASE q # p
    <3>1. pc[q] = "migrate"
      BY <1>t, <1>w, <1>3, <2>1, Others
    <3>2. file' = file
      BY <2>1, <3>1, Held DEF Critical
    <3> QED BY <1>t, <3>1, <3>2 DEF PhaseInv, At, IsLegacy
  <2>2. CASE q = p
    <3>1. Lock(p) /\ IsLegacy
      BY <1>3, <2>2, Arrives
    <3> QED BY <3>1 DEF Lock, store, IsLegacy
  <2> QED BY <2>1, <2>2
<1> QED BY <1>1, <1>2, <1>3 DEF PhaseInv, IsLegacy, At

-----------------------------------------------------------------------------
(* What a step pushes it takes off the list, and leaves the rest of the file. *)
LEMMA PushIs ==
  ASSUME LockInv, TypeInv, NEW p \in Procs, Push(p)
  PROVE  \E x \in left[p] :
           /\ x \in AccountsOf(draft[p]) /\ SecretOf(draft[p], x) \in Secrets
           /\ left'[p] = left[p] \ {x}
           /\ UNCHANGED <<file, pc, cmd, want, abandoned, watched>>
           /\ draft'[p] \in Files /\ draft'[p].version = draft[p].version
           /\ draft'[p].default = draft[p].default
           /\ DOMAIN draft'[p].ws = DOMAIN draft[p].ws
           /\ \A a \in DOMAIN draft[p].ws : draft'[p].ws[a].type = draft[p].ws[a].type
           /\ AccountsOf(draft'[p]) = AccountsOf(draft[p])
           /\ \A y \in AccountsOf(draft[p]) : y # x => SecretOf(draft'[p], y) = SecretOf(draft[p], y)
           /\ \/ DOMAIN keychain' = DOMAIN keychain \cup {x}
                 /\ keychain'[x] = SecretOf(draft[p], x)
                 /\ \A y \in DOMAIN keychain : y # x => keychain'[y] = keychain[y]
              \/ Refuses(x) /\ keychain' = keychain /\ draft' = draft
<1>1. PICK x \in left[p] :
        /\ At(p, "push") /\ left' = [left EXCEPT ![p] = @ \ {x}]
        /\ Accepts(p, x) \/ (Refuses(x) /\ UNCHANGED <<keychain, draft>>)
        /\ UNCHANGED <<file, lock, pc, cmd, stage, issued, want, abandoned, watched>>
  BY DEF Push, history
<1>2. /\ draft[p] \in Files /\ draft \in [Procs -> Files]
      /\ left \in [Procs -> SUBSET (Kinds \X Aliases)]
      /\ keychain \in Partial(Accounts, Secrets)
  BY DEF TypeInv, ProcType, StoreType
<1>3. x \in AccountsOf(draft[p]) /\ SecretOf(draft[p], x) \in Secrets
  <2>1. x \in AccountsOf(draft[p]) /\ SecretOf(draft[p], x) # Placeholder
    BY <1>1 DEF TypeInv, LeftInv, At
  <2> QED BY <1>2, <2>1, ToPushIs
<1>4. left'[p] = left[p] \ {x}
  BY <1>1, <1>2
<1>5. CASE Accepts(p, x)
  <2>1. draft'[p] = SetSecret(draft[p], x, Placeholder)
    BY <1>2, <1>5 DEF Accepts
  <2> DEFINE h == draft'[p]
  <2>2. h = SetSecret(draft[p], x, Placeholder)
    BY <2>1
  <2> HIDE DEF h
  <2>3. /\ h \in Files /\ h.version = draft[p].version /\ h.default = draft[p].default
        /\ DOMAIN h.ws = DOMAIN draft[p].ws
        /\ \A a \in DOMAIN draft[p].ws : h.ws[a].type = draft[p].ws[a].type
        /\ AccountsOf(h) = AccountsOf(draft[p])
        /\ \A y \in AccountsOf(draft[p]) : y # x => SecretOf(h, y) = SecretOf(draft[p], y)
    BY <1>2, <1>3, <2>2, SetSecretIs
  <2>4. /\ DOMAIN keychain' = DOMAIN keychain \cup {x}
        /\ keychain'[x] = SecretOf(draft[p], x)
        /\ \A y \in DOMAIN keychain : y # x => keychain'[y] = keychain[y]
    BY <1>2, <1>5, PartialIs DEF Accepts, With
  <2> QED BY <1>1, <1>3, <1>4, <2>3, <2>4 DEF h
<1>6. CASE Refuses(x) /\ UNCHANGED <<keychain, draft>>
  BY <1>1, <1>2, <1>3, <1>4, <1>6
<1> QED BY <1>1, <1>5, <1>6

(* A migration saves the entries it found, under version 2.                 *)
LEMMA MigrateIs ==
  ASSUME TypeInv, NEW p \in Procs, Migrate(p)
  PROVE  \E f \in Files :
           /\ Save(p, f) /\ f = Migrated(file)
           /\ f.version = 2 /\ f.default \in DOMAIN f.ws \cup {None}
           /\ DOMAIN f.ws = DOMAIN file.ws
           /\ UNCHANGED <<file, cmd, want, abandoned, watched>>
           /\ keychain' = Without(keychain, LegacyAccounts(file))
<1>1. file \in Files /\ keychain \in Partial(Accounts, Secrets)
  BY DEF TypeInv, StoreType
<1>2. /\ Save(p, Migrated(file)) /\ UNCHANGED <<file, cmd, want, abandoned, watched>>
      /\ keychain' = Without(keychain, LegacyAccounts(file))
  BY DEF Migrate, history
<1>3. \A f : f = Migrated(file) =>
         /\ f \in Files /\ f.version = 2 /\ f.default \in DOMAIN f.ws \cup {None}
         /\ DOMAIN f.ws = DOMAIN file.ws
  BY <1>1, MigratedIs
<1> QED BY <1>2, <1>3

(* What is left to do is of the file in memory, and has a secret.           *)
LEMMA LeftStep ==
  ASSUME LockInv, TypeInv, NEW p \in Procs, Begin(p) \/ Step(p) \/ Dies(p)
  PROVE  LeftInv'
<1>t. /\ StoreType /\ HistoryType /\ ProcType /\ CmdInv /\ PhaseInv /\ LeftInv
      /\ pc \in [Procs -> Critical \cup Outside]
      /\ watched \in [Procs -> SUBSET Aliases] /\ file \in Files
  BY DEF TypeInv, LockInv, HistoryType, StoreType
<1> SUFFICES ASSUME NEW q \in Procs, pc'[q] \in {"get", "push"}
             PROVE  /\ left'[q] \subseteq AccountsOf(draft'[q])
                    /\ pc'[q] = "push" => \A x \in left'[q] : SecretOf(draft'[q], x) # Placeholder
  BY DEF LeftInv
<1>1. CASE q # p
  <2>1. pc'[q] = pc[q] /\ draft'[q] = draft[q] /\ left'[q] = left[q]
    BY <1>t, <1>1, Others
  <2> QED BY <1>t, <2>1 DEF LeftInv
<1>2. ASSUME NEW f \in Files, Save(p, f)
      PROVE  left'[p] = ToPush(f) /\ draft'[p] = f /\ ToPush(f) \subseteq AccountsOf(f)
             /\ \A x \in ToPush(f) : SecretOf(f, x) # Placeholder
  <2>1. left'[p] = ToPush(f) /\ draft'[p] = f
    BY <1>t, <1>2, SaveType
  <2> QED BY <2>1 DEF ToPush
<1>3. CASE q = p /\ (Migrate(p) \/ Edits(p))
  <2>1. \E f \in Files : Save(p, f)
    BY <1>t, <1>3, MigrateIs, EditSaves
  <2> QED BY <1>2, <1>3, <2>1
<1>4. CASE q = p /\ Push(p)
  <2>1. pc[p] = "push"
    BY <1>4 DEF Push, At
  <2> QED BY <1>t, <1>4, <2>1, PushIs DEF LeftInv
<1>5. CASE q = p /\ ReadFile(p)
  <2>1. draft'[p] = file /\ left'[p] = AccountsOf(file) /\ pc'[p] = "get"
    BY <1>t, <1>5 DEF ReadFile, ProcType, Goto
  <2> QED BY <1>5, <2>1
<1>6. CASE q = p /\ GetSecret(p)
  <2>1. PICK x \in left[p] :
          /\ pc[p] = "get" /\ pc' = pc /\ left'[p] = left[p] \ {x}
          /\ draft'[p] = IF x \in DOMAIN keychain THEN SetSecret(draft[p], x, keychain[x]) ELSE draft[p]
    BY <1>t, <1>6 DEF GetSecret, At, ProcType
  <2>2. draft[p] \in Files /\ x \in AccountsOf(draft[p]) /\ left[p] \subseteq AccountsOf(draft[p])
    BY <1>t, <2>1 DEF ProcType, LeftInv
  <2>3. AccountsOf(draft'[p]) = AccountsOf(draft[p])
    <3>1. CASE x \in DOMAIN keychain
      <4>1. keychain[x] \in Secrets
        BY <1>t, <3>1, KeychainParts DEF StoreType
      <4> QED BY <2>1, <2>2, <3>1, <4>1, SetSecretIs
    <3> QED BY <2>1, <3>1
  <2> QED BY <1>6, <2>1, <2>2, <2>3
<1> QED BY <1>1, <1>3, <1>4, <1>5, <1>6, Arrives

-----------------------------------------------------------------------------
(* What a process is saving stays related to the file and to its command.   *)
LEMMA SaveStep ==
  ASSUME LockInv, TypeInv, SaveInv, NEW p \in Procs, Begin(p) \/ Step(p) \/ Dies(p)
  PROVE  SaveInv'
<1>t. /\ StoreType /\ HistoryType /\ ProcType /\ CmdInv /\ PhaseInv /\ LeftInv
      /\ pc \in [Procs -> Critical \cup Outside]
      /\ watched \in [Procs -> SUBSET Aliases] /\ file \in Files
      /\ keychain \in Partial(Accounts, Secrets)
  BY DEF TypeInv, LockInv, HistoryType, StoreType
<1> DEFINE Good(q) ==
      LET d == draft[q] a == cmd[q].alias IN
      /\ d.default \in DOMAIN d.ws \cup {None}
      /\ IsLegacy => d.version = 2 /\ DOMAIN d.ws = DOMAIN file.ws
      /\ ~IsLegacy =>
           /\ cmd[q].op # "load"
           /\ Stores(q) => a \in Aliases /\ DOMAIN d.ws = DOMAIN file.ws \cup {a}
           /\ cmd[q].op = "remove" =>
                DOMAIN d.ws = DOMAIN file.ws \ {a} /\ \A x \in DOMAIN keychain : x[2] # a
           /\ cmd[q].op \in {"identity", "default"} => DOMAIN d.ws = DOMAIN file.ws
<1>s. SaveInv <=> \A q \in Procs : pc[q] = "push" => Good(q)
  BY DEF SaveInv, At
<1>s1. SaveInv' <=> \A q \in Procs : pc'[q] = "push" => Good(q)'
  BY DEF SaveInv, At
<1> SUFFICES ASSUME NEW q \in Procs, pc'[q] = "push" PROVE Good(q)'
  BY <1>s1
<1>1. CASE q # p
  <2>1. pc[q] = "push" /\ draft'[q] = draft[q] /\ cmd'[q] = cmd[q]
    BY <1>t, <1>1, Others
  <2>2. UNCHANGED <<file, keychain>>
    BY <1>1, <2>1, Held DEF Critical
  <2>3. Good(q)
    BY <1>s, <2>1
  <2> QED BY <2>1, <2>2, <2>3 DEF Stores, IsLegacy
<1>2. CASE q = p /\ Migrate(p)
  <2>1. PICK f \in Files :
           /\ Save(p, f) /\ f.version = 2 /\ f.default \in DOMAIN f.ws \cup {None}
           /\ DOMAIN f.ws = DOMAIN file.ws /\ UNCHANGED file
    BY <1>2, MigrateIs
  <2>2. draft'[p] = f
    BY <1>t, <2>1, SaveType
  <2>3. IsLegacy'
    <3>1. IsLegacy
      BY <1>t, <1>2 DEF Migrate, PhaseInv
    <3> QED BY <2>1, <3>1 DEF IsLegacy
  <2> QED BY <1>2, <2>1, <2>2, <2>3
<1>3. CASE q = p /\ Edits(p)
  <2>1. PICK f \in Files : Save(p, f) /\ Edited(p, f)
    BY <1>t, <1>3, EditSaves
  <2>2. draft'[p] = f
    BY <1>t, <2>1, SaveType
  <2>3. file' = file /\ ~IsLegacy'
    <3>1. file' = file /\ At(p, "edit")
      BY <1>3 DEF Edits, EditUpsert, SetIdentity, SetDefault, Remove, RemoveWith, store
    <3> QED BY <1>t, <3>1 DEF PhaseInv, IsLegacy
  <2>4. CASE Stores(p)
    <3>1. cmd[p] \in Cmds
      BY <1>t DEF ProcType
    <3>2. cmd'[p].op = cmd[p].op /\ cmd'[p].alias \in Aliases /\ DOMAIN f.ws = DOMAIN file.ws \cup {cmd'[p].alias}
      BY <2>1, <2>4, <3>1 DEF Edited, Cmds
    <3>3. cmd[p].op \in {"upsert", "enroll"} /\ f.default \in DOMAIN f.ws \cup {None}
      BY <2>1, <2>4 DEF Stores, Edited
    <3> QED BY <1>3, <2>2, <2>3, <3>2, <3>3
  <2>5. CASE ~Stores(p)
    <3>1. /\ cmd'[p] = cmd[p] /\ f.default \in DOMAIN f.ws \cup {None}
          /\ \/ cmd[p].op \in {"identity", "default"} /\ DOMAIN f.ws = DOMAIN file.ws
             \/ cmd[p].op = "remove" /\ DOMAIN f.ws = DOMAIN file.ws \ {cmd[p].alias}
      BY <2>1, <2>5 DEF Edited
    <3>2. CASE cmd[p].op = "remove"
      <4>1. keychain' = Without(keychain, Kinds \X {cmd[p].alias})
        BY <1>3, <2>5, <3>2 DEF Edits, EditUpsert, SetIdentity, SetDefault, Remove, RemoveWith, Stores
      <4>2. DOMAIN keychain' = DOMAIN keychain \ (Kinds \X {cmd[p].alias})
        BY <4>1 DEF Without, Restrict
      <4>3. \A x \in DOMAIN keychain : x \in Accounts
        BY <1>t, KeychainParts
      <4>4. \A x \in DOMAIN keychain' : x[2] # cmd[p].alias
        BY <4>2, <4>3 DEF Accounts
      <4> QED BY <1>3, <2>2, <2>3, <3>1, <3>2, <4>4 DEF Stores
    <3>3. CASE cmd[p].op # "remove"
      BY <1>3, <2>2, <2>3, <3>1, <3>3 DEF Stores
    <3> QED BY <3>2, <3>3
  <2> QED BY <2>4, <2>5
<1>4. CASE q = p /\ Push(p)
  <2>1. PICK x \in left[p] :
           /\ x \in AccountsOf(draft[p])
           /\ UNCHANGED <<file, pc, cmd>>
           /\ draft'[p].version = draft[p].version
           /\ draft'[p].default = draft[p].default
           /\ DOMAIN draft'[p].ws = DOMAIN draft[p].ws
           /\ DOMAIN keychain' \subseteq DOMAIN keychain \cup {x}
    BY <1>4, PushIs
  <2>2. Good(p)
    BY <1>s, <1>4, <2>1
  <2>3. x[2] \in DOMAIN draft[p].ws
    BY <1>t, <2>1, ToPushIs DEF ProcType
  <2> QED BY <1>4, <2>1, <2>2, <2>3 DEF Stores, IsLegacy
<1> QED BY <1>1, <1>2, <1>3, <1>4, Arrives

-----------------------------------------------------------------------------
(* Every account of an alias keeps its reason.                              *)
LEMMA GoneStep ==
  ASSUME LockInv, TypeInv, SaveInv, RemovedIsGone,
         NEW p \in Procs, Begin(p) \/ Step(p) \/ Dies(p)
  PROVE  RemovedIsGone'
<1>t. /\ StoreType /\ HistoryType /\ ProcType /\ CmdInv /\ PhaseInv /\ LeftInv
      /\ pc \in [Procs -> Critical \cup Outside]
      /\ watched \in [Procs -> SUBSET Aliases] /\ file \in Files
      /\ keychain \in Partial(Accounts, Secrets) /\ cmd[p] \in Cmds
  BY DEF TypeInv, LockInv, HistoryType, StoreType, ProcType
<1> DEFINE Dead(a) == \E s \in Secrets : <<a, s>> \in abandoned
           Busy(a) == \E q \in Procs : pc[q] = "push" /\ a \in DOMAIN draft[q].ws
           Known(a) == a \in DOMAIN file.ws \/ Dead(a) \/ Busy(a)
<1>a. \A x \in DOMAIN keychain : x[2] \in Aliases => Known(x[2])
  BY DEF RemovedIsGone, At
<1>b. RemovedIsGone' <=> \A x \in DOMAIN keychain' : x[2] \in Aliases => Known(x[2])'
  BY DEF RemovedIsGone, At
(* While p is saving, nobody else is.                                       *)
<1>o. ASSUME pc[p] \in Critical, NEW a, Busy(a) PROVE pc[p] = "push" /\ a \in DOMAIN draft[p].ws
  BY <1>o DEF LockInv, OneWriter, Critical
(* Whoever does not hold the lock removes no reason.                        *)
<1>1. CASE pc[p] \notin Critical
  <2>1. lock # p
    BY <1>1 DEF LockInv, OneWriter, Critical
  <2>2. UNCHANGED <<keychain, abandoned>> /\ (file' = file \/ file = Absent)
    BY <2>1, Unlocked
  <2>3. ASSUME NEW a, Known(a) PROVE Known(a)'
    <3>1. CASE a \in DOMAIN file.ws
      <4>1. file' = file
        BY <2>2, <3>1, AbsentIs
      <4> QED BY <3>1, <4>1
    <3>2. CASE Dead(a)
      BY <2>2, <3>2
    <3>3. CASE Busy(a)
      <4>1. PICK q \in Procs : pc[q] = "push" /\ a \in DOMAIN draft[q].ws
        BY <3>3
      <4>2. q # p
        BY <1>1, <4>1 DEF Critical
      <4>3. pc'[q] = "push" /\ draft'[q] = draft[q]
        BY <1>t, <4>1, <4>2, Others
      <4> QED BY <4>1, <4>3
    <3> QED BY <2>3, <3>1, <3>2, <3>3
  <2> QED BY <1>a, <1>b, <2>2, <2>3
(* An edit: the accounts of a removed alias go, and its save has begun.     *)
<1>2. CASE pc[p] \in Critical /\ (Migrate(p) \/ Edits(p))
  <2>1. pc[p] # "push"
    BY <1>2 DEF Migrate, Edits, EditUpsert, SetIdentity, SetDefault, Remove, RemoveWith, At
  <2>2. file' = file
    BY <1>2 DEF Migrate, Edits, EditUpsert, SetIdentity, SetDefault, Remove, RemoveWith, store
  <2>3. \A a : ~Busy(a)
    BY <1>2, <1>o, <2>1
  <2>4. ASSUME NEW x \in DOMAIN keychain', x[2] \in Aliases
        PROVE  x \in DOMAIN keychain /\ (Dead(x[2]) => Dead(x[2])')
    <3>1. CASE Remove(p)
      <4>1. DOMAIN keychain' = DOMAIN keychain \ (Kinds \X {cmd[p].alias})
        BY <3>1 DEF Remove, RemoveWith, Without, Restrict
      <4>2. x \in Accounts
        BY <1>t, <2>4, <4>1, KeychainParts
      <4>3. x[2] # cmd[p].alias
        BY <2>4, <4>1, <4>2 DEF Accounts
      <4>4. abandoned' = {y \in abandoned : y[1] # cmd[p].alias}
        BY <3>1 DEF Remove, RemoveWith
      <4> QED BY <2>4, <4>1, <4>3, <4>4
    <3>2. CASE ~Remove(p)
      <4>1. abandoned' = abandoned /\ DOMAIN keychain' \subseteq DOMAIN keychain
        BY <1>2, <3>2 DEF Migrate, Edits, EditUpsert, SetIdentity, SetDefault, Without, Restrict,
                          store, history
      <4> QED BY <2>4, <4>1
    <3> QED BY <3>1, <3>2
  <2> QED BY <1>a, <1>b, <2>2, <2>3, <2>4
<1>3. CASE Push(p)
  <2>1. PICK x \in left[p] :
           /\ x \in AccountsOf(draft[p])
           /\ UNCHANGED <<file, pc, abandoned>>
           /\ DOMAIN draft'[p].ws = DOMAIN draft[p].ws
           /\ DOMAIN keychain' \subseteq DOMAIN keychain \cup {x}
    BY <1>3, PushIs
  <2>2. x[2] \in DOMAIN draft[p].ws /\ pc[p] = "push"
    BY <1>t, <1>3, <2>1, ToPushIs DEF ProcType, Push, At
  <2>3. ASSUME NEW a, Known(a) PROVE Known(a)'
    <3>1. CASE Busy(a)
      <4>1. a \in DOMAIN draft[p].ws
        BY <1>o, <2>2, <3>1 DEF Critical
      <4> QED BY <2>1, <2>2, <4>1
    <3> QED BY <2>1, <2>3, <3>1
  <2> QED BY <1>a, <1>b, <2>1, <2>2, <2>3
(* A write: what was being saved is in the file.                            *)
<1>4. CASE WriteMigrated(p)
  <2>1. /\ pc[p] = "push" /\ IsLegacy /\ file' = draft[p] /\ UNCHANGED <<keychain, abandoned>>
    BY <1>4 DEF WriteMigrated, At, history
  <2>2. DOMAIN draft[p].ws = DOMAIN file.ws
    BY <2>1 DEF SaveInv, At
  <2>3. ASSUME NEW a, Known(a) PROVE Known(a)'
    <3>1. CASE Busy(a)
      BY <1>o, <2>1, <3>1 DEF Critical
    <3> QED BY <2>1, <2>2, <2>3, <3>1
  <2> QED BY <1>a, <1>b, <2>1, <2>3
<1>5. CASE Write(p)
  <2>1. /\ pc[p] = "push" /\ ~IsLegacy /\ file' = [draft[p] EXCEPT !.version = 2]
        /\ keychain' = keychain /\ draft[p] \in Files
        /\ abandoned' = IF Stores(p) THEN {x \in abandoned : x[1] # cmd[p].alias} ELSE abandoned
    BY <1>t, <1>5 DEF Write, At, ProcType
  <2>2. file'.ws = draft[p].ws
    BY <2>1 DEF Files
  <2>3. /\ cmd[p].op # "load"
        /\ Stores(p) => DOMAIN draft[p].ws = DOMAIN file.ws \cup {cmd[p].alias}
        /\ cmd[p].op = "remove" =>
             DOMAIN draft[p].ws = DOMAIN file.ws \ {cmd[p].alias}
             /\ \A x \in DOMAIN keychain : x[2] # cmd[p].alias
        /\ cmd[p].op \in {"identity", "default"} => DOMAIN draft[p].ws = DOMAIN file.ws
    BY <2>1 DEF SaveInv, At
  <2>4. Stores(p) \/ cmd[p].op \in {"remove", "identity", "default"}
    BY <1>t, <2>3 DEF Cmds, Ops, Stores
  <2>5. ASSUME NEW x \in DOMAIN keychain, x[2] \in Aliases PROVE Known(x[2])'
    <3>1. CASE x[2] \in DOMAIN file.ws
      BY <2>2, <2>3, <2>4, <3>1
    <3>2. CASE Dead(x[2]) /\ ~(Stores(p) /\ x[2] = cmd[p].alias)
      BY <2>1, <3>2
    <3>3. CASE Stores(p) /\ x[2] = cmd[p].alias
      BY <2>2, <2>3, <3>3
    <3>4. CASE Busy(x[2])
      BY <1>o, <2>1, <2>2, <3>4 DEF Critical
    <3> QED BY <1>a, <2>5, <3>1, <3>2, <3>3, <3>4
  <2> QED BY <1>b, <2>1, <2>5
(* A death: what it was storing is abandoned.                               *)
<1>6. CASE Dies(p) /\ pc[p] \in Critical
  <2>1. /\ UNCHANGED <<file, keychain>>
        /\ abandoned' = IF pc[p] = "push" /\ ~IsLegacy /\ Stores(p)
                        THEN abandoned \cup {<<cmd[p].alias, cmd[p].secret>>} ELSE abandoned
    BY <1>6 DEF Dies, At, store
  <2>2. cmd[p].secret \in Secrets
    BY <1>t DEF Cmds
  <2>3. ASSUME NEW a, Known(a) PROVE Known(a)'
    <3>1. CASE a \in DOMAIN file.ws \/ Dead(a)
      BY <2>1, <3>1
    <3>2. CASE Busy(a) /\ a \notin DOMAIN file.ws
      <4>1. pc[p] = "push" /\ a \in DOMAIN draft[p].ws
        BY <1>6, <1>o, <3>2
      <4>2. ~IsLegacy /\ Stores(p) /\ a = cmd[p].alias
        BY <1>t, <3>2, <4>1 DEF SaveInv, At, Cmds, Ops, Stores
      <4> QED BY <2>1, <2>2, <4>1, <4>2
    <3> QED BY <2>3, <3>1, <3>2
  <2> QED BY <1>a, <1>b, <2>1, <2>3
<1>7. CASE NothingToSave(p)
  <2>1. /\ UNCHANGED <<file, keychain, abandoned>> /\ pc[p] = "edit"
    BY <1>7 DEF NothingToSave, At, store
  <2>2. \A a : ~Busy(a)
    BY <1>o, <2>1 DEF Critical
  <2> QED BY <1>a, <1>b, <2>1, <2>2
<1>8. pc[p] \in Critical => /\ ~(Begin(p) \/ Open(p) \/ Seed(p) \/ CheckVersion(p) \/ ReadFile(p))
                            /\ ~(GetSecret(p) \/ LoadReturns(p) \/ EnrollChecks(p) \/ Lock(p))
  BY DEF Begin, Open, Seed, CheckVersion, ReadFile, GetSecret, LoadReturns, Loaded, EnrollChecks,
         Lock, At, Critical
<1> QED BY <1>1, <1>2, <1>3, <1>4, <1>5, <1>6, <1>7, <1>8 DEF Step, Edits

-----------------------------------------------------------------------------
(* The lock is a process's, or nobody's.                                    *)
LEMMA HolderStep ==
  ASSUME lock \in Procs \cup {None}, NEW p \in Procs, Begin(p) \/ Step(p) \/ Dies(p)
  PROVE  lock' \in Procs \cup {None}
<1>1. CASE Begin(p) \/ Open(p) \/ Seed(p) \/ CheckVersion(p) \/ ReadFile(p) \/ GetSecret(p)
  BY <1>1 DEF Begin, Open, Seed, CheckVersion, ReadFile, GetSecret
<1>2. CASE LoadReturns(p) \/ EnrollChecks(p) \/ NothingToSave(p) \/ Write(p) \/ Dies(p)
  BY <1>2 DEF LoadReturns, EnrollChecks, NothingToSave, Write, Dies, Finish
<1>3. CASE Lock(p) \/ WriteMigrated(p)
  BY <1>3 DEF Lock, WriteMigrated, GoOn
<1>4. CASE Migrate(p) \/ Edits(p) \/ Push(p)
  BY <1>4 DEF Migrate, Edits, EditUpsert, SetIdentity, SetDefault, Remove, RemoveWith, Push
<1> QED BY <1>1, <1>2, <1>3, <1>4 DEF Step, Edits

(* The start: an empty store, or a version-1 one.                           *)
LEMMA GoneInit == Init => GoneInv
<1> SUFFICES ASSUME Init PROVE GoneInv
  OBVIOUS
<1>1. LockInv
  BY LockInvInit
<1>p. \A p \in Procs : pc[p] = "idle" /\ cmd[p] = Idle
  BY DEF Init
<1>2. /\ file \in Files /\ keychain \in Partial(Accounts, Secrets)
      /\ want \in Partial(Aliases, Auth)
      /\ \A x \in DOMAIN keychain : x[2] \notin Aliases
      /\ file.version = 0 => file = Absent
      /\ file.default \in (IF IsLegacy THEN Urls ELSE DOMAIN file.ws) \cup {None}
  <2>1. CASE /\ file = Absent
             /\ keychain = [x \in {} |-> 0] /\ want = [a \in {} |-> None]
    <3>1. DOMAIN keychain = {} /\ keychain \in [{} -> Secrets]
      BY <2>1
    <3>2. DOMAIN want = {} /\ want \in [{} -> Auth]
      BY <2>1
    <3>3. keychain \in Partial(Accounts, Secrets) /\ want \in Partial(Aliases, Auth)
      BY <3>1, <3>2, PartialIs
    <3>4. file.default = None /\ ~IsLegacy /\ file \in Files
      BY <2>1, AbsentIs DEF IsLegacy, Absent
    <3>5. file.default \in (IF IsLegacy THEN Urls ELSE DOMAIN file.ws) \cup {None}
      BY <3>4
    <3>6. \A x \in DOMAIN keychain : x[2] \notin Aliases
      BY <3>1
    <3>7. file.version = 0 => file = Absent
      BY <2>1
    <3> QED BY <3>3, <3>4, <3>5, <3>6, <3>7
  <2>2. CASE \E type \in AuthTypes, url \in Urls \cup {None} :
               /\ file = LegacyFile(type, url) /\ keychain = LegacyKeychain(type)
               /\ want = [a \in LegacyAliases |-> [type |-> type, secret |-> 0]]
    <3>0. PICK type \in AuthTypes, url \in Urls \cup {None} :
               /\ file = LegacyFile(type, url) /\ keychain = LegacyKeychain(type)
               /\ want = [a \in LegacyAliases |-> [type |-> type, secret |-> 0]]
      BY <2>2
    <3>1. file \in Files /\ file.version = 1 /\ file.default = url
      BY <3>0, LegacyFileIs
    <3>2. /\ keychain \in Partial(Accounts, Secrets)
          /\ \A x \in DOMAIN keychain : x[2] \notin Aliases
      BY <3>0, LegacyKeychainIs
    <3>3. 0 \in Secrets
      BY StoreAssumption DEF Secrets
    <3>4. DOMAIN want \subseteq Aliases /\ want \in [DOMAIN want -> Auth]
      BY <3>0, <3>3, StoreAssumption DEF Auth
    <3>5. want \in Partial(Aliases, Auth)
      BY <3>4, PartialIs
    <3> QED BY <3>1, <3>2, <3>5 DEF IsLegacy
  <2> QED BY <2>1, <2>2 DEF Init
<1>3. ProcType /\ HistoryType
  <2>1. 0 \in 0..MaxCommands
    BY StoreAssumption
  <2> QED BY <1>2, <2>1, AbsentIs DEF Init, ProcType, HistoryType
<1>4. CmdInv
  BY <1>p DEF CmdInv, Stores, Idle, Command
<1>5. PhaseInv /\ LeftInv /\ SaveInv
  BY <1>2, <1>p DEF PhaseInv, LeftInv, SaveInv, At
<1>6. RemovedIsGone
  BY <1>2 DEF RemovedIsGone
<1>7. lock \in Procs \cup {None}
  BY DEF Init
<1> QED BY <1>7, <1>1, <1>2, <1>3, <1>4, <1>5, <1>6 DEF GoneInv, TypeInv, StoreType

(* The invariant is inductive.                                              *)
LEMMA GoneNext == GoneInv /\ [Next]_vars => GoneInv'
<1> SUFFICES ASSUME GoneInv, [Next]_vars PROVE GoneInv'
  OBVIOUS
<1>1. CASE \E p \in Procs : Begin(p) \/ Step(p) \/ Dies(p)
  <2>1. PICK p \in Procs : Begin(p) \/ Step(p) \/ Dies(p)
    BY <1>1
  <2>2. LockInv'
    BY <2>1, StepPreserves DEF GoneInv
  <2>3. TypeInv'
    BY <2>1, TypeStep, PhaseStep, LeftStep DEF GoneInv, TypeInv
  <2> QED BY <2>1, <2>2, <2>3, SaveStep, GoneStep, HolderStep DEF GoneInv
<1>2. CASE UNCHANGED vars
  <2>1. LockInv'
    BY <1>2, LockInvNext DEF GoneInv
  <2>2. StoreType' /\ HistoryType' /\ ProcType' /\ CmdInv'
    BY <1>2 DEF vars, GoneInv, TypeInv, StoreType, HistoryType, ProcType, CmdInv, Stores
  <2>3. PhaseInv' /\ LeftInv'
    BY <1>2 DEF vars, GoneInv, TypeInv, PhaseInv, LeftInv, IsLegacy, At
  <2>4. SaveInv' /\ RemovedIsGone'
    BY <1>2 DEF vars, GoneInv, SaveInv, RemovedIsGone, IsLegacy, At, Stores
  <2>5. lock' \in Procs \cup {None}
    BY <1>2 DEF vars, GoneInv
  <2> QED BY <2>1, <2>2, <2>3, <2>4, <2>5 DEF GoneInv, TypeInv
<1> QED BY <1>1, <1>2 DEF Next, Done

(* Locks, types, what is being saved and what is left behind, together.      *)
LEMMA GoneCorrect == Spec => []GoneInv
BY GoneInit, GoneNext, PTL DEF Spec

(* Types, and the stored default always names an entry of the file, through *)
(* removals, migrations and deaths.                                         *)
THEOREM TypeCorrect == Spec => []StoreTypeOK
<1>1. GoneInv => StoreTypeOK
  <2> SUFFICES ASSUME GoneInv PROVE StoreTypeOK
    OBVIOUS
  <2>t. /\ StoreType /\ HistoryType /\ ProcType /\ CmdInv /\ PhaseInv
        /\ pc \in [Procs -> Critical \cup Outside] /\ OneWriter
    BY DEF GoneInv, TypeInv, LockInv
  <2>1. ASSUME NEW f \in Files,
               f.default \in (IF f.version = 1 THEN Urls ELSE DOMAIN f.ws) \cup {None}
        PROVE  FileOK(f)
    <3>1. DOMAIN f = {"version", "default", "ws"}
      BY FileParts
    <3>2. \A a \in DOMAIN f.ws : f.ws[a] \in Workspaces
      BY FileParts
    <3> QED BY <2>1, <3>1, <3>2, FileParts DEF FileOK, Workspaces
  <2>2. FileOK(file)
    BY <2>t, <2>1 DEF StoreType, PhaseInv, IsLegacy
  <2>3. ASSUME NEW p \in Procs PROVE FileOK([draft[p] EXCEPT !.default = None])
    <3> DEFINE f == [draft[p] EXCEPT !.default = None]
    <3>1. draft[p] \in Files
      BY <2>t DEF ProcType
    <3>2. f \in Files /\ f.default = None
      BY <3>1, DefaultIs
    <3> QED BY <2>1, <3>2
  <2>4. DOMAIN keychain \subseteq Accounts /\ \A x \in DOMAIN keychain : keychain[x] \in Secrets
    BY <2>t, KeychainParts DEF StoreType
  <2>5. lock \in Procs \cup {None}
    BY DEF GoneInv
  <2>6. pc \in [Procs -> {"idle", "open", "seed", "check", "read", "get", "lock",
                          "migrate", "edit", "push"}]
    BY <2>t DEF Critical, Outside
  <2>7. DOMAIN want \subseteq Aliases
    BY <2>t, PartialIs DEF HistoryType
  <2> QED BY <2>t, <2>2, <2>3, <2>4, <2>5, <2>6, <2>7 DEF StoreTypeOK, ProcType, Accounts
<1> QED BY <1>1, GoneCorrect, PTL

(* Nothing of a removed workspace stays in the keychain, whatever auths it  *)
(* had, in whatever order processes work and wherever they die              *)
(* (RemovedIsGone, of Remove, mutations.go:47).                             *)
THEOREM NothingStaysBehind == Spec => []RemovedIsGone
BY GoneCorrect, PTL DEF GoneInv

-----------------------------------------------------------------------------
(* What a secret may be, as the state changes: it stays one of the store's, *)
(* or one that a save has begun to replace it by.                           *)
LEMMA KeptStays ==
  ASSUME NEW a \in DOMAIN want, a \in DOMAIN want', want'[a] = want[a], NEW v, Kept(a, v),
         <<a, v>> \in abandoned => <<a, v>> \in abandoned',
         \A q \in Procs : Replaces(q, a) /\ v = cmd[q].secret =>
            \/ <<a, v>> \in abandoned'
            \/ Replaces(q, a)' /\ cmd'[q] = cmd[q]
  PROVE  Kept(a, v)'
<1>1. CASE StaleSetMayFail \/ Stored(a, v)
  BY <1>1 DEF Kept, Stored, Secrets
<1>2. CASE \E q \in Procs : Replaces(q, a) /\ v = cmd[q].secret
  BY <1>2 DEF Kept, Stored, Secrets
<1> QED BY <1>1, <1>2 DEF Kept

(* The same, where the value is that of an account in the new state.        *)
LEMMA KeptValue ==
  ASSUME NEW a, NEW x, NEW v, Kept(a, v)', ValueIn(file, x)' = v
  PROVE  Kept(a, ValueIn(file, x))'
BY DEF Kept, Stored, Secrets

(* An entry whose secrets do not change is kept.                            *)
LEMMA EntryStays ==
  ASSUME NEW a \in DOMAIN want, KeptEntry(a), a \in DOMAIN want', want'[a] = want[a],
         a \in DOMAIN file'.ws, file'.ws[a].type = file.ws[a].type,
         \A k \in KindsOf(want[a].type) : ValueIn(file, <<k, a>>)' = ValueIn(file, <<k, a>>),
         \A v : <<a, v>> \in abandoned => <<a, v>> \in abandoned',
         \A q \in Procs : Replaces(q, a) =>
            \/ <<a, cmd[q].secret>> \in abandoned'
            \/ Replaces(q, a)' /\ cmd'[q] = cmd[q]
  PROVE  KeptEntry(a)'
<1>1. ASSUME NEW k \in KindsOf(want[a].type) PROVE Kept(a, ValueIn(file, <<k, a>>))'
  <2>1. PICK v : v = ValueIn(file, <<k, a>>)
    OBVIOUS
  <2>2. Kept(a, v)
    BY <2>1 DEF KeptEntry
  <2>3. Kept(a, v)'
    BY <2>2, KeptStays
  <2> QED BY <2>1, <2>3, KeptValue
<1>2. KeptEntry(a)' <=> /\ a \in DOMAIN file'.ws /\ file'.ws[a].type = want'[a].type
                       /\ \A k \in KindsOf(want'[a].type) : Kept(a, ValueIn(file, <<k, a>>))'
  BY DEF KeptEntry, KindsOf
<1> QED BY <1>1, <1>2 DEF KeptEntry

(* While nobody is saving, nothing is being replaced.                       *)
LEMMA NoneSaving ==
  ASSUME LockInv, NEW p \in Procs, pc[p] \in Critical
  PROVE  \A q \in Procs : \A a : Replaces(q, a) => q = p /\ pc[p] = "push"
BY DEF LockInv, OneWriter, Replaces, Saving, At, Critical

(* A store that is not there has nothing of value.                          *)
LEMMA NothingWanted ==
  ASSUME KeptInv, file = Absent
  PROVE  DOMAIN want = {}
<1>1. ~IsLegacy /\ DOMAIN file.ws = {}
  BY AbsentIs DEF IsLegacy, Absent
<1> QED BY <1>1 DEF KeptInv, KeptEntry

(* A push takes one account further and changes no other.  The account has  *)
(* the outcome that was to be expected, unless the keychain keeps an older  *)
(* secret.                                                                  *)
LEMMA PushKeeps ==
  ASSUME LockInv, TypeInv, NEW p \in Procs, Push(p)
  PROVE  \E x \in AccountsOf(draft[p]) :
           /\ UNCHANGED <<file, pc, cmd, want, abandoned>>
           /\ DOMAIN draft'[p].ws = DOMAIN draft[p].ws
           /\ \A a \in DOMAIN draft[p].ws : draft'[p].ws[a].type = draft[p].ws[a].type
           /\ \A y : y # x => ValueIn(file, y)' = ValueIn(file, y)
           /\ \A y \in AccountsOf(draft[p]) : y # x => Outcome(p, y)' = Outcome(p, y)
           /\ Outcome(p, x) \in Secrets
           /\ \/ /\ Outcome(p, x)' = Outcome(p, x)
                 /\ ValueIn(file, x)' \in {Outcome(p, x), ValueIn(file, x)}
              \/ /\ StaleSetMayFail /\ ValueIn(file, x)' = ValueIn(file, x)
                 /\ Outcome(p, x)' = ValueIn(file, x) /\ ValueIn(file, x) \in Secrets
<1>1. PICK x \in left[p] :
         /\ x \in AccountsOf(draft[p]) /\ SecretOf(draft[p], x) \in Secrets
         /\ left'[p] = left[p] \ {x}
         /\ UNCHANGED <<file, pc, cmd, want, abandoned, watched>>
         /\ DOMAIN draft'[p].ws = DOMAIN draft[p].ws
         /\ \A a \in DOMAIN draft[p].ws : draft'[p].ws[a].type = draft[p].ws[a].type
         /\ \A y \in AccountsOf(draft[p]) : y # x => SecretOf(draft'[p], y) = SecretOf(draft[p], y)
         /\ \/ DOMAIN keychain' = DOMAIN keychain \cup {x}
               /\ keychain'[x] = SecretOf(draft[p], x)
               /\ \A y \in DOMAIN keychain : y # x => keychain'[y] = keychain[y]
            \/ Refuses(x) /\ keychain' = keychain /\ draft' = draft
  BY PushIs
<1>2. \A y \in DOMAIN keychain : keychain[y] \in Secrets
  BY KeychainParts DEF TypeInv, StoreType
<1>3. \A y : y # x => (y \in DOMAIN keychain' <=> y \in DOMAIN keychain)
                      /\ (y \in DOMAIN keychain => keychain'[y] = keychain[y])
  BY <1>1
<1>4. \A y : y # x => ValueIn(file, y)' = ValueIn(file, y)
  BY <1>1, <1>3 DEF ValueIn, SecretOf
<1>5. ASSUME NEW y \in AccountsOf(draft[p]), y # x PROVE Outcome(p, y)' = Outcome(p, y)
  <2>1. SecretOf(draft'[p], y) = SecretOf(draft[p], y) /\ (y \in left'[p] <=> y \in left[p])
    BY <1>1, <1>5
  <2>2. /\ Outcome(p, y)' = IF y \in left'[p] THEN SecretOf(draft'[p], y)
                            ELSE IF y \in DOMAIN keychain' THEN keychain'[y]
                            ELSE SecretOf(draft'[p], y)
        /\ Outcome(p, y) = IF y \in left[p] THEN SecretOf(draft[p], y)
                           ELSE IF y \in DOMAIN keychain THEN keychain[y]
                           ELSE SecretOf(draft[p], y)
    BY DEF Outcome, ValueIn, SecretOf
  <2> QED BY <1>3, <1>5, <2>1, <2>2
<1>6. Outcome(p, x) = SecretOf(draft[p], x)
  BY <1>1 DEF Outcome
<1>7. /\ Outcome(p, x)' = IF x \in DOMAIN keychain' THEN keychain'[x] ELSE SecretOf(draft'[p], x)
      /\ ValueIn(file, x)' = IF x \in DOMAIN keychain' THEN keychain'[x] ELSE SecretOf(file, x)
      /\ ValueIn(file, x) = IF x \in DOMAIN keychain THEN keychain[x] ELSE SecretOf(file, x)
  BY <1>1 DEF Outcome, ValueIn, SecretOf
<1>8. \/ /\ Outcome(p, x)' = Outcome(p, x)
         /\ ValueIn(file, x)' \in {Outcome(p, x), ValueIn(file, x)}
      \/ /\ StaleSetMayFail /\ ValueIn(file, x)' = ValueIn(file, x)
         /\ Outcome(p, x)' = ValueIn(file, x) /\ ValueIn(file, x) \in Secrets
  <2>1. CASE x \in DOMAIN keychain' /\ keychain'[x] = SecretOf(draft[p], x)
    BY <1>6, <1>7, <2>1
  <2>2. CASE Refuses(x) /\ keychain' = keychain /\ draft' = draft
    BY <1>2, <1>6, <1>7, <2>2 DEF Refuses
  <2> QED BY <1>1, <2>1, <2>2
<1> QED BY <1>1, <1>4, <1>5, <1>6, <1>8

-----------------------------------------------------------------------------
(* The file keeps what was stored: through other processes' steps, ...      *)
LEMMA KeptOutside ==
  ASSUME LockInv, TypeInv, KeptInv,
         NEW p \in Procs, Begin(p) \/ Step(p) \/ Dies(p), pc[p] \notin Critical
  PROVE  KeptInv'
<1>1. lock # p
  BY DEF LockInv, OneWriter, Critical
<1>2. /\ UNCHANGED <<keychain, want, abandoned>>
      /\ file' = file \/ file = Absent
  BY <1>1, Unlocked
<1>3. CASE file' # file
  BY <1>2, <1>3, NothingWanted DEF KeptInv
<1>4. CASE file' = file
  <2>1. ASSUME NEW q \in Procs, NEW a, Replaces(q, a)
        PROVE  Replaces(q, a)' /\ cmd'[q] = cmd[q]
    <3>1. pc[q] = "push" /\ q # p
      BY <2>1 DEF Replaces, Saving, At, Critical
    <3>2. pc'[q] = pc[q] /\ cmd'[q] = cmd[q]
      BY <3>1, Others DEF TypeInv, HistoryType
    <3> QED BY <1>4, <2>1, <3>1, <3>2 DEF Replaces, Saving, At, Stores, IsLegacy
  <2>2. ASSUME NEW a \in DOMAIN want, KeptEntry(a) PROVE KeptEntry(a)'
    <3>1. \A k \in KindsOf(want[a].type) : ValueIn(file, <<k, a>>)' = ValueIn(file, <<k, a>>)
      BY <1>2, <1>4 DEF ValueIn, SecretOf
    <3>2. a \in DOMAIN file.ws
      BY <2>2 DEF KeptEntry
    <3> QED BY <1>2, <1>4, <2>1, <2>2, <3>1, <3>2, EntryStays
  <2> QED BY <1>2, <1>4, <2>2 DEF KeptInv, IsLegacy
<1> QED BY <1>3, <1>4

(* ... while a save goes on, ...                                            *)
LEMMA KeptPushing ==
  ASSUME LockInv, TypeInv, KeptInv, DraftInv, NEW p \in Procs, Push(p)
  PROVE  KeptInv'
<1>1. pc[p] = "push" /\ pc[p] \in Critical
  BY DEF Push, At, Critical
<1>2. PICK x \in AccountsOf(draft[p]) :
         /\ UNCHANGED <<file, pc, cmd, want, abandoned>>
         /\ \A y : y # x => ValueIn(file, y)' = ValueIn(file, y)
         /\ Outcome(p, x) \in Secrets
         /\ ValueIn(file, x)' \in {Outcome(p, x), ValueIn(file, x)}
  BY PushKeeps
<1>3. x[2] \in DOMAIN draft[p].ws /\ x[1] \in KindsOf(draft[p].ws[x[2]].type) /\ x = <<x[1], x[2]>>
  BY <1>2, ToPushIs DEF TypeInv, ProcType
<1>4. \A q \in Procs : \A a : Replaces(q, a)' <=> Replaces(q, a)
  BY <1>2 DEF Replaces, Saving, At, IsLegacy, Stores
<1>5. ASSUME ~IsLegacy, NEW a \in DOMAIN want, KeptEntry(a) PROVE KeptEntry(a)'
  <2>1. a \in DOMAIN file.ws /\ file.ws[a].type = want[a].type
    BY <1>5 DEF KeptEntry
  <2>2. CASE x[2] = a /\ Replaces(p, a)
    <3>1. ASSUME NEW k \in KindsOf(want[a].type) PROVE Kept(a, ValueIn(file, <<k, a>>))'
      <4>1. PICK v : v = ValueIn(file, <<k, a>>)'
        OBVIOUS
      <4>2. PICK w : w = ValueIn(file, <<k, a>>)
        OBVIOUS
      <4>3. Kept(a, w)
        BY <1>5, <4>2 DEF KeptEntry
      <4>4. Kept(a, w)'
        BY <1>2, <1>4, <1>5, <4>3, KeptStays
      <4>5. CASE v = w
        BY <4>1, <4>4, <4>5, KeptValue
      <4>6. CASE v # w
        <5>1. v = Outcome(p, x) /\ v \in Secrets
          BY <1>2, <4>1, <4>2, <4>6
        <5>2. StaleSetMayFail \/ v = cmd[p].secret
          BY <1>1, <1>3, <2>2, <5>1 DEF DraftInv, SavedEntry, At
        <5>3. Kept(a, v)'
          BY <1>2, <1>4, <2>2, <5>1, <5>2 DEF Kept, Secrets
        <5> QED BY <4>1, <5>3, KeptValue
      <4> QED BY <4>5, <4>6
    <3> QED BY <1>2, <2>1, <3>1 DEF KeptEntry
  <2>3. CASE x[2] = a /\ ~Replaces(p, a)
    <3>1. Outcome(p, x) = ValueIn(file, x)
      BY <1>1, <1>3, <1>5, <2>3 DEF DraftInv, SavedEntry, At
    <3>2. \A k \in KindsOf(want[a].type) : ValueIn(file, <<k, a>>)' = ValueIn(file, <<k, a>>)
      BY <1>2, <3>1
    <3> QED BY <1>2, <1>4, <1>5, <2>1, <3>2, EntryStays
  <2>4. CASE x[2] # a
    <3>1. \A k : <<k, a>> # x
      BY <2>4
    <3>2. \A k \in KindsOf(want[a].type) : ValueIn(file, <<k, a>>)' = ValueIn(file, <<k, a>>)
      BY <1>2, <3>1
    <3> QED BY <1>2, <1>4, <1>5, <2>1, <3>2, EntryStays
  <2> QED BY <2>2, <2>3, <2>4
<1> QED BY <1>2, <1>5 DEF KeptInv, IsLegacy

(* ... by an edit, ...                                                      *)
LEMMA KeptEditing ==
  ASSUME LockInv, TypeInv, KeptInv, NEW p \in Procs, Edits(p)
  PROVE  KeptInv'
<1>1. pc[p] = "edit" /\ pc[p] \in Critical /\ file' = file
  BY DEF Edits, EditUpsert, SetIdentity, SetDefault, Remove, RemoveWith, At, Critical, store
<1>2. \A q \in Procs : \A a : ~Replaces(q, a)
  BY <1>1, NoneSaving
<1>3. ASSUME NEW a \in DOMAIN want', NEW k
      PROVE  /\ a \in DOMAIN want /\ want'[a] = want[a]
             /\ ValueIn(file, <<k, a>>)' = ValueIn(file, <<k, a>>)
             /\ \A v : <<a, v>> \in abandoned => <<a, v>> \in abandoned'
  <2>1. CASE Remove(p)
    <3>1. /\ want' = Without(want, {cmd[p].alias})
          /\ keychain' = Without(keychain, Kinds \X {cmd[p].alias})
          /\ abandoned' = {y \in abandoned : y[1] # cmd[p].alias}
      BY <2>1 DEF Remove, RemoveWith
    <3>2. a \in DOMAIN want /\ a # cmd[p].alias /\ want'[a] = want[a]
      BY <1>3, <3>1 DEF Without, Restrict
    <3>3. /\ DOMAIN keychain' = DOMAIN keychain \ (Kinds \X {cmd[p].alias})
          /\ \A y \in DOMAIN keychain' : keychain'[y] = keychain[y]
      BY <3>1 DEF Without, Restrict
    <3>4. <<k, a>> \in DOMAIN keychain' <=> <<k, a>> \in DOMAIN keychain
      BY <3>2, <3>3
    <3>5. ValueIn(file, <<k, a>>)' = ValueIn(file, <<k, a>>)
      BY <1>1, <3>3, <3>4 DEF ValueIn, SecretOf
    <3> QED BY <3>1, <3>2, <3>5
  <2>2. CASE ~Remove(p)
    <3>1. UNCHANGED <<keychain, want, abandoned>>
      BY <2>2 DEF Edits, EditUpsert, SetIdentity, SetDefault, store, history
    <3>2. ValueIn(file, <<k, a>>)' = ValueIn(file, <<k, a>>)
      BY <1>1, <3>1 DEF ValueIn, SecretOf
    <3> QED BY <1>3, <3>1, <3>2
  <2> QED BY <2>1, <2>2
<1>4. ASSUME NEW a \in DOMAIN want', KeptEntry(a) PROVE KeptEntry(a)'
  <2>1. a \in DOMAIN file.ws
    BY <1>4 DEF KeptEntry
  <2> QED BY <1>1, <1>2, <1>3, <1>4, <2>1, EntryStays
<1> QED BY <1>1, <1>3, <1>4 DEF KeptInv, IsLegacy

-----------------------------------------------------------------------------
(* ... by the write that ends a migration, ...                              *)
LEMMA KeptMigrated ==
  ASSUME LockInv, TypeInv, SaveInv, DraftInv, NEW p \in Procs, WriteMigrated(p)
  PROVE  KeptInv'
<1>1. /\ pc[p] = "push" /\ left[p] = {} /\ IsLegacy
      /\ file' = draft[p] /\ UNCHANGED <<keychain, want, abandoned>>
  BY DEF WriteMigrated, At, history
<1>2. ASSUME NEW a \in DOMAIN want
      PROVE  /\ a \in DOMAIN draft[p].ws /\ draft[p].ws[a].type = want[a].type
             /\ \A k \in KindsOf(want[a].type) :
                  Outcome(p, <<k, a>>) \in Secrets
                  /\ (StaleSetMayFail \/ Outcome(p, <<k, a>>) = want[a].secret)
  BY <1>1 DEF DraftInv, SavedEntry, At
<1>3. ASSUME NEW a \in DOMAIN want, NEW k \in KindsOf(want[a].type)
      PROVE  Kept(a, ValueIn(file, <<k, a>>))'
  <2>1. PICK v : v = Outcome(p, <<k, a>>)
    OBVIOUS
  <2>2. ValueIn(file, <<k, a>>)' = v
    BY <1>1, <2>1 DEF Outcome, ValueIn, SecretOf
  <2>3. Kept(a, v)'
    BY <1>1, <1>2, <1>3, <2>1 DEF Kept, Stored, Secrets
  <2> QED BY <2>2, <2>3, KeptValue
<1>4. ASSUME NEW a \in DOMAIN want PROVE KeptEntry(a)'
  BY <1>1, <1>2, <1>3, <1>4 DEF KeptEntry, KindsOf
<1> QED BY <1>1, <1>4 DEF KeptInv

(* ... by the write that ends an edit, ...                                  *)
LEMMA KeptWritten ==
  ASSUME LockInv, TypeInv, SaveInv, KeptInv, DraftInv, NEW p \in Procs, Write(p)
  PROVE  KeptInv'
<1>0. PICK a0 : a0 = cmd[p].alias
  OBVIOUS
<1>1. /\ pc[p] = "push" /\ left[p] = {} /\ ~IsLegacy /\ Saving(p)
      /\ file' = [draft[p] EXCEPT !.version = 2] /\ keychain' = keychain
      /\ draft[p] \in Files /\ pc[p] \in Critical
  BY DEF Write, At, TypeInv, ProcType, Saving, Critical
<1>2. file'.ws = draft[p].ws
  BY <1>1 DEF Files
<1>3. IF Stores(p) THEN /\ want' = With(want, a0, [type |-> cmd[p].type, secret |-> cmd[p].secret])
                        /\ abandoned' = {y \in abandoned : y[1] # a0}
      ELSE UNCHANGED <<want, abandoned>>
  BY <1>0 DEF Write
<1>4. \A x : ValueIn(file, x)' = ValueIn(draft[p], x)
  BY <1>1, <1>2 DEF ValueIn, SecretOf
<1>5. \A x : Outcome(p, x) = ValueIn(draft[p], x)
  BY <1>1 DEF Outcome
<1>6. ASSUME Stores(p) PROVE a0 \in DOMAIN want' /\ KeptEntry(a0)'
  <2>1. a0 \in DOMAIN draft[p].ws /\ Replaces(p, a0)
    BY <1>0, <1>1, <1>6 DEF SaveInv, At, Replaces
  <2>2. a0 \in DOMAIN want' /\ want'[a0] = [type |-> cmd[p].type, secret |-> cmd[p].secret]
    BY <1>3, <1>6 DEF With
  <2>3. /\ draft[p].ws[a0].type = cmd[p].type
        /\ \A k \in KindsOf(cmd[p].type) :
             Outcome(p, <<k, a0>>) \in Secrets
             /\ (StaleSetMayFail \/ Outcome(p, <<k, a0>>) = cmd[p].secret)
    BY <1>0, <1>1, <2>1 DEF DraftInv, SavedEntry, At
  <2>4. ASSUME NEW k \in KindsOf(cmd[p].type) PROVE Kept(a0, ValueIn(file, <<k, a0>>))'
    <3>1. PICK v : v = Outcome(p, <<k, a0>>)
      OBVIOUS
    <3>2. ValueIn(file, <<k, a0>>)' = v
      BY <1>4, <1>5, <3>1
    <3>3. Kept(a0, v)'
      BY <2>2, <2>3, <2>4, <3>1 DEF Kept, Stored, Secrets
    <3> QED BY <3>2, <3>3, KeptValue
  <2> QED BY <1>2, <2>1, <2>2, <2>3, <2>4 DEF KeptEntry, KindsOf
<1>7. ASSUME NEW a \in DOMAIN want, KeptEntry(a), ~(Stores(p) /\ a = a0) PROVE KeptEntry(a)'
  <2>1. a \in DOMAIN draft[p].ws /\ ~Replaces(p, a)
    BY <1>0, <1>1, <1>7 DEF DraftInv, SavedEntry, At, Replaces
  <2>2. /\ a \in DOMAIN file.ws /\ draft[p].ws[a].type = file.ws[a].type
        /\ \A k \in KindsOf(draft[p].ws[a].type) :
             Outcome(p, <<k, a>>) = ValueIn(file, <<k, a>>)
    BY <1>1, <2>1 DEF DraftInv, SavedEntry, At
  <2>3. file.ws[a].type = want[a].type
    BY <1>7 DEF KeptEntry
  <2>4. a \in DOMAIN want' /\ want'[a] = want[a] /\ \A v : <<a, v>> \in abandoned => <<a, v>> \in abandoned'
    BY <1>3, <1>7 DEF With
  <2>5. \A k \in KindsOf(want[a].type) : ValueIn(file, <<k, a>>)' = ValueIn(file, <<k, a>>)
    BY <1>4, <1>5, <2>2, <2>3
  <2>6. \A q \in Procs : ~Replaces(q, a)
    BY <1>1, <2>1, NoneSaving
  <2> QED BY <1>2, <1>7, <2>1, <2>2, <2>4, <2>5, <2>6, EntryStays
<1>8. ASSUME NEW a \in DOMAIN want' PROVE KeptEntry(a)'
  <2>1. CASE Stores(p) /\ a = a0
    BY <1>6, <2>1
  <2>2. CASE ~(Stores(p) /\ a = a0)
    <3>1. a \in DOMAIN want
      BY <1>3, <1>8, <2>2 DEF With
    <3> QED BY <1>1, <1>7, <2>2, <3>1 DEF KeptInv
  <2> QED BY <2>1, <2>2
<1> QED BY <1>8 DEF KeptInv

(* ... and when a process dies, which leaves what it was storing.           *)
LEMMA KeptDying ==
  ASSUME LockInv, TypeInv, KeptInv, NEW p \in Procs, pc[p] \in Critical,
         Dies(p) \/ NothingToSave(p)
  PROVE  KeptInv'
<1>1. /\ UNCHANGED <<file, keychain, want>> /\ abandoned \subseteq abandoned'
      /\ Dies(p) /\ At(p, "push") /\ ~IsLegacy /\ Stores(p) =>
           <<cmd[p].alias, cmd[p].secret>> \in abandoned'
      /\ NothingToSave(p) => pc[p] = "edit"
  BY DEF Dies, NothingToSave, store, At
<1>2. ASSUME NEW q \in Procs, NEW a, Replaces(q, a) PROVE <<a, cmd[q].secret>> \in abandoned'
  <2>1. q = p /\ pc[p] = "push"
    BY <1>2, NoneSaving
  <2> QED BY <1>1, <1>2, <2>1 DEF Replaces, Saving
<1>3. ASSUME NEW a \in DOMAIN want, KeptEntry(a) PROVE KeptEntry(a)'
  <2>1. a \in DOMAIN file.ws
    BY <1>3 DEF KeptEntry
  <2>2. \A k \in KindsOf(want[a].type) : ValueIn(file, <<k, a>>)' = ValueIn(file, <<k, a>>)
    BY <1>1 DEF ValueIn, SecretOf
  <2>3. \A v : <<a, v>> \in abandoned => <<a, v>> \in abandoned'
    BY <1>1
  <2> QED BY <1>1, <1>2, <1>3, <2>1, <2>2, <2>3, EntryStays
<1> QED BY <1>1, <1>3 DEF KeptInv, IsLegacy

(* The file keeps what was stored, whatever the step.                       *)
LEMMA KeptStep ==
  ASSUME LockInv, TypeInv, SaveInv, KeptInv, DraftInv,
         NEW p \in Procs, Begin(p) \/ Step(p) \/ Dies(p)
  PROVE  KeptInv'
<1>1. CASE pc[p] \notin Critical
  BY <1>1, KeptOutside
<1>2. CASE pc[p] \in Critical
  <2>1. ~(Begin(p) \/ Open(p) \/ Seed(p) \/ CheckVersion(p) \/ ReadFile(p) \/ GetSecret(p))
        /\ ~(LoadReturns(p) \/ EnrollChecks(p) \/ Lock(p))
    BY <1>2 DEF Begin, Open, Seed, CheckVersion, ReadFile, GetSecret, LoadReturns, Loaded,
                EnrollChecks, Lock, At, Critical
  <2>2. CASE Migrate(p)
    BY <2>2 DEF Migrate, KeptInv, TypeInv, PhaseInv, IsLegacy, At
  <2> QED BY <1>2, <2>1, <2>2, KeptPushing, KeptEditing, KeptMigrated, KeptWritten, KeptDying
          DEF Step, Edits
<1> QED BY <1>1, <1>2

-----------------------------------------------------------------------------
(* An entry of a save, from what the migration makes of it, ...             *)
LEMMA DraftMigrated ==
  ASSUME LockInv, TypeInv, LegacyInv, NEW p \in Procs, Migrate(p)
  PROVE  /\ DOMAIN want' \subseteq DOMAIN draft'[p].ws
         /\ \A a \in DOMAIN draft'[p].ws : SavedEntry(p, a)'
<1>1. PICK f \in Files :
         /\ Save(p, f) /\ f = Migrated(file) /\ DOMAIN f.ws = DOMAIN file.ws
         /\ UNCHANGED <<file, cmd, want, abandoned, watched>>
  BY MigrateIs
<1>2. draft'[p] = f /\ left'[p] = ToPush(f)
  BY <1>1, SaveType DEF TypeInv
<1>3. IsLegacy /\ pc[p] = "migrate" /\ pc[p] \in Critical
  BY DEF Migrate, TypeInv, PhaseInv, At, Critical
<1>4. \A q \in Procs : ~At(q, "push")
  BY <1>3 DEF LockInv, OneWriter, At, Critical
<1>5. ASSUME DOMAIN want # {} PROVE
        /\ DOMAIN want = DOMAIN file.ws
        /\ \E type \in AuthTypes, url \in Urls \cup {None} :
             /\ file = LegacyFile(type, url) /\ keychain = LegacyKeychain(type)
             /\ want = [a \in LegacyAliases |-> [type |-> type, secret |-> 0]]
  BY <1>3, <1>4, <1>5 DEF LegacyInv, AsFound, At
<1>6. ASSUME NEW a \in DOMAIN f.ws, a \in DOMAIN want
      PROVE  /\ f.ws[a].type = want[a].type
             /\ \A k \in KindsOf(f.ws[a].type) :
                  Outcome(p, <<k, a>>)' \in Secrets /\ Outcome(p, <<k, a>>)' = want[a].secret
  <2>1. PICK type \in AuthTypes, url \in Urls \cup {None} :
             /\ file = LegacyFile(type, url) /\ keychain = LegacyKeychain(type)
             /\ want = [b \in LegacyAliases |-> [type |-> type, secret |-> 0]]
    BY <1>5, <1>6
  <2>2. /\ a \in LegacyAliases /\ want[a].type = type /\ want[a].secret = 0
        /\ file.ws[a].type = type /\ file.ws[a].url = LegacyUrl[a]
        /\ \A k \in Kinds : file.ws[a].secret[k] = Placeholder
    BY <1>6, <2>1, LegacyFileIs
  <2>3. \A k \in KindsOf(type) : /\ LegacyAccount(k, LegacyUrl[a]) \in DOMAIN keychain
                                 /\ keychain[LegacyAccount(k, LegacyUrl[a])] = 0
    BY <2>1, <2>2, LegacyKeychainIs
  <2>4. f.ws[a].type = type /\ \A k \in KindsOf(type) : f.ws[a].secret[k] = 0
    <3>1. file \in Files /\ keychain \in Partial(Accounts, Secrets)
      BY DEF TypeInv, StoreType
    <3>2. KindsOf(type) \subseteq Kinds
      BY DEF KindsOf, Kinds
    <3> QED BY <1>1, <1>6, <2>2, <2>3, <3>1, <3>2, MigratedIs
  <2>5. ASSUME NEW k \in KindsOf(type) PROVE Outcome(p, <<k, a>>)' = 0
    <3>1. <<k, a>> \in AccountsOf(f)
      BY <1>6, <2>4, <2>5, ToPushIs
    <3>2. SecretOf(f, <<k, a>>) = 0
      BY <2>4, <2>5 DEF SecretOf
    <3>3. <<k, a>> \in ToPush(f)
      BY <3>1, <3>2, Distinct, StoreAssumption DEF ToPush
    <3> QED BY <1>2, <3>2, <3>3 DEF Outcome, SecretOf
  <2> QED BY <2>2, <2>4, <2>5, StoreAssumption DEF Secrets
<1>7. DOMAIN want \subseteq DOMAIN f.ws
  BY <1>1, <1>5
<1>8. ASSUME NEW a \in DOMAIN f.ws PROVE SavedEntry(p, a)'
  <2>1. IsLegacy' /\ ~Replaces(p, a)'
    BY <1>1, <1>3 DEF IsLegacy, Replaces, Saving
  <2> QED BY <1>1, <1>2, <1>6, <1>8, <2>1 DEF SavedEntry, Secrets
<1> QED BY <1>1, <1>2, <1>7, <1>8

(* ... from an edit, ...                                                    *)
LEMMA DraftEdited ==
  ASSUME LockInv, TypeInv, KeptInv, NEW p \in Procs, Edits(p)
  PROVE  /\ DOMAIN want' \subseteq DOMAIN draft'[p].ws
         /\ \A a \in DOMAIN draft'[p].ws : SavedEntry(p, a)'
<1>1. PICK f \in Files : Save(p, f) /\ Edited(p, f)
  BY EditSaves DEF TypeInv
<1>2. draft'[p] = f /\ left'[p] = ToPush(f)
  BY <1>1, SaveType DEF TypeInv
<1>3. pc[p] = "edit" /\ ~IsLegacy /\ file' = file /\ pc'[p] = "push" /\ ~IsLegacy'
  BY <1>1 DEF Edits, EditUpsert, SetIdentity, SetDefault, Remove, RemoveWith, At, store, IsLegacy,
              TypeInv, PhaseInv, Save, Goto, LockInv
<1>4. PICK c : c = cmd'[p]
  OBVIOUS
<1>5. /\ Stores(p)' <=> c.op \in {"upsert", "enroll"}
      /\ Stores(p)' <=> Stores(p)
  BY <1>1, <1>4 DEF Stores, Edited, TypeInv, ProcType, Cmds
<1>6. \A a : Replaces(p, a)' <=> Stores(p)' /\ c.alias = a
  BY <1>3, <1>4 DEF Replaces, Saving, At
<1>7. c \in Cmds /\ c.secret \in Secrets
  <2>1. cmd[p] \in Cmds
    BY DEF TypeInv, ProcType
  <2> QED BY <1>1, <1>4, <2>1 DEF Edited, Cmds
<1>8. ASSUME NEW a \in DOMAIN f.ws, Replaces(p, a)' PROVE SavedEntry(p, a)'
  <2>1. NewEntry(f, a, c)
    BY <1>1, <1>4, <1>5, <1>6, <1>8 DEF Edited
  <2>2. ASSUME NEW k \in KindsOf(f.ws[a].type) PROVE Outcome(p, <<k, a>>)' = c.secret
    <3>1. <<k, a>> \in AccountsOf(f)
      BY <1>8, <2>2, ToPushIs
    <3>2. SecretOf(f, <<k, a>>) = c.secret
      BY <2>1, <2>2 DEF SecretOf, NewEntry
    <3>3. <<k, a>> \in ToPush(f)
      BY <1>7, <3>1, <3>2, Distinct DEF ToPush
    <3> QED BY <1>2, <3>2, <3>3 DEF Outcome, SecretOf
  <2> QED BY <1>2, <1>3, <1>4, <1>7, <1>8, <2>1, <2>2 DEF SavedEntry, NewEntry, Secrets
<1>9. ASSUME NEW a \in DOMAIN f.ws, ~Replaces(p, a)' PROVE SavedEntry(p, a)'
  <2>1. SameEntry(f, a)
    BY <1>1, <1>4, <1>5, <1>6, <1>9 DEF Edited
  <2>2. ASSUME NEW k \in KindsOf(f.ws[a].type)
        PROVE  /\ <<k, a>> \in DOMAIN keychain' <=> <<k, a>> \in DOMAIN keychain
               /\ <<k, a>> \in DOMAIN keychain => keychain'[<<k, a>>] = keychain[<<k, a>>]
    <3>1. CASE Remove(p)
      <4>1. a # cmd[p].alias
        BY <1>1, <1>9, <3>1 DEF Edited, Remove, RemoveWith, Stores
      <4> QED BY <3>1, <4>1 DEF Remove, RemoveWith, Without, Restrict
    <3>2. CASE ~Remove(p)
      BY <3>2 DEF Edits, EditUpsert, SetIdentity, SetDefault, store
    <3> QED BY <3>1, <3>2
  <2>3. ASSUME NEW k \in KindsOf(f.ws[a].type)
        PROVE  Outcome(p, <<k, a>>)' = ValueIn(file, <<k, a>>)'
    <3> DEFINE x == <<k, a>>
    <3>1. ValueIn(file, x)' = ValueIn(file, x)
      BY <1>3, <2>2, <2>3 DEF ValueIn, SecretOf
    <3>2. SecretOf(f, x) = ValueIn(file, x)
      BY <2>1, <2>3 DEF SameEntry, SecretOf
    <3>3. x \in AccountsOf(f)
      BY <1>9, <2>3, ToPushIs
    <3>4. CASE SecretOf(f, x) # Placeholder
      <4>1. x \in ToPush(f)
        BY <3>3, <3>4 DEF ToPush
      <4> QED BY <1>2, <3>1, <3>2, <4>1 DEF Outcome, SecretOf
    <3>5. CASE SecretOf(f, x) = Placeholder
      <4>1. x \notin ToPush(f)
        BY <3>5 DEF ToPush
      <4>2. x \notin DOMAIN keychain
        BY <3>2, <3>5, KeychainParts DEF ValueIn, TypeInv, StoreType
      <4>3. x \notin DOMAIN keychain'
        BY <2>2, <2>3, <4>2
      <4> QED BY <1>2, <3>1, <3>2, <4>1, <4>3 DEF Outcome, ValueIn, SecretOf
    <3> QED BY <3>4, <3>5
  <2> QED BY <1>2, <1>3, <1>9, <2>1, <2>3 DEF SavedEntry, SameEntry
<1>10. DOMAIN want' \subseteq DOMAIN f.ws
  <2>1. DOMAIN want \subseteq DOMAIN file.ws
    BY <1>3 DEF KeptInv, KeptEntry
  <2>2. CASE Remove(p)
    BY <1>1, <2>1, <2>2 DEF Edited, Remove, RemoveWith, Stores, Without, Restrict
  <2>3. CASE ~Remove(p)
    <3>1. want' = want
      BY <2>3 DEF Edits, EditUpsert, SetIdentity, SetDefault, history
    <3>2. Stores(p) \/ cmd[p].op \in {"identity", "default"}
      BY <2>3 DEF Edits, EditUpsert, SetIdentity, SetDefault
    <3> QED BY <1>1, <2>1, <3>1, <3>2 DEF Edited
  <2> QED BY <2>2, <2>3
<1> QED BY <1>2, <1>8, <1>9, <1>10

(* ... and from what has been pushed.                                       *)
LEMMA DraftPushed ==
  ASSUME LockInv, TypeInv, DraftInv, NEW p \in Procs, Push(p)
  PROVE  /\ DOMAIN want' \subseteq DOMAIN draft'[p].ws
         /\ \A a \in DOMAIN draft'[p].ws : SavedEntry(p, a)'
<1>1. PICK x \in AccountsOf(draft[p]) :
         /\ UNCHANGED <<file, pc, cmd, want, abandoned>>
         /\ DOMAIN draft'[p].ws = DOMAIN draft[p].ws
         /\ \A a \in DOMAIN draft[p].ws : draft'[p].ws[a].type = draft[p].ws[a].type
         /\ \A y : y # x => ValueIn(file, y)' = ValueIn(file, y)
         /\ \A y \in AccountsOf(draft[p]) : y # x => Outcome(p, y)' = Outcome(p, y)
         /\ Outcome(p, x) \in Secrets
         /\ \/ /\ Outcome(p, x)' = Outcome(p, x)
               /\ ValueIn(file, x)' \in {Outcome(p, x), ValueIn(file, x)}
            \/ /\ StaleSetMayFail /\ ValueIn(file, x)' = ValueIn(file, x)
               /\ Outcome(p, x)' = ValueIn(file, x) /\ ValueIn(file, x) \in Secrets
  BY PushKeeps
<1>2. At(p, "push")
  BY DEF Push
<1>3. ASSUME NEW a \in DOMAIN draft[p].ws PROVE SavedEntry(p, a)'
  <2>1. /\ Replaces(p, a)' <=> Replaces(p, a)
        /\ IsLegacy' <=> IsLegacy
        /\ draft'[p].ws[a].type = draft[p].ws[a].type
        /\ SavedEntry(p, a)
    BY <1>1, <1>2 DEF Replaces, Saving, At, IsLegacy, Stores, DraftInv
  <2>2. ASSUME NEW k \in KindsOf(draft[p].ws[a].type)
        PROVE  /\ Outcome(p, <<k, a>>) \in Secrets => Outcome(p, <<k, a>>)' \in Secrets
               /\ \/ StaleSetMayFail
                  \/ Outcome(p, <<k, a>>)' = Outcome(p, <<k, a>>)
               /\ Outcome(p, <<k, a>>) = ValueIn(file, <<k, a>>) =>
                    Outcome(p, <<k, a>>)' = ValueIn(file, <<k, a>>)'
    <3>1. <<k, a>> \in AccountsOf(draft[p])
      BY <1>3, <2>2, ToPushIs DEF TypeInv, ProcType
    <3>2. CASE x # <<k, a>>
      BY <1>1, <3>1, <3>2
    <3>3. CASE x = <<k, a>>
      BY <1>1, <3>3
    <3> QED BY <3>2, <3>3
  <2>3. Replaces(p, a)' =>
          /\ draft'[p].ws[a].type = cmd'[p].type
          /\ \A k \in KindsOf(draft'[p].ws[a].type) :
               Outcome(p, <<k, a>>)' \in Secrets
               /\ (StaleSetMayFail \/ Outcome(p, <<k, a>>)' = cmd'[p].secret)
    BY <1>1, <2>1, <2>2 DEF SavedEntry
  <2>4. ~IsLegacy' /\ ~Replaces(p, a)' =>
          /\ a \in DOMAIN file'.ws /\ draft'[p].ws[a].type = file'.ws[a].type
          /\ \A k \in KindsOf(draft'[p].ws[a].type) :
               Outcome(p, <<k, a>>)' = ValueIn(file, <<k, a>>)'
    BY <1>1, <2>1, <2>2 DEF SavedEntry
  <2>5. IsLegacy' /\ a \in DOMAIN want' =>
          /\ draft'[p].ws[a].type = want'[a].type
          /\ \A k \in KindsOf(draft'[p].ws[a].type) :
               Outcome(p, <<k, a>>)' \in Secrets
               /\ (StaleSetMayFail \/ Outcome(p, <<k, a>>)' = want'[a].secret)
    BY <1>1, <2>1, <2>2 DEF SavedEntry
  <2> QED BY <2>3, <2>4, <2>5 DEF SavedEntry, Secrets, KindsOf
<1> QED BY <1>1, <1>2, <1>3 DEF DraftInv

(* A save is of what it should be, whatever the step.                       *)
LEMMA DraftStep ==
  ASSUME LockInv, TypeInv, KeptInv, DraftInv, LegacyInv,
         NEW p \in Procs, Begin(p) \/ Step(p) \/ Dies(p)
  PROVE  DraftInv'
<1>1. ASSUME NEW q \in Procs, q # p, pc'[q] = "push"
      PROVE  /\ DOMAIN want' \subseteq DOMAIN draft'[q].ws
             /\ \A a \in DOMAIN draft'[q].ws : SavedEntry(q, a)'
  <2>1. /\ pc'[q] = pc[q] /\ cmd'[q] = cmd[q] /\ draft'[q] = draft[q] /\ left'[q] = left[q]
    BY <1>1, Others DEF TypeInv, HistoryType
  <2>2. UNCHANGED <<file, keychain, want, abandoned>>
    BY <1>1, <2>1, Held DEF Critical
  <2>3. ASSUME NEW a, SavedEntry(q, a) PROVE SavedEntry(q, a)'
    <3>1. /\ Replaces(q, a)' <=> Replaces(q, a)
          /\ IsLegacy' <=> IsLegacy
      BY <2>1, <2>2 DEF Replaces, Saving, At, Stores, IsLegacy
    <3>2. \A k : /\ Outcome(q, <<k, a>>)' = Outcome(q, <<k, a>>)
                 /\ ValueIn(file, <<k, a>>)' = ValueIn(file, <<k, a>>)
      BY <2>1, <2>2 DEF Outcome, ValueIn, SecretOf
    <3> QED BY <2>1, <2>2, <2>3, <3>1, <3>2 DEF SavedEntry, Secrets, KindsOf
  <2> QED BY <1>1, <2>1, <2>2, <2>3 DEF DraftInv, At
<1>2. ASSUME pc'[p] = "push"
      PROVE  /\ DOMAIN want' \subseteq DOMAIN draft'[p].ws
             /\ \A a \in DOMAIN draft'[p].ws : SavedEntry(p, a)'
  BY <1>2, Arrives, DraftMigrated, DraftEdited, DraftPushed
<1>3. ASSUME NEW q \in Procs, At(q, "push")'
      PROVE  /\ DOMAIN want' \subseteq DOMAIN draft'[q].ws
             /\ \A a \in DOMAIN draft'[q].ws : SavedEntry(q, a)'
  BY <1>1, <1>2, <1>3 DEF At
<1> QED BY <1>3 DEF DraftInv

-----------------------------------------------------------------------------
(* The version-1 store stays as it was found until its migration is written. *)
LEMMA LegacyStep ==
  ASSUME LockInv, TypeInv, SaveInv, KeptInv, LegacyInv, ~MigrationMayDie,
         NEW p \in Procs, Begin(p) \/ Step(p) \/ Dies(p)
  PROVE  LegacyInv'
<1> SUFFICES ASSUME IsLegacy', DOMAIN want' # {} PROVE LegacyInv'
  BY DEF LegacyInv
<1>1. ~Write(p) /\ ~WriteMigrated(p)
  <2>1. ASSUME Write(p) PROVE FALSE
    BY <2>1 DEF Write, IsLegacy, TypeInv, ProcType, Files
  <2>2. ASSUME WriteMigrated(p) PROVE FALSE
    BY <2>2 DEF WriteMigrated, IsLegacy, SaveInv, At
  <2> QED BY <2>1, <2>2
<1>2. file' = file
  <2>1. CASE lock # p
    <3>1. file' = file \/ (file = Absent /\ want' = want)
      BY <2>1, Unlocked
    <3> QED BY <3>1, NothingWanted
  <2>2. CASE lock = p
    <3>1. pc[p] \in Critical
      BY <2>2 DEF LockInv, OneWriter, Critical
    <3> QED BY <1>1, <3>1 DEF Step, Begin, Open, Seed, CheckVersion, ReadFile, GetSecret, LoadReturns,
             EnrollChecks, Lock, Migrate, EditUpsert, SetIdentity, SetDefault, Remove, RemoveWith,
             NothingToSave, Push, Dies, store, At, Critical
  <2> QED BY <2>1, <2>2
<1>3. IsLegacy
  BY <1>2 DEF IsLegacy
<1>4. ~Edits(p) /\ ~NothingToSave(p)
  BY <1>3 DEF TypeInv, PhaseInv, Edits, EditUpsert, SetIdentity, SetDefault, Remove, RemoveWith,
              NothingToSave
<1>5. UNCHANGED want
  BY <1>1, <1>4 DEF Step, Begin, Open, Seed, CheckVersion, ReadFile, GetSecret, LoadReturns,
             EnrollChecks, Lock, Migrate, Push, Dies, history, Edits
<1>6. /\ DOMAIN want = DOMAIN file.ws /\ \A q \in Procs : pc[q] # "read"
      /\ AsFound \/ \E q \in Procs : pc[q] = "push"
  BY <1>3, <1>5 DEF LegacyInv
<1>7. \A q \in Procs : pc'[q] # "read"
  <2>1. ASSUME NEW q \in Procs, q # p PROVE pc'[q] # "read"
    <3>1. pc'[q] = pc[q]
      BY <2>1, Others DEF TypeInv, HistoryType
    <3> QED BY <1>6, <3>1
  <2>2. pc'[p] # "read"
    BY <1>1, <1>3, <1>4, <1>6 DEF LockInv, Step, Begin, Open, Seed, CheckVersion, ReadFile, GetSecret,
       LoadReturns, EnrollChecks, Lock, Migrate, Push, Dies, Edits, Enter, Finish, Goto, Save, At
  <2> QED BY <2>1, <2>2
<1>8. CASE \E q \in Procs : pc[q] = "push"
  <2>1. PICK q \in Procs : pc[q] = "push"
    BY <1>8
  <2>2. ASSUME q # p PROVE pc'[q] = "push"
    BY <2>1, <2>2, Others DEF TypeInv, HistoryType
  <2>3. ASSUME q = p PROVE pc'[q] = "push"
    <3>1. Push(p)
      BY <1>1, <1>3, <1>4, <2>1, <2>3 DEF Step, Begin, Open, Seed, CheckVersion, ReadFile,
         GetSecret, LoadReturns, Loaded, EnrollChecks, Lock, Migrate, Dies, Edits, At
    <3> QED BY <2>1, <2>3, <3>1 DEF Push
  <2>4. pc'[q] = "push"
    BY <2>1, <2>2, <2>3
  <2> QED BY <1>2, <1>5, <1>6, <1>7, <2>4 DEF LegacyInv
<1>9. CASE Migrate(p)
  <2>1. pc'[p] = "push"
    BY <1>9 DEF Migrate, Save, Goto, LockInv
  <2> QED BY <1>2, <1>5, <1>6, <1>7, <2>1 DEF LegacyInv
<1>10. CASE ~Migrate(p) /\ ~\E q \in Procs : pc[q] = "push"
  <2>1. keychain' = keychain
    BY <1>1, <1>4, <1>10 DEF Step, Begin, Open, Seed, CheckVersion, ReadFile, GetSecret,
       LoadReturns, EnrollChecks, Lock, Push, Dies, Edits, store, At
  <2>2. AsFound'
    <3>1. PICK type \in AuthTypes, url \in Urls \cup {None} :
             /\ file = LegacyFile(type, url) /\ keychain = LegacyKeychain(type)
             /\ want = [a \in LegacyAliases |-> [type |-> type, secret |-> 0]]
      BY <1>6, <1>10 DEF AsFound
    <3>2. file' = LegacyFile(type, url)'
      BY <1>2, <3>1 DEF LegacyFile, Entry, Kinds
    <3>3. keychain' = LegacyKeychain(type)'
      BY <2>1, <3>1 DEF LegacyKeychain, LegacyAccount, KindsOf
    <3>4. want' = [a \in LegacyAliases |-> [type |-> type, secret |-> 0]]
      BY <1>5, <3>1
    <3> QED BY <3>2, <3>3, <3>4 DEF AsFound, AuthTypes
  <2> QED BY <1>2, <1>5, <1>6, <1>7, <2>2 DEF LegacyInv
<1> QED BY <1>8, <1>9, <1>10

-----------------------------------------------------------------------------
(* What a load has found so far it has, and what it has still to read is    *)
(* there: an account leaves the keychain only with its alias.               *)
LEMMA ReadOthers ==
  ASSUME LockInv, TypeInv, ReadInv, NEW p \in Procs, Begin(p) \/ Step(p) \/ Dies(p),
         NEW q \in Procs, q # p, pc'[q] = "get",
         NEW x \in AccountsOf(draft[q]), x[2] \in watched'[q], x \in DOMAIN keychain
  PROVE  x \in DOMAIN keychain'
<1>1. watched'[q] \subseteq watched[q] /\ watched[q] \subseteq Aliases
  BY Others DEF TypeInv, HistoryType
<1>2. CASE Migrate(p)
  <2>1. x \notin LegacyAccounts(file)
    <3>1. x[2] \in Aliases /\ x[2] \notin Urls /\ x[2] # None
      BY <1>1, Distinct
    <3>2. \A a \in DOMAIN file.ws : file.ws[a].url \in Urls
      BY FileParts DEF TypeInv, StoreType, Workspaces
    <3> QED BY <3>1, <3>2 DEF LegacyAccounts, LegacyAccount
  <2> QED BY <1>2, <2>1 DEF Migrate, Without, Restrict
<1>3. CASE Remove(p)
  <2>1. x[2] # cmd[p].alias
    BY <1>3 DEF Remove, RemoveWith
  <2> QED BY <1>3, <2>1 DEF Remove, RemoveWith, Without, Restrict
<1>4. CASE Push(p)
  BY <1>4, PushIs
<1>5. CASE ~Migrate(p) /\ ~Remove(p) /\ ~Push(p)
  <2>1. keychain' = keychain
    BY <1>5 DEF Step, Begin, Open, Seed, CheckVersion, ReadFile, GetSecret, LoadReturns,
       EnrollChecks, Lock, EditUpsert, SetIdentity, SetDefault, NothingToSave, WriteMigrated,
       Write, Dies, store
  <2> QED BY <2>1
<1> QED BY <1>2, <1>3, <1>4, <1>5

(* A load has, or will find, every secret it is to return, whatever the step. *)
LEMMA ReadStep ==
  ASSUME LockInv, TypeInv, KeptInv, LegacyInv, ReadInv,
         NEW p \in Procs, Begin(p) \/ Step(p) \/ Dies(p)
  PROVE  ReadInv'
<1>1. ASSUME NEW q \in Procs, q # p, pc'[q] = "get"
      PROVE  /\ watched'[q] \subseteq DOMAIN draft'[q].ws
             /\ \A x \in AccountsOf(draft'[q]) : x[2] \in watched'[q] =>
                  \/ SecretOf(draft'[q], x) # Placeholder
                  \/ x \in left'[q] /\ x \in DOMAIN keychain'
  <2>1. /\ pc[q] = "get" /\ draft'[q] = draft[q] /\ left'[q] = left[q]
        /\ watched'[q] \subseteq watched[q]
    BY <1>1, Others DEF TypeInv, HistoryType
  <2>2. \A x \in AccountsOf(draft[q]) : x[2] \in watched'[q] /\ x \in DOMAIN keychain => x \in DOMAIN keychain'
    BY <1>1, ReadOthers
  <2> QED BY <2>1, <2>2 DEF ReadInv, At
<1>2. ASSUME pc'[p] = "get"
      PROVE  /\ watched'[p] \subseteq DOMAIN draft'[p].ws
             /\ \A x \in AccountsOf(draft'[p]) : x[2] \in watched'[p] =>
                  \/ SecretOf(draft'[p], x) # Placeholder
                  \/ x \in left'[p] /\ x \in DOMAIN keychain'
  <2>1. CASE ReadFile(p)
    <3>1. /\ draft'[p] = file /\ left'[p] = AccountsOf(file) /\ watched'[p] = DOMAIN want
          /\ keychain' = keychain /\ At(p, "read")
      BY <2>1 DEF ReadFile, TypeInv, ProcType, HistoryType, store
    <3>2. DOMAIN want = {} \/ ~IsLegacy
      BY <3>1 DEF LegacyInv, At
    <3>3. \A a \in DOMAIN want : KeptEntry(a)
      BY <3>2 DEF KeptInv
    <3>4. ASSUME NEW x \in AccountsOf(file), x[2] \in DOMAIN want
          PROVE  SecretOf(file, x) # Placeholder \/ x \in DOMAIN keychain
      <4>1. x = <<x[1], x[2]>> /\ x[1] \in KindsOf(file.ws[x[2]].type)
        BY ToPushIs DEF TypeInv, StoreType
      <4>2. x[1] \in KindsOf(want[x[2]].type)
        BY <3>3, <3>4, <4>1 DEF KeptEntry
      <4>3. ValueIn(file, x) \in Secrets
        BY <3>3, <3>4, <4>1, <4>2 DEF KeptEntry, Kept
      <4> QED BY <4>3, Distinct DEF ValueIn
    <3> QED BY <3>1, <3>3, <3>4 DEF KeptEntry
  <2>2. CASE GetSecret(p)
    <3>1. PICK x \in left[p] :
             /\ At(p, "get") /\ left'[p] = left[p] \ {x} /\ UNCHANGED <<keychain, watched>>
             /\ draft'[p] = IF x \in DOMAIN keychain THEN SetSecret(draft[p], x, keychain[x])
                            ELSE draft[p]
      BY <2>2 DEF GetSecret, TypeInv, ProcType, store, history
    <3>2. x \in AccountsOf(draft[p]) /\ draft[p] \in Files
      BY <3>1 DEF TypeInv, LeftInv, ProcType, At
    <3>3. /\ watched[p] \subseteq DOMAIN draft[p].ws
          /\ \A y \in AccountsOf(draft[p]) : y[2] \in watched[p] =>
               SecretOf(draft[p], y) # Placeholder \/ (y \in left[p] /\ y \in DOMAIN keychain)
      BY <3>1 DEF ReadInv
    <3>4. CASE x \notin DOMAIN keychain
      BY <3>1, <3>3, <3>4
    <3>5. CASE x \in DOMAIN keychain
      <4>1. keychain[x] \in Secrets /\ keychain[x] # Placeholder
        BY <3>5, KeychainParts DEF TypeInv, StoreType
      <4>2. PICK v : v = keychain[x]
        OBVIOUS
      <4>3. draft'[p] = SetSecret(draft[p], x, v)
        BY <3>1, <3>5, <4>2
      <4>4. /\ DOMAIN draft'[p].ws = DOMAIN draft[p].ws
            /\ AccountsOf(draft'[p]) = AccountsOf(draft[p])
            /\ SecretOf(draft'[p], x) = v
            /\ \A y \in AccountsOf(draft[p]) : y # x => SecretOf(draft'[p], y) = SecretOf(draft[p], y)
        BY <3>2, <4>1, <4>2, <4>3, SetSecretIs
      <4> QED BY <3>1, <3>3, <4>1, <4>2, <4>4
    <3> QED BY <3>4, <3>5
  <2> QED BY <1>2, <2>1, <2>2, Arrives
<1>3. ASSUME NEW q \in Procs, At(q, "get")'
      PROVE  /\ watched'[q] \subseteq DOMAIN draft'[q].ws
             /\ \A x \in AccountsOf(draft'[q]) : x[2] \in watched'[q] =>
                  \/ SecretOf(draft'[q], x) # Placeholder
                  \/ x \in left'[q] /\ x \in DOMAIN keychain'
  BY <1>1, <1>2, <1>3 DEF At
<1> QED BY <1>3 DEF ReadInv, AccountsOf, SecretOf, KindsOf, Kinds

-----------------------------------------------------------------------------
(* The start: either nothing is stored, or version-1 credentials are.       *)
LEMMA SafeInit == Init => SafeInv
<1> SUFFICES ASSUME Init PROVE SafeInv
  OBVIOUS
<1>p. \A p \in Procs : pc[p] = "idle"
  BY DEF Init
<1>1. DraftInv /\ ReadInv
  BY <1>p DEF DraftInv, ReadInv, At
<1>2. CASE DOMAIN want = {}
  BY <1>1, <1>2 DEF SafeInv, KeptInv, LegacyInv
<1>3. CASE AsFound
  <2>1. IsLegacy /\ DOMAIN want = DOMAIN file.ws
    BY <1>3, LegacyFileIs DEF AsFound, IsLegacy
  <2> QED BY <1>p, <1>1, <1>3, <2>1 DEF SafeInv, KeptInv, LegacyInv
<1>4. DOMAIN want = {} \/ AsFound
  BY DEF Init, AsFound
<1> QED BY <1>2, <1>3, <1>4

(* Under GoneInv, SafeInv is inductive.                                     *)
LEMMA SafeNext == GoneInv /\ SafeInv /\ [Next]_vars => SafeInv'
<1> SUFFICES ASSUME GoneInv, KeptInv, DraftInv, LegacyInv, ReadInv, ~MigrationMayDie, [Next]_vars
             PROVE  KeptInv' /\ DraftInv' /\ LegacyInv' /\ ReadInv'
  BY DEF SafeInv
<1>1. CASE \E p \in Procs : Begin(p) \/ Step(p) \/ Dies(p)
  <2>1. PICK p \in Procs : Begin(p) \/ Step(p) \/ Dies(p)
    BY <1>1
  <2> QED BY <2>1, KeptStep, DraftStep, LegacyStep, ReadStep DEF GoneInv
<1>2. CASE UNCHANGED vars
  <2>1. KeptInv' /\ DraftInv'
    <3>1. UNCHANGED <<file, keychain, want, abandoned, pc, cmd, draft, left>>
      BY <1>2 DEF vars
    <3>2. KeptInv'
      BY <3>1 DEF KeptInv, KeptEntry, Kept, Stored, Replaces, Saving, Stores, At, IsLegacy, ValueIn,
         SecretOf, KindsOf, Secrets
    <3>3. \A q \in Procs : \A a : Replaces(q, a)' <=> Replaces(q, a)
      BY <3>1 DEF Replaces, Saving, Stores, At, IsLegacy
    <3>4. \A q \in Procs : \A x : /\ Outcome(q, x)' = Outcome(q, x)
                                 /\ ValueIn(file, x)' = ValueIn(file, x)
      BY <3>1 DEF Outcome, ValueIn, SecretOf
    <3>5. ASSUME NEW q \in Procs, NEW a, SavedEntry(q, a) PROVE SavedEntry(q, a)'
      BY <3>1, <3>3, <3>4, <3>5 DEF SavedEntry, KindsOf, Secrets, IsLegacy
    <3> QED BY <3>1, <3>2, <3>5 DEF DraftInv, At
  <2>2. LegacyInv'
    <3>1. UNCHANGED <<file, keychain, want, pc>>
      BY <1>2 DEF vars
    <3>2. ASSUME AsFound PROVE AsFound'
      <4>1. PICK type \in AuthTypes, url \in Urls \cup {None} :
               /\ file = LegacyFile(type, url) /\ keychain = LegacyKeychain(type)
               /\ want = [a \in LegacyAliases |-> [type |-> type, secret |-> 0]]
        BY <3>2 DEF AsFound
      <4>2. file' = LegacyFile(type, url)'
        BY <3>1, <4>1 DEF LegacyFile, Entry, Kinds
      <4>3. keychain' = LegacyKeychain(type)'
        BY <3>1, <4>1 DEF LegacyKeychain, LegacyAccount, KindsOf
      <4> QED BY <3>1, <4>1, <4>2, <4>3 DEF AsFound, AuthTypes
    <3> QED BY <3>1, <3>2 DEF LegacyInv, IsLegacy
  <2>3. ReadInv'
    BY <1>2 DEF vars, ReadInv, AccountsOf, SecretOf, KindsOf, Kinds, At
  <2> QED BY <2>1, <2>2, <2>3
<1> QED BY <1>1, <1>2 DEF Next, Done

(* The two hold together.                                                   *)
LEMMA SafeCorrect == Spec => [](GoneInv /\ SafeInv)
<1>1. GoneInv /\ SafeInv /\ [Next]_vars => (GoneInv /\ SafeInv)'
  BY GoneNext, SafeNext
<1> QED BY GoneInit, SafeInit, <1>1, PTL DEF Spec

-----------------------------------------------------------------------------
(* What a load finds under an alias, of a store in its present version, ... *)
LEMMA PresentSecrets ==
  ASSUME GoneInv, KeptInv, ~IsLegacy, ~StaleSetMayFail, lock = None,
         NEW a \in DOMAIN want, NEW k \in KindsOf(want[a].type), NEW f, f = Hydrated(file)
  PROVE  /\ a \in DOMAIN f.ws
         /\ \/ f.ws[a].secret[k] = want[a].secret /\ f.ws[a].type = want[a].type
            \/ <<a, f.ws[a].secret[k]>> \in abandoned
<1>1. \A p \in Procs : pc[p] # "push"
  BY StoreAssumption DEF GoneInv, LockInv, OneWriter
<1>2. a \in DOMAIN file.ws /\ file.ws[a].type = want[a].type /\ Kept(a, ValueIn(file, <<k, a>>))
  BY DEF KeptInv, KeptEntry
<1>3. Stored(a, ValueIn(file, <<k, a>>))
  BY <1>1, <1>2 DEF Kept, Replaces, Saving, At
<1>4. /\ a \in DOMAIN f.ws /\ f.ws[a].type = file.ws[a].type
      /\ f.ws[a].secret[k] = ValueIn(file, <<k, a>>)
  <2>1. StoreType
    BY DEF GoneInv, TypeInv
  <2> QED BY <1>2, <2>1, HydratedIs DEF SameEntry
<1> QED BY <1>2, <1>3, <1>4 DEF Stored

(* ... and of a version-1 store.                                            *)
LEMMA LegacySecrets ==
  ASSUME GoneInv, LegacyInv, IsLegacy, lock = None,
         NEW a \in DOMAIN want, NEW k \in KindsOf(want[a].type),
         NEW m, m = Migrated(file), NEW f, f = Hydrated(m)
  PROVE  a \in DOMAIN f.ws /\ f.ws[a].secret[k] = want[a].secret /\ f.ws[a].type = want[a].type
<1>1. \A p \in Procs : pc[p] # "push"
  BY StoreAssumption DEF GoneInv, LockInv, OneWriter
<1>2. DOMAIN want = DOMAIN file.ws /\ AsFound
  BY <1>1 DEF LegacyInv
<1>3. PICK type \in AuthTypes, url \in Urls \cup {None} :
         /\ file = LegacyFile(type, url) /\ keychain = LegacyKeychain(type)
         /\ want = [b \in LegacyAliases |-> [type |-> type, secret |-> 0]]
  BY <1>2 DEF AsFound
<1>4. /\ a \in LegacyAliases /\ want[a].type = type /\ want[a].secret = 0
      /\ file.ws[a].type = type /\ file.ws[a].url = LegacyUrl[a]
      /\ \A b \in Kinds : file.ws[a].secret[b] = Placeholder
  BY <1>3, LegacyFileIs
<1>5. k \in KindsOf(type) /\ k \in Kinds
  BY <1>4 DEF KindsOf, Kinds
<1>6. /\ LegacyAccount(k, LegacyUrl[a]) \in DOMAIN keychain
      /\ keychain[LegacyAccount(k, LegacyUrl[a])] = 0
      /\ <<k, a>> \notin DOMAIN keychain
  BY <1>3, <1>4, <1>5, LegacyKeychainIs, StoreAssumption
<1>t. file \in Files /\ keychain \in Partial(Accounts, Secrets)
  BY DEF GoneInv, TypeInv, StoreType
<1>7. /\ m \in Files /\ a \in DOMAIN m.ws /\ m.ws[a].type = type /\ m.ws[a].secret[k] = 0
  BY <1>2, <1>4, <1>5, <1>6, <1>t, MigratedIs
<1>8. /\ a \in DOMAIN f.ws /\ f.ws[a].type = type
      /\ f.ws[a].secret[k] = ValueIn(m, <<k, a>>)
  BY <1>5, <1>7, <1>t, WithSecretsIs
<1> QED BY <1>4, <1>6, <1>7, <1>8 DEF ValueIn, SecretOf

(* A secret a user was told is stored can be had back, whatever other       *)
(* processes edit, migrate, seed or leave half done meanwhile: of the       *)
(* read-modify-write cycles under the lock (mutations.go, credential.go),   *)
(* where no migration dies between its two saves and the keychain always    *)
(* replaces a secret it holds.                                              *)
THEOREM SecretsAreSafe ==
  ASSUME ~MigrationMayDie, ~StaleSetMayFail
  PROVE  Spec => []SecretsSurvive
<1>1. GoneInv /\ SafeInv => SecretsSurvive
  <2> SUFFICES ASSUME GoneInv, KeptInv, LegacyInv, lock = None,
                      NEW a \in DOMAIN want, NEW k \in KindsOf(want[a].type),
                      NEW f, f = Hydrated(IF IsLegacy THEN Migrated(file) ELSE file)
               PROVE  /\ a \in DOMAIN f.ws
                      /\ \/ f.ws[a].secret[k] = want[a].secret /\ f.ws[a].type = want[a].type
                         \/ <<a, f.ws[a].secret[k]>> \in abandoned
    BY DEF SecretsSurvive, SafeInv
  <2>1. CASE IsLegacy
    <3>1. PICK m : m = Migrated(file)
      OBVIOUS
    <3>2. f = Hydrated(m)
      BY <2>1, <3>1
    <3> QED BY <2>1, <3>1, <3>2, LegacySecrets
  <2>2. CASE ~IsLegacy
    BY <2>2, PresentSecrets
  <2> QED BY <2>1, <2>2
<1> QED BY SafeCorrect, <1>1, PTL

(* A load finds every secret of what was stored when it read the file and   *)
(* was not removed since, though it takes no lock (credential.go:52) and    *)
(* others write the file and the keychain between its reads.                *)
THEOREM ReadersAreSafe ==
  ASSUME ~MigrationMayDie
  PROVE  Spec => []ReaderFindsSecrets
<1>1. GoneInv /\ SafeInv => ReaderFindsSecrets
  BY DEF SafeInv, ReadInv, ReaderFindsSecrets, Loaded
<1> QED BY SafeCorrect, <1>1, PTL

-----------------------------------------------------------------------------
(* What the stored accounts are for: which of them a command acts as, and    *)
(* where the target of a command leads (Accounts, Targets), for any accounts *)
(* and any words.                                                            *)
CONSTANTS HostOf, SlugOf, Within, Numbered, ChannelIds, UserIds, CanvasIds, Stamps,
          DigitsOf, IdOfChannel, DmOf
Who == INSTANCE Targets

(* Accounts and stores as Load leaves them: one account per alias, each of   *)
(* them named and with a URL; an upsert may leave the alias to be derived.   *)
StoredAccounts ==
  [alias : STRING \ {Who!None}, url : STRING \ {Who!None}, name : STRING, type : STRING,
   token : STRING, id : STRING]
UpsertedAccounts == StoredAccounts \cup {[a EXCEPT !.alias = Who!None] : a \in StoredAccounts}
AccountStores ==
  {s \in [ws : Seq(StoredAccounts), default : STRING] :
     \A i, j \in DOMAIN s.ws : s.ws[i].alias = s.ws[j].alias => i = j}

(* FindAlias finds the account of an alias, if there is one.                 *)
LEMMA FindsTheAlias ==
  ASSUME NEW s \in AccountStores, NEW alias
  PROVE  /\ alias \notin Who!Aliases(s) => Who!FindAlias(s, alias) = 0
         /\ \A i \in DOMAIN s.ws : s.ws[i].alias = alias => Who!FindAlias(s, alias) = i
         /\ Who!FindAlias(s, alias) # 0 =>
              /\ Who!FindAlias(s, alias) \in DOMAIN s.ws
              /\ s.ws[Who!FindAlias(s, alias)].alias = alias
<1>1. alias \notin Who!Aliases(s) => Who!FindAlias(s, alias) = 0
  BY DEF Who!FindAlias
<1>2. ASSUME NEW i \in DOMAIN s.ws, s.ws[i].alias = alias
      PROVE  Who!FindAlias(s, alias) = i
  <2>1. alias \in Who!Aliases(s)
    BY <1>2 DEF Who!Aliases
  <2>2. \A j \in DOMAIN s.ws : s.ws[j].alias = alias => j = i
    BY <1>2 DEF AccountStores
  <2>3. (CHOOSE j \in DOMAIN s.ws : s.ws[j].alias = alias) = i
    BY <1>2, <2>2
  <2> QED BY <2>1, <2>3 DEF Who!FindAlias
<1>3. Who!FindAlias(s, alias) # 0 => alias \in Who!Aliases(s)
  BY <1>1
<1> QED BY <1>1, <1>2, <1>3 DEF Who!Aliases

(* Counting is the same wherever it is instantiated.                         *)
LEMMA SameCount == ASSUME NEW S PROVE Who!Cardinality(S) = Cardinality(S)
  BY Zenon DEF Who!Cardinality, Cardinality

(* pickMatch answers with a match only when there is one and no other.       *)
LEMMA PicksTheOnly ==
  ASSUME NEW m, IsFiniteSet(m), m \subseteq Nat \ {0}, Who!PickMatch(m) > 0
  PROVE  m = {Who!PickMatch(m)}
<1>1. Cardinality(m) = 1
  BY SameCount DEF Who!PickMatch
<1>2. PICK x : m = {x}
  BY <1>1, FS_Singleton
<1> QED BY <1>1, <1>2, SameCount DEF Who!PickMatch

(* More matches cannot make another one the only one.                        *)
LEMMA MoreMatches ==
  ASSUME NEW m, NEW k, IsFiniteSet(k), m \subseteq k, k \subseteq Nat \ {0},
         Who!PickMatch(m) > 0, Who!PickMatch(k) > 0
  PROVE  Who!PickMatch(m) = Who!PickMatch(k)
<1>1. IsFiniteSet(m)
  BY FS_Subset
<1>2. m = {Who!PickMatch(m)} /\ k = {Who!PickMatch(k)}
  BY <1>1, PicksTheOnly
<1> QED BY <1>2

(* The places of a store are numbers above 0, and finitely many.             *)
LEMMA PlacesOfAStore ==
  ASSUME NEW s \in AccountStores
  PROVE  IsFiniteSet(DOMAIN s.ws) /\ DOMAIN s.ws = 1..Len(s.ws) /\ DOMAIN s.ws \subseteq Nat \ {0}
<1>1. s.ws \in Seq(StoredAccounts)
  BY DEF AccountStores
<1>2. DOMAIN s.ws = 1..Len(s.ws) /\ Len(s.ws) \in Nat
  BY <1>1
<1>3. IsFiniteSet(1..Len(s.ws))
  BY <1>2, FS_Interval
<1> QED BY <1>2, <1>3

(* The account of a URL is unique if Upserted has an alias to give; it either*)
(* appends an account or changes one of them, whose alias it keeps.          *)
LEMMA UpsertedIs ==
  ASSUME NEW s \in AccountStores, NEW added \in UpsertedAccounts
  PROVE  LET alias == Who!UpsertAlias(s, added)
             i == Who!FindAlias(s, alias)
             after == Who!Upserted(s, added) IN
         /\ i = 0 => after.ws = Append(s.ws, [added EXCEPT !.alias = alias])
         /\ i # 0 => /\ DOMAIN after.ws = DOMAIN s.ws
                     /\ \A n \in DOMAIN s.ws : after.ws[n].alias = s.ws[n].alias
<1> DEFINE alias == Who!UpsertAlias(s, added)
           i == Who!FindAlias(s, alias)
           named == [added EXCEPT !.alias = alias]
           after == Who!Upserted(s, added)
<1>1. after.ws = IF i = 0 THEN Append(s.ws, named)
                 ELSE [s.ws EXCEPT ![i] = Who!MergeWorkspace(@, named)]
  BY DEF Who!Upserted
<1>2. \A n \in DOMAIN s.ws : Who!MergeWorkspace(s.ws[n], named).alias = s.ws[n].alias
  <2> SUFFICES ASSUME NEW n \in DOMAIN s.ws
               PROVE  Who!MergeWorkspace(s.ws[n], named).alias = s.ws[n].alias
    OBVIOUS
  <2>1. s.ws[n] \in StoredAccounts
    BY PlacesOfAStore DEF AccountStores
  <2> HIDE DEF named
  <2> QED BY <2>1 DEF Who!MergeWorkspace, StoredAccounts
<1> QED BY <1>1, <1>2

(* An account more never changes what a selector means to another account    *)
(* than one it names in full, and no upsert changes what an alias means      *)
(* (Store.Resolve, pickMatch, Upsert): SelectorsKeepTheirMeaning.            *)
THEOREM SelectorsAreStable ==
  ASSUME NEW s \in AccountStores, NEW added \in UpsertedAccounts, NEW selector
  PROVE  Who!SelectorsKeepTheirMeaning(s, added, selector)
<1> DEFINE alias == Who!UpsertAlias(s, added)
           after == Who!Upserted(s, added)
           n == Len(s.ws)
           i == Who!ResolveWorkspace(s, selector)
           j == Who!ResolveWorkspace(after, selector)
           Parts(t) == {k \in DOMAIN t.ws : \E c \in Who!SelectorCandidates(t.ws[k]) :
                                              Who!HasPart(c, selector)}
<1>s. s.ws \in Seq(StoredAccounts) /\ n \in Nat /\ DOMAIN s.ws = 1..n
  BY PlacesOfAStore DEF AccountStores
<1>1. Who!FindAlias(s, selector) # 0 => j = Who!FindAlias(s, selector)
  <2> SUFFICES ASSUME Who!FindAlias(s, selector) # 0
               PROVE  j = Who!FindAlias(s, selector)
    OBVIOUS
  <2> DEFINE f == Who!FindAlias(s, selector)
  <2>1. f \in DOMAIN s.ws /\ s.ws[f].alias = selector
    BY FindsTheAlias
  <2>2. selector # Who!None
    <3>1. s.ws[f] \in StoredAccounts
      BY <1>s, <2>1
    <3>2. s.ws[f].alias # Who!None
      BY <3>1 DEF StoredAccounts
    <3> QED BY <2>1, <3>2
  <2>3. f \in DOMAIN after.ws /\ after.ws[f].alias = selector
    <3>1. CASE Who!FindAlias(s, alias) = 0
      <4>1. after.ws = Append(s.ws, [added EXCEPT !.alias = alias])
        BY <3>1, UpsertedIs
      <4> HIDE DEF f, after
      <4> QED BY <1>s, <2>1, <4>1
    <3>2. CASE Who!FindAlias(s, alias) # 0
      <4>1. DOMAIN after.ws = DOMAIN s.ws /\ \A k \in DOMAIN s.ws : after.ws[k].alias = s.ws[k].alias
        BY <3>2, UpsertedIs
      <4> HIDE DEF f, after
      <4> QED BY <2>1, <4>1
    <3> QED BY <3>1, <3>2
  <2>4. \A k \in DOMAIN after.ws : after.ws[k].alias = selector => k = f
    <3>1. CASE Who!FindAlias(s, alias) = 0
      <4>1. alias # selector
        BY <3>1, <2>1, FindsTheAlias
      <4>2. after.ws = Append(s.ws, [added EXCEPT !.alias = alias])
        BY <3>1, UpsertedIs
      <4>3. [added EXCEPT !.alias = alias].alias = alias
        BY DEF UpsertedAccounts
      <4> QED BY <1>s, <2>1, <4>1, <4>2, <4>3 DEF AccountStores
    <3>2. CASE Who!FindAlias(s, alias) # 0
      <4>1. DOMAIN after.ws = DOMAIN s.ws /\ \A k \in DOMAIN s.ws : after.ws[k].alias = s.ws[k].alias
        BY <3>2, UpsertedIs
      <4>2. \A k \in DOMAIN s.ws : s.ws[k].alias = s.ws[f].alias => k = f
        BY <2>1 DEF AccountStores
      <4> HIDE DEF f, after
      <4> QED BY <2>1, <4>1, <4>2
    <3> QED BY <3>1, <3>2
  <2> HIDE DEF after, f
  <2>5. selector \in Who!Aliases(after)
    BY <2>3 DEF Who!Aliases
  <2>6. (CHOOSE k \in DOMAIN after.ws : after.ws[k].alias = selector) = f
    BY <2>3, <2>4
  <2>7. Who!FindAlias(after, selector) = f
    BY <2>5, <2>6 DEF Who!FindAlias
  <2>8. f # 0
    BY DEF f
  <2>9. j = f
    BY <2>2, <2>7, <2>8 DEF Who!ResolveWorkspace
  <2> QED BY <2>9 DEF f
<1>2. ASSUME selector # Who!None, Who!FindAlias(s, alias) = 0, i > 0, j > 0, i # j
      PROVE  selector \in {after.ws[j].alias, after.ws[j].url}
  <2> DEFINE named == [added EXCEPT !.alias = alias]
  <2>1. after.ws = Append(s.ws, named)
    BY <1>2, UpsertedIs
  <2>2. DOMAIN after.ws = 1..(n + 1) /\ \A k \in 1..n : after.ws[k] = s.ws[k]
    BY <1>s, <2>1
  <2>3. IsFiniteSet(1..(n + 1))
    BY <1>s, FS_Interval
  <2>4. Who!FindAlias(s, selector) = 0
    <3>1. Who!FindAlias(s, selector) # 0 => i = Who!FindAlias(s, selector)
      BY <1>2 DEF Who!ResolveWorkspace
    <3> QED BY <1>1, <1>2, <3>1
  <2> HIDE DEF after
  <2>5. CASE Who!FindAlias(after, selector) # 0
    <3>1. j = Who!FindAlias(after, selector)
      BY <1>2, <2>5 DEF Who!ResolveWorkspace
    <3>2. selector \in Who!Aliases(after)
      BY <2>5 DEF Who!FindAlias
    <3>3. after.ws[j].alias = selector
      BY <3>1, <3>2 DEF Who!FindAlias, Who!Aliases
    <3> QED BY <3>3
  <2>6. CASE Who!FindAlias(after, selector) = 0 /\ Who!Holders(after, selector) # {}
    <3>1. j = Who!PickMatch(Who!Holders(after, selector))
      BY <1>2, <2>6 DEF Who!ResolveWorkspace
    <3>2. Who!Holders(after, selector) \subseteq 1..(n + 1)
      BY <2>2 DEF Who!Holders
    <3>3. IsFiniteSet(Who!Holders(after, selector))
      BY <2>3, <3>2, FS_Subset
    <3>4. Who!Holders(after, selector) = {j}
      BY <1>s, <1>2, <3>1, <3>2, <3>3, PicksTheOnly
    <3>5. after.ws[j].url = selector
      BY <3>4 DEF Who!Holders
    <3> QED BY <3>5
  <2>7. CASE Who!FindAlias(after, selector) = 0 /\ Who!Holders(after, selector) = {}
    <3>1. Who!Holders(s, selector) = {}
      BY <1>s, <2>2, <2>7 DEF Who!Holders
    <3>2. i = Who!PickMatch(Parts(s))
      BY <1>2, <2>4, <3>1 DEF Who!ResolveWorkspace
    <3>3. j = Who!PickMatch(Parts(after))
      BY <1>2, <2>7 DEF Who!ResolveWorkspace
    <3>4. Parts(s) \subseteq Parts(after)
      BY <1>s, <2>2
    <3>5. Parts(after) \subseteq 1..(n + 1)
      BY <2>2
    <3>6. IsFiniteSet(Parts(after))
      BY <2>3, <3>5, FS_Subset
    <3> HIDE DEF Parts
    <3>7. i = j
      BY <1>s, <1>2, <3>2, <3>3, <3>4, <3>5, <3>6, MoreMatches
    <3> QED BY <1>2, <3>7
  <2> QED BY <2>5, <2>6, <2>7
<1> HIDE DEF i, j, after, alias
<1>3. QED
  BY <1>1, <1>2 DEF i, j, after, alias, Who!SelectorsKeepTheirMeaning

(* A client that a URL selects serves its workspace, by the environment's    *)
(* URL or the account's, or it is an account that quotes the URL: nothing    *)
(* else of an account has a URL in it.                                       *)
LEMMA SelectedByUrl ==
  ASSUME NEW s \in AccountStores, NEW env, NEW desktop, NEW flag, NEW required,
         NEW ws, ws # Who!None,
         \A i \in DOMAIN s.ws : \A c \in {s.ws[i].alias, HostOf[s.ws[i].url], SlugOf[s.ws[i].url]} :
           ~Who!HasPart(c, ws),
         Who!GetClient(s, env, desktop, ws, flag, required) # Who!NoClient
  PROVE  LET client == Who!GetClient(s, env, desktop, ws, flag, required) IN
         \/ Who!HostOfText(client.url) = Who!HostOfText(ws)
         \/ \E i \in DOMAIN s.ws : /\ client = Who!Client(s.ws[i].alias, s.ws[i].url)
                                  /\ Who!Quotes(s.ws[i], ws)
<1> DEFINE client == Who!GetClient(s, env, desktop, ws, flag, required)
           i == Who!ResolveWorkspace(s, ws)
           Parts == {k \in DOMAIN s.ws : \E c \in Who!SelectorCandidates(s.ws[k]) : Who!HasPart(c, ws)}
<1>1. CASE Who!EnvServes(env, ws)
  <2>1. client = Who!Client("env", env.url)
    BY <1>1 DEF Who!GetClient
  <2>2. Who!WorkspaceMatches(env.url, ws)
    BY <1>1 DEF Who!EnvServes
  <2> QED BY <2>1, <2>2 DEF Who!Client, Who!WorkspaceMatches
<1>2. CASE ~Who!EnvServes(env, ws)
  <2>1. ~(i <= 0) /\ client = Who!Client(s.ws[i].alias, s.ws[i].url)
    BY <1>2 DEF Who!GetClient
  <2>2. Who!FindAlias(s, ws) = 0
    <3>1. \A k \in DOMAIN s.ws : s.ws[k].alias # ws
      BY DEF Who!HasPart
    <3> QED BY <3>1, FindsTheAlias
  <2>3. ASSUME NEW m \in SUBSET DOMAIN s.ws, i = Who!PickMatch(m)
        PROVE  i \in m
    <3>1. IsFiniteSet(m) /\ m \subseteq Nat \ {0}
      BY PlacesOfAStore, FS_Subset
    <3>2. i > 0
      <4>1. i \in Int
        <5>1. CASE m = {}
          <6>1. Who!PickMatch(m) = 0 \/ Who!PickMatch(m) \in m
            BY <5>1, <3>1, FS_EmptySet, SameCount DEF Who!PickMatch
          <6> QED BY <2>3, <3>1, <5>1, <6>1
        <5>2. CASE m # {}
          <6>1. (CHOOSE k \in m : TRUE) \in m
            BY <5>2
          <6>2. Who!PickMatch(m) \in m \cup {-1}
            BY <5>2, <6>1 DEF Who!PickMatch
          <6> QED BY <2>3, <3>1, <6>2
        <5> QED BY <5>1, <5>2
      <4> HIDE DEF i
      <4> QED BY <2>1, <4>1
    <3> HIDE DEF i
    <3> QED BY <2>3, <3>1, <3>2, PicksTheOnly
  <2>4. CASE Who!Holders(s, ws) # {}
    <3>1. i = Who!PickMatch(Who!Holders(s, ws)) /\ Who!Holders(s, ws) \subseteq DOMAIN s.ws
      BY <2>2, <2>4 DEF Who!ResolveWorkspace, Who!Holders
    <3>2. s.ws[i].url = ws
      BY <2>3, <3>1 DEF Who!Holders
    <3> HIDE DEF i, client
    <3> QED BY <2>1, <3>2 DEF Who!Client, client
  <2>5. CASE Who!Holders(s, ws) = {}
    <3>1. i = Who!PickMatch(Parts)
      BY <2>2, <2>5 DEF Who!ResolveWorkspace
    <3>2. i \in Parts
      BY <2>3, <3>1
    <3> HIDE DEF i, client
    <3>3. PICK c \in Who!SelectorCandidates(s.ws[i]) : Who!HasPart(c, ws)
      BY <3>2
    <3>4. c \in {s.ws[i].url, s.ws[i].name}
      BY <3>2, <3>3 DEF Who!SelectorCandidates
    <3>5. s.ws[i].url # ws
      BY <2>5, <3>2 DEF Who!Holders
    <3>6. Who!Quotes(s.ws[i], ws)
      BY <3>3, <3>4, <3>5 DEF Who!HasPart, Who!Quotes
    <3> QED BY <2>1, <3>2, <3>6 DEF client
  <2> QED BY <2>4, <2>5
<1> QED BY <1>1, <1>2

(* A message that a permalink names is read and written in its workspace, by *)
(* no other account's client but one that quotes its URL, whatever the       *)
(* accounts, the flags and the environment; and no target of a stream leads  *)
(* elsewhere (resolveTargetClient, channelIDForTarget): PermalinksStayHome.  *)
(* Aliases, hosts and slugs have no "://", so no URL is a part of one.       *)
THEOREM PermalinksStayAtHome ==
  ASSUME NEW input, input.ws # Who!None, NEW s \in AccountStores, NEW env, NEW desktop,
         NEW flag, NEW required,
         \A i \in DOMAIN s.ws : \A c \in {s.ws[i].alias, HostOf[s.ws[i].url], SlugOf[s.ws[i].url]} :
           ~Who!HasPart(c, input.ws)
  PROVE  Who!PermalinksStayHome(input, s, env, desktop, flag, required)
<1> SUFFICES ASSUME Who!IsMessageURL(input)
             PROVE  Who!PermalinksStayHome(input, s, env, desktop, flag, required)
  BY DEF Who!PermalinksStayHome
<1> DEFINE target == Who!ParseTarget(input)
           got == Who!ResolveMessageTarget(input, Who!None, s, env, desktop, flag, required)
           client == Who!GetClient(s, env, desktop, Who!None, flag, required)
           pinned == Who!GetClient(s, env, desktop, input.ws, flag, required)
<1>1. /\ target.kind = "url" /\ target.ref = Who!ParseMessageURL(input)
      /\ target.ref.ws = input.ws /\ Who!Pinned(target) = input.ws
  BY DEF Who!ParseTarget, Who!TargetOf, Who!ParseMessageURL, Who!MessageRef, Who!Pinned
<1> HIDE DEF target
<1>2. got # Who!Failed => got.client = pinned /\ pinned # Who!NoClient
  <2> SUFFICES ASSUME got # Who!Failed
               PROVE  got.client = pinned /\ pinned # Who!NoClient
    OBVIOUS
  <2> DEFINE at == Who!ResolveTargetClient(target, s, env, desktop, flag, required, FALSE)
  <2>1. at.client # Who!NoClient /\ got.client = at.client
    BY DEF Who!ResolveMessageTarget, target
  <2>2. at = IF pinned = Who!NoClient THEN Who!Resolved(Who!NoClient, Who!None)
             ELSE Who!Resolved(pinned, target.ref.channel)
    BY <1>1 DEF Who!ResolveTargetClient
  <2>3. ASSUME NEW c, NEW ch PROVE Who!Resolved(c, ch).client = c
    BY DEF Who!Resolved
  <2> HIDE DEF at, pinned, got
  <2> QED BY <2>1, <2>2, <2>3
<1>3. client # Who!NoClient /\ client.url # Who!None
        /\ Who!ChannelIDForTarget(target, client) # Who!None
      => Who!HostOfText(client.url) = Who!HostOfText(input.ws)
  <2> HIDE DEF client
  <2> SUFFICES ASSUME client.url # Who!None, Who!ChannelIDForTarget(target, client) # Who!None
               PROVE  Who!HostOfText(client.url) = Who!HostOfText(input.ws)
    OBVIOUS
  <2>1. ~Who!PermalinkElsewhere(target, client)
    BY <1>1 DEF Who!ChannelIDForTarget
  <2>2. Who!WorkspaceMatches(input.ws, client.url)
    BY <1>1, <2>1 DEF Who!PermalinkElsewhere
  <2> QED BY <2>2 DEF Who!WorkspaceMatches
<1>4. pinned # Who!NoClient =>
        \/ Who!HostOfText(pinned.url) = Who!HostOfText(input.ws)
        \/ \E i \in DOMAIN s.ws : /\ pinned = Who!Client(s.ws[i].alias, s.ws[i].url)
                                 /\ Who!Quotes(s.ws[i], input.ws)
  BY SelectedByUrl
<1> HIDE DEF got, client, pinned
<1>5. got # Who!Failed =>
        \/ Who!HostOfText(got.client.url) = Who!HostOfText(input.ws)
        \/ \E i \in DOMAIN s.ws : /\ got.client = Who!Client(s.ws[i].alias, s.ws[i].url)
                                 /\ Who!Quotes(s.ws[i], input.ws)
  BY <1>2, <1>4
<1> QED BY <1>3, <1>5 DEF got, client, target, Who!PermalinksStayHome

(* The permalink built for a message leads back to it, with its thread when  *)
(* it is a reply; no archive URL is taken for a name (BuildMessageURL,       *)
(* ParseMessageURL, ParseTarget): PermalinksReadBack.                        *)
THEOREM PermalinksLeadBack ==
  ASSUME NEW input, Who!None \notin Stamps,
         \A t, u \in Stamps : DigitsOf[t] = DigitsOf[u] => t = u
  PROVE  Who!PermalinksReadBack(input)
<1>1. ASSUME NEW channel \in ChannelIds, NEW ts \in Stamps,
             NEW thread \in Stamps \cup {Who!None}, NEW ws \in Urls
      PROVE  Who!ParseMessageURL(Who!BuildMessageURL(ws, channel, ts, thread)) =
               Who!MessageRef(ws, channel, ts, IF thread = ts THEN Who!None ELSE thread, FALSE)
  <2> DEFINE url == Who!BuildMessageURL(ws, channel, ts, thread)
             reply == thread # Who!None /\ thread # ts
  <2>1. /\ url.ws = ws /\ url.path[2] = channel /\ url.path[3] = DigitsOf[ts]
        /\ url.thread = IF reply THEN thread ELSE Who!None
        /\ url.cid = reply
    BY DEF Who!BuildMessageURL, Who!Url
  <2>2. Who!TimestampOf(DigitsOf[ts]) = ts
    BY DEF Who!TimestampOf
  <2> HIDE DEF url
  <2>3. (IF url.thread \in Stamps THEN url.thread ELSE Who!None)
          = IF thread = ts THEN Who!None ELSE thread
    BY <2>1
  <2>4. (url.thread # Who!None /\ ~url.cid) = FALSE
    BY <2>1
  <2> QED BY <2>1, <2>2, <2>3, <2>4 DEF Who!ParseMessageURL, url
<1>2. Who!IsSlackArchiveURL(input) =>
        Who!ParseTarget(input) = Who!Failed \/ Who!ParseTarget(input).ws = input.ws
  BY DEF Who!ParseTarget, Who!TargetOf, Who!RefusesArchive
<1> QED BY <1>1, <1>2 DEF Who!PermalinksReadBack
===============================================================================
