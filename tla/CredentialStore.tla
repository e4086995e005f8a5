---------------------------- MODULE CredentialStore ----------------------------
(***************************************************************************)
(* The credentials of agent-slack (internal/credential): a JSON file of    *)
(* workspaces keyed by alias, the keychain that holds their secrets, and   *)
(* the advisory lock of internal/fslock that serializes read-modify-write  *)
(* cycles.  The actors are processes: every command is one, MCP tool calls *)
(* run several at once, and any may die at any step, which frees its lock. *)
(*                                                                         *)
(* A secret is the number of the command that brought it, 0 for those of   *)
(* the version-1 store; "" and "__KEYCHAIN__" are both Placeholder, as     *)
(* isPlaceholder has it.  Entries are a function of their alias: the order *)
(* of the file matters only to which entry becomes the default when the    *)
(* default is removed, and that is left open.                              *)
(***************************************************************************)
EXTENDS Integers, FiniteSets, Functions

CONSTANTS
  Procs, Aliases, Urls, Identities,
  None,               \* the empty string where an id is expected
  Placeholder,
  LegacyAliases,      \* aliases the version-1 entries derive to
  LegacyUrl,          \* the URL of each
  SeedExists,         \* whether another Slack CLI left a file to seed from
  MayDie,             \* whether a process may die, or fail to write the file
  MigrationMayDie,    \* also between deleting the legacy accounts and saving
  StaleSetMayFail,    \* whether replacing a secret the keychain holds may fail
  MaxCommands         \* bound: commands started

Kinds == {"token", "xoxc", "xoxd"}
AuthTypes == {"standard", "browser"}
Secrets == 0..MaxCommands

ASSUME StoreAssumption ==
  /\ LegacyAliases \subseteq Aliases /\ LegacyUrl \in [LegacyAliases -> Urls]
  /\ None \notin Procs \cup Aliases \cup Urls \cup Identities
  /\ Aliases \cap Urls = {}      \* slugify keeps letters, digits and hyphens only
  /\ Placeholder \notin Nat
  /\ {SeedExists, MayDie, MigrationMayDie, StaleSetMayFail} \subseteq BOOLEAN
  /\ MaxCommands \in Nat

VARIABLES
  file,       \* the credentials file; Absent when there is none
  keychain,   \* account -> secret
  lock,       \* the process holding the lock, None when free
  pc, cmd,    \* where a process is, and what it was asked
  stage,      \* "load" or "edit": what it wants the lock for
  draft,      \* the credentials it has in memory
  left,       \* the keychain accounts it has still to read or write
  issued,     \* commands started
  want,       \* history: alias -> the auth its last completed upsert stored
  abandoned,  \* history: <<alias, secret>> of upserts that died while saving
  watched     \* history: aliases in want when a load read the file, not removed since

store == <<file, keychain>>
history == <<want, abandoned, watched>>
vars == <<file, keychain, lock, pc, cmd, stage, draft, left, issued, want, abandoned, watched>>

-----------------------------------------------------------------------------
Entry(url, id, type, secret) == [url |-> url, id |-> id, type |-> type, secret |-> secret]

Absent == [version |-> 0, default |-> None, ws |-> [a \in {} |-> None]]

(* Which secrets an auth type uses, and the account that backs each.        *)
KindsOf(type) == IF type = "browser" THEN {"xoxc", "xoxd"} ELSE {"token"}

AccountsOf(f) == {x \in Kinds \X DOMAIN f.ws : x[1] \in KindsOf(f.ws[x[2]].type)}

SecretOf(f, x) == f.ws[x[2]].secret[x[1]]

ToPush(f) == {x \in AccountsOf(f) : SecretOf(f, x) # Placeholder}

AuthOf(type, s) == [k \in Kinds |-> IF k \in KindsOf(type) THEN s ELSE Placeholder]

With(f, x, v) == [y \in DOMAIN f \cup {x} |-> IF y = x THEN v ELSE f[y]]
Without(f, S) == Restrict(f, DOMAIN f \ S)

(* f with every secret its entries use replaced by Value of its account.    *)
WithSecrets(f, Value(_, _)) ==
  [f EXCEPT !.ws = [a \in DOMAIN f.ws |->
     [f.ws[a] EXCEPT !.secret = [k \in Kinds |->
        IF k \in KindsOf(f.ws[a].type) THEN Value(a, k) ELSE f.ws[a].secret[k]]]]]

(* What the keychain returns is preferred to what the file holds.           *)
Hydrated(f) ==
  LET Value(a, k) == IF <<k, a>> \in DOMAIN keychain THEN keychain[<<k, a>>]
                     ELSE f.ws[a].secret[k]
  IN WithSecrets(f, Value)

(* Version 1 keyed accounts and the default by URL, with one cookie for all. *)
LegacyAccount(k, url) == IF k = "xoxd" THEN <<k, None>> ELSE <<k, url>>

LegacyAccounts(f) ==
  {LegacyAccount(k, f.ws[a].url) : k \in {"xoxc", "token"}, a \in DOMAIN f.ws}
    \cup {LegacyAccount("xoxd", None) : a \in {b \in DOMAIN f.ws : f.ws[b].type = "browser"}}

LegacyFile(type, url) ==
  [version |-> 1, default |-> url,
   ws |-> [a \in LegacyAliases |->
             Entry(LegacyUrl[a], None, type, [k \in Kinds |-> Placeholder])]]

LegacyKeychain(type) ==
  [x \in {LegacyAccount(k, LegacyUrl[a]) : k \in KindsOf(type), a \in LegacyAliases} |-> 0]

IsLegacy == file.version = 1

Migrated(f) ==
  LET Value(a, k) ==
        LET account == LegacyAccount(k, f.ws[a].url) IN
        IF f.ws[a].secret[k] = Placeholder /\ account \in DOMAIN keychain
        THEN keychain[account] ELSE f.ws[a].secret[k]
      matches == {a \in DOMAIN f.ws : f.ws[a].url = f.default}
  IN [WithSecrets(f, Value) EXCEPT
        !.version = 2,
        !.default = IF matches = {} THEN None ELSE CHOOSE a \in matches : TRUE]

-----------------------------------------------------------------------------
Command(op, alias, url, id, type, secret) ==
  [op |-> op, alias |-> alias, url |-> url, id |-> id, type |-> type, secret |-> secret]

Idle == Command("load", None, None, None, "standard", 0)

(* An upsert carries the secret numbered by its command; only an enrollment, *)
(* which auth.test answered, carries an identity.                           *)
Commands ==
  {Idle}
    \cup {Command("upsert", a, u, None, t, issued + 1) :
            a \in Aliases \cup {None}, u \in Urls, t \in AuthTypes}
    \cup {Command("enroll", a, u, i, t, issued + 1) :
            a \in Aliases, u \in Urls, i \in Identities, t \in AuthTypes}
    \cup {Command("identity", a, None, i, "standard", 0) : a \in Aliases, i \in Identities}
    \cup {Command(op, a, None, None, "standard", 0) : op \in {"default", "remove"}, a \in Aliases}

Init ==
  /\ \/ /\ file = Absent
        /\ keychain = [x \in {} |-> 0] /\ want = [a \in {} |-> None]
     \/ \E type \in AuthTypes, url \in Urls \cup {None} :
          /\ file = LegacyFile(type, url) /\ keychain = LegacyKeychain(type)
          /\ want = [a \in LegacyAliases |-> [type |-> type, secret |-> 0]]
  /\ lock = None
  /\ pc = [p \in Procs |-> "idle"]
  /\ cmd = [p \in Procs |-> Idle]
  /\ stage = [p \in Procs |-> "load"]
  /\ draft = [p \in Procs |-> Absent]
  /\ left = [p \in Procs |-> {}]
  /\ issued = 0
  /\ abandoned = {}
  /\ watched = [p \in Procs |-> {}]

At(p, place) == pc[p] = place
Goto(p, place) == pc' = [pc EXCEPT ![p] = place]
Loads(p) == cmd[p].op \in {"load", "enroll"}
Stores(p) == cmd[p].op \in {"upsert", "enroll"}

(* A command is over, however it ends: nothing of it stays but the store.   *)
Finish(p) ==
  /\ Goto(p, "idle")
  /\ lock' = IF lock = p THEN None ELSE lock
  /\ cmd' = [cmd EXCEPT ![p] = Idle] /\ stage' = [stage EXCEPT ![p] = "load"]
  /\ draft' = [draft EXCEPT ![p] = Absent] /\ left' = [left EXCEPT ![p] = {}]
  /\ watched' = [watched EXCEPT ![p] = {}]

Begin(p) ==
  /\ At(p, "idle") /\ issued < MaxCommands
  /\ issued' = issued + 1
  /\ \E c \in Commands : cmd' = [cmd EXCEPT ![p] = c]
  /\ Goto(p, "open")
  /\ UNCHANGED <<store, lock, stage, draft, left, history>>

(* New: a missing store is seeded from the other CLI's, if there is one.    *)
Enter(p) ==
  /\ stage' = [stage EXCEPT ![p] = IF Loads(p) THEN "load" ELSE "edit"]
  /\ Goto(p, IF Loads(p) THEN "check" ELSE "lock")

Open(p) ==
  /\ At(p, "open")
  /\ IF file = Absent /\ SeedExists
     THEN Goto(p, "seed") /\ UNCHANGED stage
     ELSE Enter(p)
  /\ UNCHANGED <<store, lock, cmd, draft, left, issued, history>>

(* Seeded fault: the store is seeded because it was missing a moment ago.   *)
SeedUnchecked(p) ==
  /\ At(p, "seed") /\ lock = None
  /\ \E url \in Urls : file' = LegacyFile("browser", url)
  /\ Enter(p)
  /\ UNCHANGED <<keychain, lock, cmd, draft, left, issued, history>>

(* The decision is made again under the lock; its hold is one step here.    *)
Seed(p) ==
  /\ At(p, "seed") /\ lock = None
  /\ IF file = Absent THEN \E url \in Urls : file' = LegacyFile("browser", url)
     ELSE UNCHANGED file
  /\ Enter(p)
  /\ UNCHANGED <<keychain, lock, cmd, draft, left, issued, history>>

-----------------------------------------------------------------------------
(* Load: the version check, and then the file and the keychain, take no lock. *)
CheckVersion(p) ==
  /\ At(p, "check")
  /\ Goto(p, IF IsLegacy THEN "lock" ELSE "read")
  /\ UNCHANGED <<store, lock, cmd, stage, draft, left, issued, history>>

ReadFile(p) ==
  /\ At(p, "read") /\ cmd[p].op = "load"
  /\ draft' = [draft EXCEPT ![p] = file]
  /\ left' = [left EXCEPT ![p] = AccountsOf(file)]
  /\ watched' = [watched EXCEPT ![p] = DOMAIN want]
  /\ Goto(p, "get")
  /\ UNCHANGED <<store, lock, cmd, stage, issued, want, abandoned>>

SetSecret(f, x, v) == [f EXCEPT !.ws[x[2]].secret[x[1]] = v]

GetSecret(p) ==
  \E x \in left[p] :
    /\ At(p, "get")
    /\ draft' = [draft EXCEPT ![p] =
                   IF x \in DOMAIN keychain THEN SetSecret(@, x, keychain[x]) ELSE @]
    /\ left' = [left EXCEPT ![p] = @ \ {x}]
    /\ UNCHANGED <<store, lock, pc, cmd, stage, issued, history>>

Loaded(p) == At(p, "get") /\ left[p] = {}

LoadReturns(p) ==
  /\ Loaded(p)
  /\ Finish(p)
  /\ UNCHANGED <<store, issued, want, abandoned>>

(* An enrollment is refused when its slot already knows another identity;   *)
(* otherwise it goes on to upsert, having let go of everything it read.     *)
EnrollChecks(p) ==
  /\ At(p, "read") /\ cmd[p].op = "enroll"
  /\ LET a == cmd[p].alias IN
     IF a \in DOMAIN file.ws /\ file.ws[a].id \notin {None, cmd[p].id} THEN Finish(p)
     ELSE /\ stage' = [stage EXCEPT ![p] = "edit"] /\ Goto(p, "lock")
          /\ UNCHANGED <<lock, cmd, draft, left, watched>>
  /\ UNCHANGED <<store, issued, want, abandoned>>

-----------------------------------------------------------------------------
(* The lock.  A load takes it only to migrate, and reads after letting go.  *)
GoOn(p) ==
  /\ IF stage[p] = "load" THEN lock' = None /\ Goto(p, "read") ELSE lock' = p /\ Goto(p, "edit")
  /\ draft' = [draft EXCEPT ![p] = Absent] /\ UNCHANGED left

Lock(p) ==
  /\ At(p, "lock") /\ lock = None
  /\ IF IsLegacy THEN Goto(p, "migrate") /\ lock' = p /\ UNCHANGED <<draft, left>>
     ELSE GoOn(p)
  /\ UNCHANGED <<store, cmd, stage, issued, history>>

(* Save: the secrets go to the keychain one at a time, then the file.       *)
Save(p, f) ==
  /\ draft' = [draft EXCEPT ![p] = f]
  /\ left' = [left EXCEPT ![p] = ToPush(f)]
  /\ Goto(p, "push")

Migrate(p) ==
  /\ At(p, "migrate")
  /\ Save(p, Migrated(file))
  /\ keychain' = Without(keychain, LegacyAccounts(file))
  /\ UNCHANGED <<file, lock, cmd, stage, issued, history>>

-----------------------------------------------------------------------------
(* The mutations of edit.  An upsert without an alias lands on the one entry *)
(* of its URL, on a fresh alias when there is none (refused when the bound  *)
(* Aliases leaves none), and is refused when several share the URL.         *)
UpsertTargets(f, c) ==
  IF c.alias # None THEN {c.alias}
  ELSE LET matches == {a \in DOMAIN f.ws : f.ws[a].url = c.url}
       IN CASE matches = {} -> Aliases \ DOMAIN f.ws
            [] Cardinality(matches) = 1 -> matches
            [] OTHER -> {}

MergeWorkspace(f, a, c) ==
  LET id == IF c.id = None /\ a \in DOMAIN f.ws THEN f.ws[a].id ELSE c.id
      entry == Entry(c.url, id, c.type, AuthOf(c.type, c.secret))
  IN [f EXCEPT !.ws = With(@, a, entry), !.default = IF @ = None THEN a ELSE @]

EditUpsert(p) ==
  /\ At(p, "edit") /\ Stores(p)
  /\ \E a \in UpsertTargets(file, cmd[p]) :
       /\ cmd' = [cmd EXCEPT ![p].alias = a]
       /\ Save(p, MergeWorkspace(Hydrated(file), a, cmd[p]))
  /\ UNCHANGED <<store, lock, stage, issued, history>>

SetIdentity(p) ==
  LET a == cmd[p].alias IN
  /\ At(p, "edit") /\ cmd[p].op = "identity"
  /\ a \in DOMAIN file.ws /\ file.ws[a].id # cmd[p].id
  /\ Save(p, [Hydrated(file) EXCEPT !.ws[a].id = cmd[p].id])
  /\ UNCHANGED <<store, lock, cmd, stage, issued, history>>

SetDefault(p) ==
  /\ At(p, "edit") /\ cmd[p].op = "default" /\ cmd[p].alias \in DOMAIN file.ws
  /\ Save(p, [Hydrated(file) EXCEPT !.default = cmd[p].alias])
  /\ UNCHANGED <<store, lock, cmd, stage, issued, history>>

RemoveWith(p, kinds, defaults) ==
  LET a == cmd[p].alias IN
  /\ At(p, "edit") /\ cmd[p].op = "remove" /\ a \in DOMAIN file.ws
  /\ keychain' = Without(keychain, kinds \X {a})
  /\ \E d \in defaults : Save(p, [Hydrated(file) EXCEPT !.ws = Without(@, {a}), !.default = d])
  /\ want' = Without(want, {a})
  /\ abandoned' = {x \in abandoned : x[1] # a}
  /\ watched' = [q \in Procs |-> watched[q] \ {a}]
  /\ UNCHANGED <<file, lock, cmd, stage, issued>>

NextDefaults(a) ==
  LET rest == DOMAIN file.ws \ {a} IN
  IF file.default # a THEN {file.default} ELSE IF rest = {} THEN {None} ELSE rest

(* Seeded fault: only the accounts of the current auth are deleted.         *)
RemoveCurrentAuth(p) ==
  RemoveWith(p, KindsOf(file.ws[cmd[p].alias].type), NextDefaults(cmd[p].alias))

Remove(p) == RemoveWith(p, Kinds, NextDefaults(cmd[p].alias))

(* An edit that fails, or that changes nothing, saves nothing.              *)
NothingToSave(p) ==
  LET a == cmd[p].alias IN
  /\ At(p, "edit")
  /\ \/ Stores(p) /\ UpsertTargets(file, cmd[p]) = {}
     \/ ~Stores(p) /\ a \notin DOMAIN file.ws
     \/ /\ cmd[p].op = "identity" /\ a \in DOMAIN file.ws
        /\ file.ws[a].id = cmd[p].id
  /\ Finish(p)
  /\ UNCHANGED <<store, issued, want, abandoned>>

-----------------------------------------------------------------------------
(* The keychain may refuse a secret, which then stays in the file.          *)
Accepts(p, x) ==
  /\ keychain' = With(keychain, x, SecretOf(draft[p], x))
  /\ draft' = [draft EXCEPT ![p] = SetSecret(@, x, Placeholder)]

Refuses(x) == x \notin DOMAIN keychain \/ StaleSetMayFail

(* Seeded fault: a refused secret is replaced by the placeholder too.       *)
PushAnyway(p) ==
  \E x \in left[p] :
    /\ At(p, "push")
    /\ \/ Accepts(p, x)
       \/ /\ Refuses(x) /\ draft' = [draft EXCEPT ![p] = SetSecret(@, x, Placeholder)]
          /\ UNCHANGED keychain
    /\ left' = [left EXCEPT ![p] = @ \ {x}]
    /\ UNCHANGED <<file, lock, pc, cmd, stage, issued, history>>

Push(p) ==
  \E x \in left[p] :
    /\ At(p, "push")
    /\ Accepts(p, x) \/ (Refuses(x) /\ UNCHANGED <<keychain, draft>>)
    /\ left' = [left EXCEPT ![p] = @ \ {x}]
    /\ UNCHANGED <<file, lock, pc, cmd, stage, issued, history>>

(* The write replaces the file whole.  After a migration the cycle goes on. *)
WriteMigrated(p) ==
  /\ At(p, "push") /\ left[p] = {} /\ IsLegacy
  /\ file' = draft[p]
  /\ GoOn(p)
  /\ UNCHANGED <<keychain, cmd, stage, issued, history>>

Write(p) ==
  LET a == cmd[p].alias IN
  /\ At(p, "push") /\ left[p] = {} /\ ~IsLegacy
  /\ file' = [draft[p] EXCEPT !.version = 2]
  /\ Finish(p)
  /\ IF Stores(p)
     THEN /\ want' = With(want, a, [type |-> cmd[p].type, secret |-> cmd[p].secret])
          /\ abandoned' = {x \in abandoned : x[1] # a}
     ELSE UNCHANGED <<want, abandoned>>
  /\ UNCHANGED <<keychain, issued>>

(* A process dies, or its write fails: the lock is freed, what is in the    *)
(* keychain stays there, the file is as it was.                             *)
Dies(p) ==
  LET saving == At(p, "push") /\ ~IsLegacy IN
  /\ MayDie /\ ~At(p, "idle")
  /\ At(p, "push") /\ IsLegacy => MigrationMayDie
  /\ Finish(p)
  /\ abandoned' = IF saving /\ Stores(p)
                  THEN abandoned \cup {<<cmd[p].alias, cmd[p].secret>>} ELSE abandoned
  /\ UNCHANGED <<store, issued, want>>

-----------------------------------------------------------------------------
Step(p) ==
  \/ Open(p) \/ Seed(p) \/ CheckVersion(p) \/ ReadFile(p) \/ GetSecret(p) \/ LoadReturns(p)
  \/ EnrollChecks(p) \/ Lock(p) \/ Migrate(p) \/ EditUpsert(p) \/ SetIdentity(p)
  \/ SetDefault(p) \/ Remove(p) \/ NothingToSave(p) \/ Push(p) \/ WriteMigrated(p) \/ Write(p)

Done == issued = MaxCommands /\ (\A p \in Procs : At(p, "idle")) /\ UNCHANGED vars

Next == (\E p \in Procs : Begin(p) \/ Step(p) \/ Dies(p)) \/ Done

Spec == Init /\ [][Next]_vars

-----------------------------------------------------------------------------
FileOK(f) ==
  /\ DOMAIN f = {"version", "default", "ws"}
  /\ f.version \in 0..2
  /\ DOMAIN f.ws \subseteq Aliases
  /\ \A a \in DOMAIN f.ws :
       f.ws[a] \in [url : Urls, id : Identities \cup {None}, type : AuthTypes,
                   secret : [Kinds -> Secrets \cup {Placeholder}]]
  /\ f.default \in (IF f.version = 1 THEN Urls ELSE DOMAIN f.ws) \cup {None}

(* The state is well typed; in particular the stored default always names   *)
(* an entry of the file, through removals, migrations and deaths.           *)
StoreTypeOK ==
  /\ FileOK(file)
  /\ \A p \in Procs : FileOK([draft[p] EXCEPT !.default = None])
  /\ DOMAIN keychain \subseteq Kinds \X (Aliases \cup Urls \cup {None})
  /\ \A x \in DOMAIN keychain : keychain[x] \in Secrets
  /\ lock \in Procs \cup {None}
  /\ pc \in [Procs -> {"idle", "open", "seed", "check", "read", "get", "lock",
                      "migrate", "edit", "push"}]
  /\ \A p \in Procs : left[p] \subseteq Kinds \X Aliases
  /\ stage \in [Procs -> {"load", "edit"}]
  /\ issued \in 0..MaxCommands
  /\ DOMAIN want \subseteq Aliases

(* Whoever holds the lock is inside a read-modify-write cycle and nobody    *)
(* else is: two never edit at once, a holder never waits for its own lock   *)
(* (it is not reentrant: credential.go:148-151), and none outlives it.      *)
OneWriter == \A p \in Procs : pc[p] \in {"migrate", "edit", "push"} <=> lock = p

(* A secret a user was told is stored can be had back: whenever nobody is   *)
(* inside a read-modify-write cycle, a load finds under each alias the auth *)
(* its last completed upsert stored, or one that a dead upsert left half    *)
(* stored over it; no concurrent edit, migration or seed replaces it.       *)
SecretsSurvive ==
  lock = None =>
    \A a \in DOMAIN want : \A k \in KindsOf(want[a].type) :
      LET f == Hydrated(IF IsLegacy THEN Migrated(file) ELSE file) IN
      /\ a \in DOMAIN f.ws
      /\ \/ f.ws[a].secret[k] = want[a].secret /\ f.ws[a].type = want[a].type
         \/ <<a, f.ws[a].secret[k]>> \in abandoned

(* The lock-free load is safe against writers: an alias that had its secrets *)
(* when the load read the file, and was not removed meanwhile, is returned  *)
(* with every secret its auth uses, though the two stores are read at       *)
(* different times.                                                         *)
ReaderFindsSecrets ==
  \A p \in Procs : Loaded(p) => watched[p] \subseteq DOMAIN draft[p].ws
                               /\ \A x \in AccountsOf(draft[p]) :
                                    x[2] \in watched[p] => SecretOf(draft[p], x) # Placeholder

(* Nothing of a removed workspace stays in the keychain, whatever auths it  *)
(* had: every alias account belongs to a stored alias, to an upsert that is *)
(* saving, or to one that died saving.                                      *)
RemovedIsGone ==
  \A x \in DOMAIN keychain : x[2] \in Aliases =>
    \/ x[2] \in DOMAIN file.ws
    \/ \E s \in Secrets : <<x[2], s>> \in abandoned
    \/ \E p \in Procs : At(p, "push") /\ x[2] \in DOMAIN draft[p].ws

(* An enrolled slot converges on one identity: an enrollment never re-points *)
(* a slot that already knows who it is (mcp_enroll.go:7-8).                 *)
EnrollConverges ==
  [][\A p \in Procs : At(p, "push") /\ cmd[p].op = "enroll" /\ At(p, "idle")' =>
       \A a \in DOMAIN file.ws \cap DOMAIN file'.ws :
         file.ws[a].id \in {None, file'.ws[a].id}]_vars
=============================================================================
