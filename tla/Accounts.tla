------------------------------- MODULE Accounts -------------------------------
(***************************************************************************)
(* Which of the stored accounts a command acts as (credential/resolve.go,  *)
(* cli/context.go), and what importing or adding accounts makes of the     *)
(* stored ones (credential/upsert.go).  CredentialStore models how the     *)
(* store is read and written; here it is a value: a default, or None, and  *)
(* a sequence of accounts.  A string is only what the code compares it     *)
(* with: what contains it, and the host and the slug of a URL.             *)
(***************************************************************************)
EXTENDS Naturals, Sequences, FiniteSets, SequencesExt

CONSTANTS
  Urls,     \* workspace URLs, normalized
  HostOf,   \* [Urls -> their hosts]
  SlugOf,   \* [Urls -> the alias derived from the host]
  Within,   \* pairs <<part, whole>> of different strings
  Numbered  \* [slug -> the sequence of slug-2, slug-3, ...]

None == "none"

Account(alias, url, name, type, token, id) ==
  [alias |-> alias, url |-> url, name |-> name, type |-> type, token |-> token, id |-> id]

Store(accounts, default) == [ws |-> accounts, default |-> default]

Aliases(store) == {store.ws[i].alias : i \in DOMAIN store.ws}
Holders(store, url) == {i \in DOMAIN store.ws : store.ws[i].url = url}

(* findAliasIndex, 0 when there is none.                                    *)
FindAlias(store, alias) ==
  IF alias \in Aliases(store)
  THEN CHOOSE i \in DOMAIN store.ws : store.ws[i].alias = alias ELSE 0

-----------------------------------------------------------------------------
(* Resolution: the number of an account, 0 for no match, -1 for several.    *)
HasPart(whole, part) == whole = part \/ <<part, whole>> \in Within

ResolveDefault(store) ==
  IF FindAlias(store, store.default) # 0 THEN FindAlias(store, store.default)
  ELSE IF store.ws # <<>> THEN 1 ELSE 0

PickMatch(matches) ==
  IF Cardinality(matches) = 1 THEN CHOOSE i \in matches : TRUE
  ELSE IF matches = {} THEN 0 ELSE -1

SelectorCandidates(a) == {a.alias, a.url, HostOf[a.url], SlugOf[a.url], a.name}

ResolveWorkspace(store, selector) ==
  LET part == {i \in DOMAIN store.ws :
                 \E c \in SelectorCandidates(store.ws[i]) : HasPart(c, selector)}
  IN IF selector = None THEN ResolveDefault(store)
     ELSE IF FindAlias(store, selector) # 0 THEN FindAlias(store, selector)
     ELSE IF Holders(store, selector) # {} THEN PickMatch(Holders(store, selector))
     ELSE PickMatch(part)

-----------------------------------------------------------------------------
(* getClientForWorkspace.  A client is the environment's, an account's, or  *)
(* none: [from, url].                                                       *)
HostOfText(s) == IF s \in Urls THEN HostOf[s] ELSE s
WorkspaceMatches(a, b) == a # None /\ b # None /\ HostOfText(a) = HostOfText(b)

Client(from, url) == [from |-> from, url |-> url]
NoClient == Client("refused", None)

(* Seeded fault: the environment's token is good for any workspace.         *)
EnvServesAny(env, selector) ==
  env.token # None /\ (env.token = "xoxc" => env.cookie /\ env.url # None)

(* clientFromEnv: a browser token needs its cookie and its workspace.       *)
EnvServes(env, selector) ==
  /\ env.token # None
  /\ selector = None \/ WorkspaceMatches(env.url, selector)
  /\ env.token = "xoxc" => env.cookie /\ env.url # None

(* requireIdentity, refuseAmbiguousDefault.                                 *)
RefusesNoSelector(store) == Len(store.ws) > 1 /\ store.default = None

(* healMissingSecrets, desktopRefresh: a browser account without its secret *)
(* needs Slack Desktop to be signed in to its workspace.                    *)
Heals(a, desktop) == a.type = "browser" /\ \E t \in desktop : WorkspaceMatches(t.url, a.url)

GetClient(store, env, desktop, pinned, flag, required) ==
  LET selector == IF pinned # None THEN pinned ELSE flag
      i == ResolveWorkspace(store, selector)
  IN IF selector = None /\ required THEN NoClient
     ELSE IF EnvServes(env, selector) THEN Client("env", env.url)
     ELSE IF selector = None /\ RefusesNoSelector(store) THEN NoClient
     ELSE IF i <= 0 THEN NoClient
     ELSE IF store.ws[i].token = None /\ ~Heals(store.ws[i], desktop) THEN NoClient
     ELSE Client(store.ws[i].alias, store.ws[i].url)

-----------------------------------------------------------------------------
(* Upserts.  uniquifyAlias: the first of slug, slug-2, ... that is free.    *)
UniquifyAlias(store, slug) ==
  LET names == <<slug>> \o Numbered[slug]
      free == {n \in DOMAIN names : names[n] \notin Aliases(store)}
  IN names[CHOOSE n \in free : \A m \in free : n <= m]

(* Seeded fault: an imported team lands on the alias its host derives to.   *)
UpsertAliasDerived(store, incoming) ==
  IF incoming.alias # None THEN incoming.alias ELSE SlugOf[incoming.url]

(* upsertTarget: the alias it lands on, None when several hold the URL.     *)
UpsertAlias(store, incoming) ==
  LET holders == Holders(store, incoming.url)
  IN IF incoming.alias # None THEN incoming.alias
     ELSE CASE Cardinality(holders) = 1 -> store.ws[CHOOSE i \in holders : TRUE].alias
            [] holders = {} -> UniquifyAlias(store, SlugOf[incoming.url])
            [] OTHER -> None

(* mergeWorkspace: the incoming secrets, and what it says of the rest.      *)
MergeWorkspace(existing, incoming) ==
  [existing EXCEPT !.url = incoming.url, !.type = incoming.type, !.token = incoming.token,
     !.name = IF incoming.name = None THEN @ ELSE incoming.name,
     !.id = IF incoming.id = None THEN @ ELSE incoming.id]

Upserted(store, incoming) ==
  LET alias == UpsertAlias(store, incoming)
      i == FindAlias(store, alias)
      named == [incoming EXCEPT !.alias = alias]
  IN [ws |-> IF i = 0 THEN Append(store.ws, named)
             ELSE [store.ws EXCEPT ![i] = MergeWorkspace(@, named)],
      default |-> IF store.default = None THEN alias ELSE store.default]

(* upsertMany, saveTeams: all in one edit, which an ambiguous URL undoes.   *)
UpsertMany(store, incoming) ==
  LET Land(s, a) ==
        IF s.failed \/ UpsertAlias(s.store, a) = None THEN [s EXCEPT !.failed = TRUE]
        ELSE [s EXCEPT !.store = Upserted(@, a)]
      end == FoldLeft(Land, [store |-> store, failed |-> FALSE], incoming)
  IN IF end.failed THEN store ELSE end.store

-----------------------------------------------------------------------------
(* An account more or less never changes what a selector that worked means, *)
(* unless the new one is exactly that alias or URL: what matched by a part  *)
(* becomes ambiguous, not another account; an alias in full never does      *)
(* (Store.Resolve, pickMatch).                                              *)
SelectorsKeepTheirMeaning(store, added, selector) ==
  LET after == Upserted(store, added)
      i == ResolveWorkspace(store, selector)
      j == ResolveWorkspace(after, selector)
      known == FindAlias(store, UpsertAlias(store, added)) # 0
  IN /\ selector # None /\ ~known /\ i > 0 /\ j > 0 /\ i # j
          => selector \in {after.ws[j].alias, after.ws[j].url}
     /\ FindAlias(store, selector) # 0 => j = FindAlias(store, selector)

(* An import keeps one account per alias, leaves every account of another   *)
(* URL as it is, gives each imported URL's account the imported token, and  *)
(* keeps the default - or changes nothing at all (saveTeams, upsertMany).   *)
ImportsKeepTheRest(store, teams) ==
  LET after == UpsertMany(store, teams)
      urls == {teams[i].url : i \in DOMAIN teams}
  IN \/ after = store /\ \E url \in urls : Cardinality(Holders(store, url)) > 1
     \/ /\ Cardinality(Aliases(after)) = Len(after.ws)
        /\ \A i \in DOMAIN store.ws : store.ws[i].url \notin urls => after.ws[i] = store.ws[i]
        /\ \A i \in DOMAIN store.ws : after.ws[i].alias = store.ws[i].alias
        /\ \A url \in urls : \E i \in Holders(after, url), n \in DOMAIN teams :
             teams[n].url = url /\ after.ws[i].token = teams[n].token
        /\ after.default = IF store.default # None \/ teams = <<>> THEN store.default
                           ELSE after.ws[FindAlias(after, after.default)].alias

(* The stored identity is that of the token: the cache is kept per identity *)
(* (resolveIdentityKey).  An upsert that brings no identity keeps the old.  *)
IdentityIsTheTokens(store, owner) ==
  \A i \in DOMAIN store.ws : store.ws[i].id \in {None, owner[store.ws[i].token]}
=============================================================================
