----------------------------- MODULE References -----------------------------
(***************************************************************************)
(* Expanding the users, channels and usergroups that messages refer to     *)
(* (--resolve none | cached | auto | fresh): what is read from the cache,  *)
(* what Slack is asked, what is shown and what a warm-cache hint names.    *)
(* A cache is the age of the entry of each id and of each category's mark  *)
(* of being complete; an age counts from the moment of writing.            *)
(***************************************************************************)
EXTENDS Integers, Sequences, SequencesExt, FiniteSets

CONSTANTS
  Ids, CategoryOf,      \* ids of "users", "channels" and "usergroups"
  EntryTTL, GetTTL, CompleteTTL

Never == -1
Categories == {"users", "channels", "usergroups"}
Policies == {"none", "cached", "auto", "fresh"}
TheList == "usergroups.list"

(* live: what exists; unlisted: what Slack's lists leave out, archived      *)
(* channels and users of other workspaces; failing: the requests that fail. *)
World(age, complete, live, unlisted, failing) ==
  [age |-> age, complete |-> complete, live |-> live, unlisted |-> unlisted, failing |-> failing]

Within(age, ttl) == age # Never /\ age < ttl

(* The first occurrences of what is accepted, in order.                     *)
Distinct(ids, accepted) ==
  LET add(seen, id) == IF id \in accepted /\ ~Contains(seen, id) THEN Append(seen, id) ELSE seen
  IN FoldLeft(add, <<>>, ids)

(* CollectReferencedIDs: author, text, blocks and attachments of each       *)
(* message, and who reacted when reactions are shown.                       *)
CollectReferencedIDs(messages, includeReactions) ==
  LET parts(m) == m.said \o (IF includeReactions THEN m.reacted ELSE <<>>)
      add(ids, m) == ids \o parts(m)
  IN Distinct(FoldLeft(add, <<>>, messages), Ids)

Of(category, ids) == Distinct(ids, {id \in Range(ids) : CategoryOf[id] = category})

(* wantFetch.                                                               *)
WantFetch(policy, complete) == policy = "fresh" \/ (policy = "auto" /\ ~complete)

IsComplete(w, category) == Within(w.complete[category], CompleteTTL)

Found(w, id) == id \in w.live /\ id \notin w.failing

Resolved(shown, asked, fetched, kept) ==
  [shown |-> shown, asked |-> asked, fetched |-> fetched, kept |-> kept]
Nothing == Resolved({}, <<>>, FALSE, {})

(* Seeded fault: the users are fetched in one go, all of them or none.      *)
FoundTogether(w, asked) ==
  IF \A id \in Range(asked) : Found(w, id) THEN Range(asked) ELSE {}

(* fetchUsersByID and the loop over channels: each on its own, best effort. *)
FetchEach(w, asked) == {id \in Range(asked) : Found(w, id)}

(* ResolveUsersByID and ResolveChannelsByID up to what counts as fetched:   *)
(* the entries still good, and the misses one by one.                       *)
ResolveEach(w, category, ids, policy) ==
  LET mine == Of(category, ids)
      cached == {id \in Range(mine) : policy # "fresh" /\ Within(w.age[id], EntryTTL)}
      asked == IF WantFetch(policy, IsComplete(w, category))
               THEN SelectSeq(mine, LAMBDA id : id \notin cached) ELSE <<>>
      found == FetchEach(w, asked)
  IN Resolved(cached \cup found, asked, asked # <<>>, found)

ResolveUsersByID(w, ids, policy) == ResolveEach(w, "users", ids, policy)

ResolveChannelsByID(w, ids, policy) ==
  LET r == ResolveEach(w, "channels", ids, policy)
  IN [r EXCEPT !.fetched = r.kept # {}]

(* ResolveUsergroupsByID: either the cached ones that are fresh enough to   *)
(* serve, or one list of all, which is then complete.                       *)
ResolveUsergroupsByID(w, ids, policy) ==
  LET want == Range(Of("usergroups", ids))
      groups == {id \in w.live : CategoryOf[id] = "usergroups"}
  IN IF want = {} THEN Nothing
     ELSE IF ~WantFetch(policy, IsComplete(w, "usergroups"))
          THEN Resolved({id \in want : Within(w.age[id], GetTTL)}, <<>>, FALSE, {})
     ELSE IF TheList \in w.failing THEN Resolved({}, <<TheList>>, TRUE, {})
     ELSE Resolved(want \cap groups, <<TheList>>, TRUE, groups)

(* ResolveReferenced.                                                       *)
ResolveReferenced(w, ids, policy) ==
  [c \in Categories |->
     CASE policy = "none" -> Nothing
       [] c = "users"     -> ResolveUsersByID(w, ids, policy)
       [] c = "channels"  -> ResolveChannelsByID(w, ids, policy)
       [] OTHER           -> ResolveUsergroupsByID(w, ids, policy)]

Shown(r) == UNION {r[c].shown : c \in Categories}
Asked(r) == r["users"].asked \o r["channels"].asked \o r["usergroups"].asked

(* The cache that a resolution leaves: a list of usergroups is complete.    *)
Left(w, r) ==
  LET kept == UNION {r[c].kept : c \in Categories}
  IN [w EXCEPT !.age = [id \in Ids |-> IF id \in kept THEN 0 ELSE w.age[id]],
               !.complete["usergroups"] =
                  IF r["usergroups"].asked # <<>> /\ TheList \notin w.failing THEN 0 ELSE @]

(* maybeWarmHint: the categories that auto had to fetch.                    *)
WarmHint(policy, r) == IF policy = "auto" THEN {c \in Categories : r[c].fetched} ELSE {}

(* WarmWorkspace over those categories, bots included, when every list is   *)
(* answered: what is listed is written beside what the cache has, and the   *)
(* category is complete, whatever the list leaves out.                      *)
WarmList(w, category) == {id \in w.live \ w.unlisted : CategoryOf[id] = category}

Warmed(w, categories) ==
  [w EXCEPT !.age = [id \in Ids |-> IF \E c \in categories : id \in WarmList(w, c)
                                    THEN 0 ELSE w.age[id]],
            !.complete = [c \in Categories |-> IF c \in categories THEN 0 ELSE w.complete[c]]]

-----------------------------------------------------------------------------
(* Reading the cache never asks Slack, and an auto read asks once for each  *)
(* miss: the next one asks only for what could not be had                   *)
(* (ResolveUsersByID, ResolveChannelsByID, ResolveUsergroupsByID).          *)
ReadsAskOnlyForMisses(w, ids) ==
  LET first == ResolveReferenced(w, ids, "auto")
      again == ResolveReferenced(Left(w, first), ids, "auto")
  IN /\ Asked(ResolveReferenced(w, ids, "cached")) = <<>>
     /\ IsInjective(Asked(first))
     /\ Range(Asked(again)) \subseteq Range(Asked(first)) \ Shown(first)
     /\ TheList \in Range(Asked(again)) => TheList \in w.failing

(* One request that fails hides nothing else: an auto read shows all that a *)
(* cached one does and every miss that Slack answers for, and a fresh read  *)
(* all that Slack has; of usergroups, when their list can be read at all.   *)
NoFailureHidesTheRest(w, ids) ==
  LET auto == Shown(ResolveReferenced(w, ids, "auto"))
      fresh == Shown(ResolveReferenced(w, ids, "fresh"))
      cached == Shown(ResolveReferenced(w, ids, "cached"))
      Listed(id) == CategoryOf[id] = "usergroups" => TheList \notin w.failing
  IN \A id \in Range(ids) \cap w.live :
       /\ id \in cached /\ Listed(id) => id \in auto
       /\ Found(w, id) /\ Listed(id) =>
            /\ id \in fresh
            /\ ~IsComplete(w, CategoryOf[id]) => id \in auto

(* The hint is an exact command: once what it names is warm, the same read  *)
(* asks Slack for nothing of it and loses nothing, of what the first read   *)
(* showed and of what the lists have; and it asks for nothing it has shown  *)
(* before (maybeWarmHint).                                                  *)
HintsAreExact(w, ids) ==
  LET first == ResolveReferenced(w, ids, "auto")
      hinted == WarmHint("auto", first)
      again == ResolveReferenced(Warmed(Left(w, first), hinted), ids, "auto")
  IN /\ \A c \in hinted :
          /\ again[c].asked = <<>>
          /\ first[c].shown \cup (Range(Of(c, ids)) \cap WarmList(w, c)) \subseteq again[c].shown
     /\ Range(Asked(again)) \cap Shown(first) = {}

(* And after it no read leaves out anything that exists.                    *)
HintsResolveAll(w, ids) ==
  LET first == ResolveReferenced(w, ids, "auto")
      hinted == WarmHint("auto", first)
      again == ResolveReferenced(Warmed(Left(w, first), hinted), ids, "auto")
  IN \A c \in hinted : Range(Of(c, ids)) \cap w.live \subseteq again[c].shown

(* What a read shows does not depend on how old a cached usergroup is while *)
(* the policy trusts the cache.                                             *)
CachedGroupsAreShown(w, ids) ==
  LET auto == ResolveReferenced(w, ids, "auto")
  IN \A id \in Range(Of("usergroups", ids)) \cap w.live :
       Within(w.age[id], EntryTTL) => id \in auto["usergroups"].shown
=============================================================================
