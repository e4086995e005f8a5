------------------------------ MODULE CacheTree ------------------------------
(***************************************************************************)
(* The cache directory as `cache info`, `cache purge` and `auth remove`    *)
(* see it: under <team>/<user> the category files, the emoji images and    *)
(* the downloads of one identity, and at the root what an older layout     *)
(* left.  The directory is a set of entries; a key is a pair <<team, user>>*)
(* and Root is the empty key, that of an identity not resolved yet, whose  *)
(* downloads and emoji images land at the root.                            *)
(***************************************************************************)
EXTENDS FiniteSets

Root == <<>>
Parts == {"categories", "emoji-images", "downloads"}

Entry(key, part) == [key |-> key, part |-> part]
Legacy == Entry(Root, "host-hash")      \* a directory of the older layout

(* IdentityCacheKey: no key unless both ids are there.                      *)
IdentityCacheKey(team, user) == IF team = "" \/ user = "" THEN Root ELSE <<team, user>>

(* downloadsDir, emojiImagesDir and openCache: where a command leaves       *)
(* things; nothing is cached without a key.                                 *)
LeftBy(key) == {Entry(key, part) : part \in IF key = Root THEN Parts \ {"categories"} ELSE Parts}

(* CachedIdentityKeys.                                                      *)
CachedIdentityKeys(tree) == {e.key : e \in tree} \ {Root}

(* InspectCacheDir and dirBytes: what `cache info` counts, of the selected  *)
(* identity or of all.                                                      *)
Reported(tree, keys) == {e \in tree : e.key \in keys /\ e.part # "emoji-images"}

(* PurgeCacheDir: everything but the downloads.                             *)
PurgeCacheDir(tree, key) ==
  IF key = Root THEN tree ELSE {e \in tree : e.key = key => e.part = "downloads"}

(* PurgeDownloads.                                                          *)
PurgeDownloads(tree, key) ==
  IF key = Root THEN tree ELSE tree \ {Entry(key, "downloads")}

(* PurgeIdentityDir, when the credential is removed.                        *)
PurgeIdentityDir(tree, key) == IF key = Root THEN tree ELSE {e \in tree : e.key # key}

(* purgeLegacyArtifacts, isLegacyArtifactName.                              *)
PurgeLegacyArtifacts(tree) == {e \in tree : e.key # Root}

(* PurgeAllCaches and PurgeAllDownloads: each identity in turn.             *)
PurgeAllCaches(tree) ==
  PurgeLegacyArtifacts({e \in tree : \A key \in CachedIdentityKeys(tree) :
                                        e \in PurgeCacheDir(tree, key)})
PurgeAllDownloads(tree) ==
  {e \in tree : \A key \in CachedIdentityKeys(tree) : e \in PurgeDownloads(tree, key)}

Done(tree) == [refused |-> FALSE, tree |-> tree]
Refused(tree) == [refused |-> TRUE, tree |-> tree]

(* requireSelectedIdentity: a command on one identity needs its key.        *)
Selected(tree, key, purged) == IF key = Root THEN Refused(tree) ELSE Done(purged)

(* purgeDownloads and purgeResolutionCache.                                 *)
ClearDownloads(tree, o, key) ==
  IF o.all THEN Done(PurgeAllDownloads(tree)) ELSE Selected(tree, key, PurgeDownloads(tree, key))
ClearResolution(tree, o, key) ==
  IF o.all THEN Done(PurgeAllCaches(tree)) ELSE Selected(tree, key, PurgeCacheDir(tree, key))

(* `cache purge`: --downloads alone clears only downloads.                  *)
CachePurge(tree, o, key) ==
  LET first == IF o.downloads THEN ClearDownloads(tree, o, key) ELSE Done(tree)
  IN IF first.refused \/ (o.downloads /\ ~o.all /\ ~o.workspace) THEN first
     ELSE ClearResolution(first.tree, o, key)

-----------------------------------------------------------------------------
(* A purge takes what its flags name and nothing else: no downloads of an   *)
(* identity without --downloads, no other identity's data without           *)
(* --all-workspaces, nothing at all when it is refused; and with both flags *)
(* it leaves nothing (registerCachePurge, PurgeAllCaches).                  *)
PurgeTakesWhatItNames(tree, o, key) ==
  LET left == CachePurge(tree, o, key)
      gone == tree \ left.tree
  IN /\ left.refused => gone = {}
     /\ \A e \in gone : e.key # Root =>
          /\ e.part = "downloads" => o.downloads
          /\ e.key # key => o.all
     /\ o.all /\ o.downloads => left.tree = {}
     /\ o.all => \A e \in left.tree : e.part = "downloads"

(* Removing an account takes all that its identity left and nothing that    *)
(* another did, and what is left can still be seen by `cache info` and      *)
(* cleared by a purge (the remove command, cacheWorkspaceLabels).           *)
RemovedIdentitiesLeaveNothing(tree, key) ==
  LET left == PurgeIdentityDir(tree, key)
  IN /\ key # Root => key \notin CachedIdentityKeys(left)
     /\ \A e \in tree : e.key # key => e \in left
     /\ {e \in left : e.key # Root /\ e.part # "emoji-images"} = Reported(left, CachedIdentityKeys(left))

(* The comment of PurgeAllCaches keeps each identity's downloads; those of  *)
(* an identity that was not resolved lie where the older layout had them.   *)
DownloadsAreKept(tree, o, key) ==
  ~o.downloads => {e \in tree : e.part = "downloads"} \subseteq CachePurge(tree, o, key).tree
=============================================================================
