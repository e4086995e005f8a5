--------------------------- MODULE KeptFilesProofs ---------------------------
(***************************************************************************)
(* What commands keep in files: the resolution cache, the settings and the *)
(* downloads, and the tree of the cache directory (Tree).                  *)
(*                                                                         *)
(* Of ResolutionCache, for any number of invocations, names and changes of *)
(* the workspace, three invariants, each on top of the one before it.      *)
(* LiveInv: what an invocation enumerated is or was there, and what it     *)
(* passed over was not.  EmojiInv: the file, and whoever will write it,    *)
(* trusts an enumeration younger than every change of the emoji, unless    *)
(* one overlapped it.  MissInv: while the mark is fresh, a name is held or *)
(* was missing; what an invocation saved before its mark is where the mark *)
(* will find it, in the file or with the one who writes it.                *)
(***************************************************************************)
EXTENDS ResolutionCache, LocalFiles, TLAPS

(* The types.                                                               *)
Data == [entries : [Names -> Nat], complete : Nat, from : Nat]

Answers == {"none", "found", "missing", "done", "error", "died"}

Locals ==
  [pc : Places, op : {"none", "lookup", "warm", "list", "purge", "mutate"},
   name : Names \cup {NoName}, mode : Modes \cup {"normal"}, snap : Data,
   stale : BOOLEAN, torn : BOOLEAN, page : Nat, seen : SUBSET Names, todo : SUBSET Names,
   mark : BOOLEAN, then : {"sweep", "mark", "found", "missing", "done"},
   from : Nat, began : Nat, started : Nat, floor : Nat, trust : Nat, result : Answers]

Types ==
  /\ kind \in Kinds /\ now \in Nat /\ now >= 1
  /\ worlds \in Seq(SUBSET Names) /\ Len(worlds) >= 1
  /\ index \in Data /\ lost \in BOOLEAN /\ blind \in BOOLEAN
  /\ settled \in Nat /\ loc \in [Procs -> Locals]

(* Between its start and its answer.                                        *)
Going(l) == l.pc \notin {"idle", "done"}

(* It has a file to write.                                                  *)
Filing(l) == l.pc \in {"open", "truncate", "write"}

(* Nothing is enumerated yet.                                               *)
Fresh(l) == l.seen = {} /\ l.page = 1

(* It began not long ago, and enumerates since no earlier than that.        *)
SpanOK(l) ==
  Going(l) => /\ 1 <= l.started /\ l.started <= l.from /\ l.from <= Len(worlds)
              /\ 1 <= l.began /\ l.began <= now /\ now - l.began <= Span
              /\ l.op # "none" /\ l.page >= 1
              /\ l.op \in {"lookup", "mutate"} => l.name \in Names

(* Which category gets where.                                               *)
PlaceOK(l) ==
  /\ l.pc = "email" => kind = "users"
  /\ l.pc = "complete" => kind # "emoji"
  /\ l.pc = "search" => kind = "channels"
  /\ l.pc = "mark" \/ (Filing(l) /\ l.then = "mark") => kind = "usergroups"
  /\ Filing(l) /\ l.then = "sweep" => kind = "channels" /\ ~l.mark
  /\ l.op = "mutate" \/ l.pc = "mutate" => kind = "emoji"
  /\ l.op = "list" => kind # "emoji"
  /\ Going(l) /\ l.op \in {"mutate", "purge"} => l.pc \in {"mutate", "forget"}
  /\ l.pc = "mutate" => l.op = "mutate"
  /\ l.pc = "forget" => l.op \in {"purge", "mutate"}
  /\ l.pc \in {"get", "email", "complete", "search", "mutate", "forget"} => Fresh(l)
  /\ l.pc \in {"get", "email", "complete", "search"} => l.op = "lookup"

(* What was enumerated is or was there, what was passed over was not.       *)
Covered(l) == \A n \in Names : n \in l.seen \/ Absent(n, l.from)

(* What is about to be answered or marked was enumerated.                   *)
SeenOK(l) ==
  Going(l) =>
    /\ \A n \in l.seen : Present(n, l.from)
    /\ \A i \in DOMAIN PageOrder :
         i < l.page => PageOrder[i] \in l.seen \/ Absent(PageOrder[i], l.from)
    /\ l.pc = "mark" \/ (Filing(l) /\ (l.then = "mark" \/ l.mark)) => Covered(l)
    /\ Filing(l) /\ l.op = "lookup" =>
         /\ l.then = "found" => Present(l.name, l.from)
         /\ l.then = "missing" => Absent(l.name, l.from)
         /\ l.then # "done"

(* An answer that was not read from the file.                               *)
LiveOK(l) ==
  l.pc = "done" =>
    /\ l.op = "lookup" /\ 1 <= l.started
    /\ l.mode # "normal" => /\ l.result = "found" => Present(l.name, l.started)
                            /\ l.result = "missing" => Absent(l.name, l.started)

LocalOK(l) == SpanOK(l) /\ PlaceOK(l) /\ SeenOK(l) /\ LiveOK(l)

LiveInv == Types /\ \A p \in Procs : LocalOK(loc[p])

-----------------------------------------------------------------------------
(* The file that is there before anything was saved.                        *)
LEMMA EmptyType == Empty \in Data
  BY DEF Empty, Data

(* The state of an invocation that does not run.                            *)
LEMMA IdleType == Idle \in Locals
  BY EmptyType DEF Idle, Locals, Places, Answers, NoName

(* An idle invocation owes nothing.                                         *)
LEMMA IdleOK == LocalOK(Idle)
  BY DEF LocalOK, SpanOK, PlaceOK, SeenOK, LiveOK, Going, Filing, Fresh, Idle, Covered

(* The first state.                                                         *)
LEMMA InitLive == Init => LiveInv
<1> SUFFICES ASSUME Init PROVE LiveInv
  OBVIOUS
<1> USE CacheAssumption
<1>1. worlds \in Seq(SUBSET Names) /\ Len(worlds) = 1
  BY DEF Init
<1>2. loc \in [Procs -> Locals]
  BY IdleType DEF Init
<1>3. Types
  <2>1. index \in Data /\ kind \in Kinds /\ lost \in BOOLEAN /\ blind \in BOOLEAN
    BY EmptyType DEF Init
  <2>2. now \in Nat /\ now >= 1 /\ settled \in Nat /\ Len(worlds) >= 1
    BY <1>1 DEF Init
  <2> QED
    BY <2>1, <2>2, <1>1, <1>2 DEF Types
<1>4. \A p \in Procs : LocalOK(loc[p])
  BY IdleOK DEF Init
<1> QED
  BY <1>3, <1>4 DEF LiveInv

(* A history only grows: what was so at an instant stays so.                 *)
LEMMA HistoryStays ==
  ASSUME worlds \in Seq(SUBSET Names), NEW w \in SUBSET Names,
         worlds' = worlds \/ worlds' = Append(worlds, w),
         NEW n, NEW k \in Nat, k >= 1
  PROVE  /\ Absent(n, k) => Absent(n, k)'
         /\ Present(n, k) => Present(n, k)'
         /\ Len(worlds) <= Len(worlds')
         /\ worlds' \in Seq(SUBSET Names)
<1>1. /\ Len(worlds) <= Len(worlds') /\ worlds' \in Seq(SUBSET Names)
      /\ \A i \in 1 .. Len(worlds) : worlds'[i] = worlds[i]
  OBVIOUS
<1>2. Len(worlds) \in Nat /\ Len(worlds') \in Nat
  BY <1>1
<1> QED
  BY <1>1, <1>2 DEF Absent, Present

(* What holds of an invocation goes on holding while others act.            *)
LEMMA LocalStays ==
  ASSUME Types, NEW l \in Locals, LocalOK(l), kind' = kind, NEW w \in SUBSET Names,
         worlds' = worlds \/ worlds' = Append(worlds, w),
         now' = now \/ (now' = now + 1 /\ (Going(l) => now - l.began < Span))
  PROVE  LocalOK(l)'
<1> USE CacheAssumption
<1>0. /\ worlds \in Seq(SUBSET Names) /\ now \in Nat /\ Len(worlds) \in Nat
      /\ Len(worlds') \in Nat /\ Len(worlds) <= Len(worlds')
  BY HistoryStays DEF Types
<1>1. l.from \in Nat /\ l.began \in Nat /\ l.started \in Nat
  BY DEF Locals
<1>2. \A n, k : k \in Nat /\ k >= 1 =>
        (Absent(n, k) => Absent(n, k)') /\ (Present(n, k) => Present(n, k)')
  BY <1>0, HistoryStays
<1>3. SpanOK(l)'
  BY <1>0, <1>1 DEF LocalOK, SpanOK, Going
<1>4. PlaceOK(l)'
  BY DEF LocalOK, PlaceOK, Filing, Going, Fresh
<1>5. SeenOK(l)'
  <2> SUFFICES ASSUME Going(l) PROVE SeenOK(l)'
    BY DEF SeenOK, Going
  <2>1. l.from >= 1
    BY <1>1 DEF LocalOK, SpanOK
  <2> QED
    BY <2>1, <1>1, <1>2 DEF LocalOK, SeenOK, Going, Filing, Covered
<1>6. LiveOK(l)'
  BY <1>1, <1>2 DEF LocalOK, LiveOK
<1> QED
  BY <1>3, <1>4, <1>5, <1>6 DEF LocalOK

-----------------------------------------------------------------------------
(* What was so since an instant was so since an earlier one.                *)
LEMMA SinceEarlier ==
  ASSUME Types, NEW n, NEW j \in Nat, NEW k \in Nat, j <= k
  PROVE  (Absent(n, k) => Absent(n, j)) /\ (Present(n, k) => Present(n, j))
<1>1. Len(worlds) \in Nat
  BY DEF Types
<1> QED
  BY <1>1 DEF Absent, Present

(* What is so now was so since any instant there was.                       *)
LEMMA SoNow ==
  ASSUME Types, NEW n, NEW k \in Nat, k <= Len(worlds)
  PROVE  (n \in World => Present(n, k)) /\ (n \notin World => Absent(n, k)) /\ World \subseteq Names
<1>1. Len(worlds) \in Nat /\ Len(worlds) \in k .. Len(worlds) /\ Len(worlds) \in 1 .. Len(worlds)
  BY DEF Types
<1>2. worlds[Len(worlds)] \in SUBSET Names
  BY <1>1 DEF Types
<1> QED
  BY <1>1, <1>2 DEF World, Absent, Present

(* An answer that is true since the command began is one to keep.           *)
LEMMA EndedOK ==
  ASSUME Types, NEW l \in Locals, LocalOK(l), Going(l),
         NEW result \in Answers, NEW trust \in Nat,
         l.op = "lookup" /\ l.mode # "normal" =>
           /\ result = "found" => Present(l.name, l.from)
           /\ result = "missing" => Absent(l.name, l.from)
  PROVE  Ended(l, result, trust) \in Locals /\ LocalOK(Ended(l, result, trust))
<1>1. CASE l.op # "lookup"
  BY <1>1, IdleType, IdleOK DEF Ended
<1>2. CASE l.op = "lookup"
  <2> DEFINE m == [Idle EXCEPT !.pc = "done", !.op = l.op, !.name = l.name, !.mode = l.mode,
                     !.started = l.started, !.floor = l.floor, !.torn = l.torn,
                     !.result = result, !.trust = trust]
  <2>1. Ended(l, result, trust) = m
    BY <1>2 DEF Ended
  <2>2. /\ m.pc = "done" /\ m.op = "lookup" /\ m.name = l.name /\ m.mode = l.mode
        /\ m.started = l.started /\ m.result = result
    BY <1>2, IdleType DEF Locals
  <2>3. m \in Locals
    <3>1. /\ l.op \in {"none", "lookup", "warm", "list", "purge", "mutate"}
          /\ l.name \in Names \cup {NoName} /\ l.mode \in Modes \cup {"normal"}
          /\ l.started \in Nat /\ l.floor \in Nat /\ l.torn \in BOOLEAN
      BY DEF Locals
    <3>2. "done" \in Places
      BY DEF Places
    <3> HIDE DEF Locals
    <3> QED
      BY <3>1, <3>2, IdleType DEF Locals
  <2>4. l.started \in Nat /\ l.from \in Nat /\ 1 <= l.started /\ l.started <= l.from
    BY DEF Locals, LocalOK, SpanOK
  <2>5. LiveOK(m)
    BY <2>2, <2>4, <1>2, SinceEarlier DEF LiveOK
  <2>6. SpanOK(m) /\ PlaceOK(m) /\ SeenOK(m)
    BY <2>2 DEF SpanOK, PlaceOK, SeenOK, Going, Filing
  <2> HIDE DEF m
  <2> QED
    BY <2>1, <2>3, <2>5, <2>6 DEF LocalOK
<1> QED
  BY <1>1, <1>2

(* After a save the enumeration goes on, or the command ends.               *)
LEMMA ResumeOK ==
  ASSUME Types, NEW l \in Locals, LocalOK(l), Filing(l)
  PROVE  Resume(l) \in Locals /\ LocalOK(Resume(l))
<1>0. Going(l)
  BY DEF Going, Filing
<1>1. CASE l.then \in {"sweep", "mark"}
  <2> DEFINE m == [l EXCEPT !.pc = l.then, !.snap = Empty, !.todo = {}, !.stale = FALSE]
  <2>1. Resume(l) = m
    BY <1>1 DEF Resume
  <2>2. /\ m.pc = l.then /\ m.seen = l.seen /\ m.page = l.page /\ m.from = l.from
        /\ m.op = l.op /\ m.name = l.name /\ m.began = l.began /\ m.started = l.started
        /\ m.mark = l.mark
    BY DEF Locals
  <2>3. m \in Locals
    BY <1>1, EmptyType DEF Locals, Places
  <2> HIDE DEF m
  <2>4. SpanOK(m)
    BY <2>2, <1>0, <1>1 DEF LocalOK, SpanOK, Going
  <2>5. PlaceOK(m)
    BY <2>2, <1>0, <1>1 DEF LocalOK, PlaceOK, Filing, Going, Fresh
  <2>6. SeenOK(m)
    BY <2>2, <1>0, <1>1 DEF LocalOK, SeenOK, Filing, Going, Covered
  <2>7. LiveOK(m)
    BY <2>2, <1>1 DEF LiveOK
  <2> QED
    BY <2>1, <2>3, <2>4, <2>5, <2>6, <2>7 DEF LocalOK
<1>2. CASE l.then \notin {"sweep", "mark"}
  <2>1. Resume(l) = Ended(l, l.then, l.from)
    BY <1>2 DEF Resume
  <2>2. l.then \in Answers /\ l.from \in Nat
    BY <1>2 DEF Locals, Answers
  <2>3. l.op = "lookup" => /\ l.then = "found" => Present(l.name, l.from)
                           /\ l.then = "missing" => Absent(l.name, l.from)
    BY <1>0 DEF LocalOK, SeenOK
  <2> QED
    BY <2>1, <2>2, <2>3, <1>0, EndedOK
<1> QED
  BY <1>1, <1>2

(* Where a save starts from.                                                *)
Stored(l, m) ==
  /\ m.pc = "open" /\ m.seen = l.seen /\ m.from = l.from /\ m.began = l.began /\ m.op = l.op
  /\ m.mode = l.mode /\ m.name = l.name /\ m.floor = l.floor /\ m.page = l.page
  /\ m.started = l.started

(* Store leaves alone what it does not name.                                *)
LEMMA StoreFields ==
  ASSUME NEW l \in Locals, NEW todo \in SUBSET Names, NEW mark \in BOOLEAN,
         NEW then \in {"sweep", "mark", "found", "missing", "done"},
         NEW m, m = Store(l, todo, mark, then)
  PROVE  m \in Locals /\ Stored(l, m) /\ m.todo = todo /\ m.mark = mark /\ m.then = then
<1>1. m \in Locals
  BY DEF Locals, Store, Places
<1> QED
  BY <1>1 DEF Locals, Store, Stored

(* A save may start where what it will answer or mark is known.             *)
LEMMA StoreOK ==
  ASSUME Types, NEW l \in Locals, LocalOK(l), Going(l), l.op # "mutate", l.op # "purge",
         NEW m \in Locals, Stored(l, m),
         m.then = "mark" => kind = "usergroups",
         m.then = "sweep" => kind = "channels" /\ ~m.mark,
         m.then = "mark" \/ m.mark => Covered(l),
         l.op = "lookup" => /\ m.then = "found" => Present(l.name, l.from)
                            /\ m.then = "missing" => Absent(l.name, l.from)
                            /\ m.then # "done"
  PROVE  LocalOK(m)
<1> USE DEF Stored
<1>3. SpanOK(m)
  BY DEF LocalOK, SpanOK, Going
<1>4. PlaceOK(m)
  BY DEF LocalOK, PlaceOK, Filing, Going
<1>5. SeenOK(m)
  BY DEF LocalOK, SeenOK, Filing, Going, Covered
<1>6. LiveOK(m)
  BY DEF LiveOK
<1> QED
  BY <1>3, <1>4, <1>5, <1>6 DEF LocalOK

-----------------------------------------------------------------------------
(* An invocation that looks, asks or is answered, with the workspace and    *)
(* the file as they are.                                                    *)
Quiet(p) ==
  \/ LookIn(p) \/ CachedEmojiSet(p) \/ EmailLookup(p) \/ AuthoritativeMiss(p)
  \/ ChannelIDViaSearch(p) \/ Page(p) \/ MatchFound(p) \/ WarmTogether(p)
  \/ FetchUsergroups(p) \/ MarkApart(p) \/ SweepFails(p) \/ OpenCache(p) \/ Die(p) \/ End(p)

(* The record an invocation has, and what is known of it.                   *)
LEMMA OneOf ==
  ASSUME LiveInv, NEW p \in Procs
  PROVE  loc[p] \in Locals /\ LocalOK(loc[p]) /\ Types
BY DEF LiveInv, Types

(* The index is not read under --refresh-cache and --no-cache.              *)
LEMMA LookInLocal ==
  ASSUME LiveInv, NEW p \in Procs, LookIn(p)
  PROVE  \E m \in Locals : LocalOK(m) /\ Become(p, m)
<1> PICK l \in Locals : l = loc[p] /\ LocalOK(l) /\ Types
  BY OneOf
<1>1. l.pc = "get" /\ kind # "emoji" /\ Going(l)
  BY DEF LookIn, Going
<1>2. CASE Get(index, l.name, l.mode)
  <2>1. Become(p, Ended(l, "found", index.from))
    BY <1>2 DEF LookIn, Answer
  <2>2. l.mode = "normal" /\ index.from \in Nat /\ "found" \in Answers
    BY <1>2 DEF Get, Reads, Types, Data, Answers
  <2> QED
    BY <2>1, <2>2, <1>1, EndedOK
<1>3. CASE ~Get(index, l.name, l.mode)
  <2> PICK pc \in {"email", "complete"} :
        pc = IF kind = "users" /\ l.name \in Emails THEN "email" ELSE "complete"
    OBVIOUS
  <2> DEFINE m == [l EXCEPT !.stale = FALSE, !.pc = pc]
  <2>1. Become(p, m)
    BY <1>3 DEF LookIn
  <2>2. m \in Locals /\ m.pc = pc
    BY DEF Locals, Places
  <2>3. /\ m.seen = l.seen /\ m.page = l.page /\ m.from = l.from /\ m.op = l.op
        /\ m.name = l.name /\ m.began = l.began /\ m.started = l.started
    BY DEF Locals
  <2> HIDE DEF m
  <2>4. LocalOK(m)
    BY <2>2, <2>3, <1>1
       DEF LocalOK, SpanOK, PlaceOK, SeenOK, LiveOK, Going, Filing, Fresh
  <2> QED
    BY <2>1, <2>2, <2>4
<1> QED
  BY <1>2, <1>3

(* An enumeration begins now.                                               *)
LEMMA BeginsNow ==
  ASSUME Types, NEW l \in Locals, LocalOK(l), l.pc \in {"get", "complete", "search"},
         NEW pc \in {"sweep", "search"}, pc = "search" => kind = "channels"
  PROVE  LET m == [l EXCEPT !.pc = pc, !.from = Len(worlds)]
         IN m \in Locals /\ LocalOK(m)
<1> DEFINE m == [l EXCEPT !.pc = pc, !.from = Len(worlds)]
<1>0. Len(worlds) \in Nat
  BY DEF Types
<1>1. m \in Locals
  BY <1>0 DEF Locals, Places
<1>2. /\ m.pc = pc /\ m.seen = l.seen /\ m.page = l.page /\ m.from = Len(worlds) /\ m.op = l.op
      /\ m.name = l.name /\ m.began = l.began /\ m.started = l.started
  BY DEF Locals
<1>3. Len(worlds) \in Nat /\ l.from \in Nat /\ l.started \in Nat
  BY DEF Types, Locals
<1> HIDE DEF m
<1>4. SpanOK(m)
  BY <1>2, <1>3 DEF LocalOK, SpanOK, Going
<1>5. PlaceOK(m)
  BY <1>2 DEF LocalOK, PlaceOK, Going, Filing, Fresh
<1>6. SeenOK(m) /\ LiveOK(m)
  <2>1. l.seen = {} /\ l.page = 1
    BY DEF LocalOK, PlaceOK, Fresh
  <2>2. \A i \in DOMAIN PageOrder : ~(i < m.page)
    BY <1>2, <2>1, CacheAssumption
  <2> QED
    BY <1>2, <2>1, <2>2 DEF SeenOK, LiveOK, Filing
<1> QED
  BY <1>1, <1>4, <1>5, <1>6 DEF LocalOK, m

(* The emoji set is answered from the file only under a fresh mark.         *)
LEMMA CachedEmojiSetLocal ==
  ASSUME LiveInv, NEW p \in Procs, CachedEmojiSet(p)
  PROVE  \E m \in Locals : LocalOK(m) /\ Become(p, m)
<1> PICK l \in Locals : l = loc[p] /\ LocalOK(l) /\ Types
  BY OneOf
<1>1. l.pc = "get" /\ Going(l)
  BY DEF CachedEmojiSet, Going
<1>2. CASE IsComplete(index, l.mode)
  <2> PICK r \in Answers : Become(p, Ended(l, r, index.from))
    BY <1>2 DEF CachedEmojiSet, Answer, Answers
  <2>1. l.mode = "normal" /\ index.from \in Nat
    BY <1>2 DEF IsComplete, Reads, Types, Data
  <2> QED
    BY <2>1, <1>1, EndedOK
<1>3. CASE ~IsComplete(index, l.mode)
  BY <1>3, <1>1, BeginsNow DEF CachedEmojiSet
<1> QED
  BY <1>2, <1>3

(* An address that was found there is kept.                                 *)
LEMMA EmailLookupLocal ==
  ASSUME LiveInv, NEW p \in Procs, EmailLookup(p)
  PROVE  \E m \in Locals : LocalOK(m) /\ Become(p, m)
<1> PICK l \in Locals : l = loc[p] /\ LocalOK(l) /\ Types
  BY OneOf
<1>1. l.pc = "email" /\ Going(l) /\ l.op = "lookup" /\ kind = "users"
  BY DEF EmailLookup, Going, LocalOK, PlaceOK
<1>2. CASE l.name \in World /\ Become(p, Store(l, {l.name}, FALSE, "found"))
  <2>1. Present(l.name, l.from) /\ {l.name} \in SUBSET Names
    BY <1>2, <1>1, SoNow DEF LocalOK, SpanOK, Locals
  <2> PICK m : m = Store(l, {l.name}, FALSE, "found")
    OBVIOUS
  <2>2. m \in Locals /\ Stored(l, m) /\ ~m.mark /\ m.then = "found"
    <3> PICK todo \in SUBSET Names : todo = {l.name}
      BY <2>1
    <3>0. m = Store(l, todo, FALSE, "found")
      OBVIOUS
    <3>1. m \in Locals
      BY ONLY <3>0, l \in Locals, todo \in SUBSET Names DEF Locals, Store, Places
    <3> QED
      BY <3>1 DEF Locals, Store, Stored
  <2>3. LocalOK(m)
    BY <2>1, <2>2, <1>1, StoreOK
  <2> QED
    BY <2>2, <2>3, <1>2
<1>3. CASE Become(p, [l EXCEPT !.pc = "complete"])
  <2> DEFINE m == [l EXCEPT !.pc = "complete"]
  <2>1. m \in Locals
    BY DEF Locals, Places
  <2>2. /\ m.pc = "complete" /\ m.seen = l.seen /\ m.page = l.page /\ m.from = l.from
        /\ m.op = l.op /\ m.name = l.name /\ m.began = l.began /\ m.started = l.started
    BY DEF Locals
  <2> HIDE DEF m
  <2>3. LocalOK(m)
    BY <2>2, <1>1 DEF LocalOK, SpanOK, PlaceOK, SeenOK, LiveOK, Going, Filing, Fresh
  <2> QED
    BY <2>1, <2>3, <1>3 DEF m
<1> QED
  BY <1>2, <1>3 DEF EmailLookup

(* A miss is answered from the mark in normal mode only.                    *)
LEMMA AuthoritativeMissLocal ==
  ASSUME LiveInv, NEW p \in Procs, AuthoritativeMiss(p)
  PROVE  \E m \in Locals : LocalOK(m) /\ Become(p, m)
<1> PICK l \in Locals : l = loc[p] /\ LocalOK(l) /\ Types
  BY OneOf
<1>1. l.pc = "complete" /\ Going(l)
  BY DEF AuthoritativeMiss, Going
<1>2. CASE IsComplete(index, l.mode)
  <2> DEFINE k == [l EXCEPT !.torn = @ \/ l.stale]
  <2>1. Become(p, Ended(k, "missing", index.from))
    BY <1>2 DEF AuthoritativeMiss
  <2>2. k \in Locals
    <3>1. (l.torn \/ l.stale) \in BOOLEAN
      BY DEF Locals
    <3> QED
      BY <3>1 DEF Locals
  <2>3. /\ k.pc = l.pc /\ k.seen = l.seen /\ k.page = l.page /\ k.from = l.from
        /\ k.op = l.op /\ k.name = l.name /\ k.began = l.began /\ k.started = l.started
        /\ k.mode = l.mode
    BY DEF Locals
  <2> HIDE DEF k
  <2>4. LocalOK(k) /\ Going(k)
    BY <2>3, <1>1 DEF LocalOK, SpanOK, PlaceOK, SeenOK, LiveOK, Going, Filing, Fresh
  <2>5. l.mode = "normal" /\ index.from \in Nat /\ "missing" \in Answers
    BY <1>2 DEF IsComplete, Reads, Types, Data, Answers
  <2> QED
    BY <2>1, <2>2, <2>3, <2>4, <2>5, EndedOK
<1>3. CASE ~IsComplete(index, l.mode)
  <2> PICK pc \in {"sweep", "search"} : pc = IF kind = "channels" THEN "search" ELSE "sweep"
    OBVIOUS
  <2>1. Become(p, [l EXCEPT !.pc = pc, !.from = Len(worlds)])
    BY <1>3 DEF AuthoritativeMiss
  <2> QED
    BY <2>1, <1>1, BeginsNow
<1> QED
  BY <1>2, <1>3

(* A channel that a search found is kept.                                   *)
LEMMA SearchLocal ==
  ASSUME LiveInv, NEW p \in Procs, ChannelIDViaSearch(p)
  PROVE  \E m \in Locals : LocalOK(m) /\ Become(p, m)
<1> PICK l \in Locals : l = loc[p] /\ LocalOK(l) /\ Types
  BY OneOf
<1>1. l.pc = "search" /\ Going(l) /\ l.op = "lookup"
  BY DEF ChannelIDViaSearch, Going, LocalOK, PlaceOK
<1>2. CASE l.name \in World /\ Become(p, Store(l, {l.name}, FALSE, "found"))
  <2>1. Present(l.name, l.from) /\ {l.name} \in SUBSET Names
    BY <1>2, <1>1, SoNow DEF LocalOK, SpanOK, Locals
  <2> PICK m : m = Store(l, {l.name}, FALSE, "found")
    OBVIOUS
  <2>2. m \in Locals /\ Stored(l, m) /\ ~m.mark /\ m.then = "found"
    <3> PICK todo \in SUBSET Names : todo = {l.name}
      BY <2>1
    <3>0. m = Store(l, todo, FALSE, "found")
      OBVIOUS
    <3>1. m \in Locals
      BY ONLY <3>0, l \in Locals, todo \in SUBSET Names DEF Locals, Store, Places
    <3> QED
      BY <3>1 DEF Locals, Store, Stored
  <2>3. LocalOK(m)
    BY <2>1, <2>2, <1>1, StoreOK
  <2> QED
    BY <2>2, <2>3, <1>2
<1>3. CASE Become(p, [l EXCEPT !.pc = "sweep", !.from = Len(worlds)])
  BY <1>3, <1>1, BeginsNow
<1> QED
  BY <1>2, <1>3 DEF ChannelIDViaSearch

(* A page lists what it finds at the time.                                   *)
LEMMA PageLocal ==
  ASSUME LiveInv, NEW p \in Procs, Page(p)
  PROVE  \E m \in Locals : LocalOK(m) /\ Become(p, m)
<1> PICK l \in Locals : l = loc[p] /\ LocalOK(l) /\ Types
  BY OneOf
<1>1. l.pc = "sweep" /\ Going(l) /\ kind # "usergroups" /\ l.op \notin {"mutate", "purge"}
  BY DEF Page, Going, LocalOK, PlaceOK
<1>2. l.page \in DOMAIN PageOrder /\ PageOrder[l.page] \in Names
  <2>1. Len(PageOrder) \in Nat /\ DOMAIN PageOrder = 1 .. Len(PageOrder)
    BY CacheAssumption
  <2>2. l.page \in Nat /\ l.page >= 1 /\ l.page <= Len(PageOrder)
    BY <1>1, <2>1 DEF Page, AtEnd, LocalOK, SpanOK, Locals
  <2> QED
    BY <2>1, <2>2 DEF Names
<1> PICK n \in Names : n = PageOrder[l.page]
  BY <1>2
<1> PICK seen \in SUBSET Names : seen = IF n \in World THEN l.seen \cup {n} ELSE l.seen
  BY DEF Locals
<1> PICK page \in Nat : page = l.page + 1
  BY DEF Locals
<1> PICK k : k = [l EXCEPT !.page = page, !.seen = seen]
  OBVIOUS
<1>3. k \in Locals
  BY DEF Locals
<1>4. /\ k.pc = "sweep" /\ k.page = l.page + 1 /\ k.seen = seen /\ k.op = l.op /\ k.from = l.from
      /\ k.name = l.name /\ k.began = l.began /\ k.started = l.started
  BY <1>1 DEF Locals
<1>5. l.page \in Nat /\ DOMAIN PageOrder \subseteq Nat /\ l.from \in Nat
  BY CacheAssumption DEF Locals
<1>6. LocalOK(k)
  <2>1. SpanOK(k)
    BY <1>1, <1>4, <1>5 DEF LocalOK, SpanOK, Going
  <2>2. PlaceOK(k) /\ LiveOK(k)
    BY <1>1, <1>4 DEF LocalOK, PlaceOK, LiveOK, Going, Filing
  <2>3. SeenOK(k)
    <3>1. l.from <= Len(worlds)
      BY <1>1 DEF LocalOK, SpanOK
    <3>2. (n \in World => Present(n, l.from)) /\ (n \notin World => Absent(n, l.from))
      BY <3>1, <1>5, SoNow
    <3>3. \A a \in seen : Present(a, l.from)
      BY <3>2, <1>1 DEF LocalOK, SeenOK
    <3>4. ASSUME NEW i \in DOMAIN PageOrder, i < l.page + 1
          PROVE  PageOrder[i] \in seen \/ Absent(PageOrder[i], l.from)
      <4>1. CASE i = l.page
        BY <4>1, <3>2
      <4>2. CASE i # l.page
        <5>1. i < l.page
          BY <3>4, <4>2, <1>5
        <5> QED
          BY <5>1, <1>1 DEF LocalOK, SeenOK
      <4> QED
        BY <4>1, <4>2
    <3> QED
      BY <3>3, <3>4, <1>4 DEF SeenOK, Filing
  <2> QED
    BY <2>1, <2>2, <2>3 DEF LocalOK
<1>7. Become(p, IF kind = "channels" /\ n \in World THEN Store(k, {n} \cap Listed(k), FALSE, "sweep")
                ELSE k)
  BY DEF Page
<1>8. CASE kind = "channels" /\ n \in World
  <2> PICK todo \in SUBSET Names : todo = {n} \cap Listed(k)
    OBVIOUS
  <2> PICK m : m = Store(k, todo, FALSE, "sweep")
    OBVIOUS
  <2>1. m \in Locals
    BY ONLY m = Store(k, todo, FALSE, "sweep"), <1>3, todo \in SUBSET Names DEF Locals, Store, Places
  <2>2. Stored(k, m) /\ ~m.mark /\ m.then = "sweep"
    BY ONLY m = Store(k, todo, FALSE, "sweep"), <1>3 DEF Locals, Store, Stored
  <2>3. Going(k)
    BY <1>4 DEF Going
  <2>4. LocalOK(m)
    BY <2>1, <2>2, <2>3, <1>1, <1>3, <1>4, <1>6, <1>8, StoreOK
  <2> QED
    BY <2>1, <2>4, <1>7, <1>8
<1> QED
  BY <1>3, <1>6, <1>7, <1>8

(* A match is kept under its name.                                          *)
LEMMA MatchLocal ==
  ASSUME LiveInv, NEW p \in Procs, MatchFound(p)
  PROVE  \E m \in Locals : LocalOK(m) /\ Become(p, m)
<1> PICK l \in Locals : l = loc[p] /\ LocalOK(l) /\ Types
  BY OneOf
<1>1. l.pc = "sweep" /\ Going(l) /\ l.op = "lookup" /\ l.name \in l.seen
  BY DEF MatchFound, Matched, Going
<1>2. Present(l.name, l.from)
  BY <1>1 DEF LocalOK, SeenOK
<1> PICK todo \in SUBSET Names : todo = {l.name}
  BY <1>1 DEF Locals
<1> PICK m : m = Store(l, todo, FALSE, "found")
  OBVIOUS
<1>3. m \in Locals
  BY ONLY m = Store(l, todo, FALSE, "found"), l \in Locals, todo \in SUBSET Names
     DEF Locals, Store, Places
<1>4. Stored(l, m) /\ ~m.mark /\ m.then = "found"
  BY ONLY m = Store(l, todo, FALSE, "found"), l \in Locals DEF Locals, Store, Stored
<1>5. LocalOK(m)
  BY <1>1, <1>2, <1>3, <1>4, StoreOK
<1> QED
  BY <1>3, <1>5 DEF MatchFound

(* Past the last page every name was seen, or was missing when its page     *)
(* came.                                                                    *)
LEMMA AllCovered ==
  ASSUME NEW l \in Locals, SeenOK(l), Going(l), l.page > Len(PageOrder)
  PROVE  Covered(l)
<1> SUFFICES ASSUME NEW n \in Names PROVE n \in l.seen \/ Absent(n, l.from)
  BY DEF Covered
<1> PICK i \in DOMAIN PageOrder : n = PageOrder[i]
  BY DEF Names
<1>1. i < l.page
  BY CacheAssumption DEF Locals
<1> QED
  BY <1>1 DEF SeenOK

(* What an enumeration that covered everything answers.                     *)
LEMMA OutcomeTrue ==
  ASSUME NEW l \in Locals, LocalOK(l), Going(l), Covered(l)
  PROVE  /\ Outcome(l) \in {"found", "missing", "done"}
         /\ l.op = "lookup" => /\ Outcome(l) = "found" => Present(l.name, l.from)
                               /\ Outcome(l) = "missing" => Absent(l.name, l.from)
                               /\ Outcome(l) # "done"
<1>1. l.op = "lookup" => l.name \in Names
  BY DEF LocalOK, SpanOK
<1>2. \A n \in l.seen : Present(n, l.from)
  BY DEF LocalOK, SeenOK
<1> QED
  BY <1>1, <1>2 DEF Covered, Outcome

(* Users and emoji are saved together with the mark.                        *)
LEMMA WarmTogetherLocal ==
  ASSUME LiveInv, NEW p \in Procs, WarmTogether(p)
  PROVE  \E m \in Locals : LocalOK(m) /\ Become(p, m)
<1> PICK l \in Locals : l = loc[p] /\ LocalOK(l) /\ Types
  BY OneOf
<1>1. l.pc = "sweep" /\ Going(l) /\ l.page > Len(PageOrder) /\ l.op \notin {"mutate", "purge"}
  BY DEF WarmTogether, AtEnd, Going, LocalOK, PlaceOK
<1>2. Covered(l)
  BY <1>1, AllCovered DEF LocalOK
<1> PICK todo \in SUBSET Names :
      todo = Listed(l) \ (IF kind = "users" THEN Emails ELSE {})
  BY DEF Listed, Locals
<1> PICK mark \in BOOLEAN : mark = Enumerates(l)
  BY DEF Enumerates
<1> PICK then \in {"found", "missing", "done"} : then = Outcome(l)
  BY <1>1, <1>2, OutcomeTrue
<1> PICK m : m = Store(l, todo, mark, then)
  OBVIOUS
<1>3. Become(p, m)
  BY DEF WarmTogether
<1>4. m \in Locals
  BY ONLY m = Store(l, todo, mark, then), l \in Locals, todo \in SUBSET Names, mark \in BOOLEAN,
          then \in {"found", "missing", "done"} DEF Locals, Store, Places
<1>5. Stored(l, m) /\ m.then = then
  BY ONLY m = Store(l, todo, mark, then), l \in Locals DEF Locals, Store, Stored
<1>6. LocalOK(m)
  BY <1>1, <1>2, <1>4, <1>5, OutcomeTrue, StoreOK
<1> QED
  BY <1>3, <1>4, <1>6

(* Usergroups come in one answer.                                           *)
LEMMA FetchLocal ==
  ASSUME LiveInv, NEW p \in Procs, FetchUsergroups(p)
  PROVE  \E m \in Locals : LocalOK(m) /\ Become(p, m)
<1> PICK l \in Locals : l = loc[p] /\ LocalOK(l) /\ Types
  BY OneOf
<1>1. /\ l.pc = "sweep" /\ kind = "usergroups" /\ Going(l) /\ l.op \notin {"mutate", "purge"}
      /\ l.from \in Nat /\ l.from <= Len(worlds)
  BY DEF FetchUsergroups, Going, LocalOK, PlaceOK, SpanOK, Locals
<1>2. World \subseteq Names
  BY <1>1, SoNow
<1> PICK k : k = [l EXCEPT !.seen = World]
  OBVIOUS
<1>3. k \in Locals
  BY <1>2 DEF Locals
<1>4. /\ k.pc = "sweep" /\ k.page = l.page /\ k.seen = World /\ k.op = l.op /\ k.from = l.from
      /\ k.name = l.name /\ k.began = l.began /\ k.started = l.started
  BY <1>1 DEF Locals
<1>5. Covered(k) /\ \A n \in k.seen : Present(n, k.from)
  BY <1>1, <1>4, SoNow DEF Covered
<1>6. LocalOK(k) /\ Going(k)
  <2>1. SpanOK(k) /\ PlaceOK(k) /\ LiveOK(k) /\ Going(k)
    BY <1>1, <1>4 DEF LocalOK, SpanOK, PlaceOK, LiveOK, Going, Filing
  <2>2. \A i \in DOMAIN PageOrder : PageOrder[i] \in Names
    BY DEF Names
  <2>3. SeenOK(k)
    BY <2>2, <1>4, <1>5 DEF SeenOK, Covered, Filing
  <2> QED
    BY <2>1, <2>3 DEF LocalOK
<1> PICK todo \in SUBSET Names : todo = Listed(k)
  BY <1>3 DEF Listed, Locals
<1> PICK m : m = Store(k, todo, FALSE, "mark")
  OBVIOUS
<1>7. Become(p, m)
  BY DEF FetchUsergroups
<1>8. m \in Locals
  BY ONLY m = Store(k, todo, FALSE, "mark"), <1>3, todo \in SUBSET Names DEF Locals, Store, Places
<1>9. Stored(k, m) /\ ~m.mark /\ m.then = "mark"
  BY ONLY m = Store(k, todo, FALSE, "mark"), <1>3 DEF Locals, Store, Stored
<1>10. LocalOK(m)
  BY <1>1, <1>3, <1>4, <1>5, <1>6, <1>8, <1>9, StoreOK
<1> QED
  BY <1>7, <1>8, <1>10

(* The mark of channels and usergroups is a save of its own.                *)
LEMMA MarkApartLocal ==
  ASSUME LiveInv, NEW p \in Procs, MarkApart(p)
  PROVE  \E m \in Locals : LocalOK(m) /\ Become(p, m)
<1> PICK l \in Locals : l = loc[p] /\ LocalOK(l) /\ Types
  BY OneOf
<1>1. Going(l) /\ l.op \notin {"mutate", "purge"}
  BY DEF MarkApart, Going, LocalOK, PlaceOK
<1>2. Covered(l)
  <2>1. CASE l.pc = "mark"
    BY <2>1, <1>1 DEF LocalOK, SeenOK
  <2>2. CASE l.pc # "mark"
    <3>1. l.page > Len(PageOrder)
      BY <2>2 DEF MarkApart, AtEnd
    <3> QED
      BY <3>1, <1>1, AllCovered DEF LocalOK
  <2> QED
    BY <2>1, <2>2
<1> PICK then \in {"found", "missing", "done"} : then = Outcome(l)
  BY <1>1, <1>2, OutcomeTrue
<1>3. CASE Enumerates(l)
  <2> PICK m : m = Store(l, {}, TRUE, then)
    OBVIOUS
  <2>1. m \in Locals
    BY ONLY m = Store(l, {}, TRUE, then), l \in Locals,
            then \in {"found", "missing", "done"} DEF Locals, Store, Places
  <2>2. Stored(l, m) /\ m.then = then
    BY ONLY m = Store(l, {}, TRUE, then), l \in Locals DEF Locals, Store, Stored
  <2>3. LocalOK(m)
    BY <2>1, <2>2, <1>1, <1>2, OutcomeTrue, StoreOK
  <2> QED
    BY <1>3, <2>1, <2>3 DEF MarkApart
<1>4. CASE ~Enumerates(l)
  <2>1. Become(p, Ended(l, then, l.from))
    BY <1>4 DEF MarkApart, Answer
  <2>2. l.from \in Nat /\ then \in Answers
    BY DEF Locals, Answers
  <2> QED
    BY <2>1, <2>2, <1>1, <1>2, OutcomeTrue, EndedOK
<1> QED
  BY <1>3, <1>4

(* An error says nothing of any name.                                       *)
LEMMA BrokenOffLocal ==
  ASSUME LiveInv, NEW p \in Procs, Going(loc[p]), NEW r \in {"error", "died"},
         Answer(p, r, loc[p].from)
  PROVE  \E m \in Locals : LocalOK(m) /\ Become(p, m)
<1> PICK l \in Locals : l = loc[p] /\ LocalOK(l) /\ Types
  BY OneOf
<1>1. l.from \in Nat /\ r \in Answers /\ r \notin {"found", "missing"}
  BY DEF Locals, Answers
<1> QED
  BY <1>1, EndedOK DEF Answer

(* What a save will write.                                                  *)
LEMMA ChangedType ==
  ASSUME Types, NEW data \in Data, NEW l \in Locals
  PROVE  Changed(data, l) \in Data
<1>1. now \in Nat /\ data.complete \in Nat /\ data.from \in Nat /\ l.from \in Nat
  BY DEF Types, Data, Locals
<1>2. \A n \in Names : data.entries[n] \in Nat
  BY DEF Data
<1>3. [n \in Names |-> IF n \in l.todo THEN now ELSE data.entries[n]] \in [Names -> Nat]
  BY <1>1, <1>2
<1>4. \A e \in [Names -> Nat] : PruneExpired(e) \in [Names -> Nat]
  BY DEF PruneExpired
<1>5. PruneExpired([n \in Names |-> IF n \in l.todo THEN now ELSE data.entries[n]]) \in [Names -> Nat]
  BY <1>3, <1>4
<1> QED
  BY <1>1, <1>5 DEF Changed, Data

(* A save begins with what the file holds by then.                          *)
LEMMA OpenLocal ==
  ASSUME LiveInv, NEW p \in Procs, OpenCache(p)
  PROVE  \E m \in Locals : LocalOK(m) /\ Become(p, m)
<1> PICK l \in Locals : l = loc[p] /\ LocalOK(l) /\ Types
  BY OneOf
<1>1. l.pc = "open" /\ Filing(l) /\ Going(l)
  BY DEF OpenCache, Filing, Going
<1>2. CASE ~Writes(l.mode)
  BY <1>1, <1>2, ResumeOK DEF OpenCache
<1>3. CASE Writes(l.mode)
  <2> PICK data \in Data : data = Changed(index, l)
    BY ChangedType DEF Types
  <2> PICK m : m = [l EXCEPT !.snap = data, !.stale = FALSE, !.pc = "truncate"]
    OBVIOUS
  <2>1. m \in Locals
    BY ONLY m = [l EXCEPT !.snap = data, !.stale = FALSE, !.pc = "truncate"], l \in Locals,
            data \in Data DEF Locals, Places
  <2>2. /\ m.pc = "truncate" /\ m.then = l.then /\ m.mark = l.mark
        /\ m.seen = l.seen /\ m.from = l.from /\ m.began = l.began /\ m.op = l.op
        /\ m.name = l.name /\ m.page = l.page /\ m.started = l.started
    BY DEF Locals
  <2>4. LocalOK(m)
    BY <1>1, <2>2
       DEF LocalOK, SpanOK, PlaceOK, SeenOK, LiveOK, Going, Filing, Covered, Fresh
  <2>5. Become(p, m)
    BY <1>3 DEF OpenCache
  <2> QED
    BY <2>1, <2>4, <2>5
<1> QED
  BY <1>2, <1>3

-----------------------------------------------------------------------------
(* Whether a snapshot is stale is no concern of these facts.                *)
LEMMA StaleOK ==
  ASSUME NEW l \in Locals, LocalOK(l), NEW b \in BOOLEAN, NEW m, m = [l EXCEPT !.stale = b]
  PROVE  m \in Locals /\ LocalOK(m)
<1>1. m \in Locals
  BY DEF Locals
<1>2. /\ m.pc = l.pc /\ m.then = l.then /\ m.mark = l.mark
      /\ m.seen = l.seen /\ m.from = l.from /\ m.began = l.began /\ m.op = l.op
      /\ m.name = l.name /\ m.page = l.page /\ m.started = l.started /\ m.mode = l.mode
      /\ m.result = l.result
  BY DEF Locals
<1>3. SpanOK(m) /\ PlaceOK(m)
  BY <1>2 DEF LocalOK, SpanOK, PlaceOK, Going, Filing, Fresh
<1>4. SeenOK(m) /\ LiveOK(m)
  BY <1>2 DEF LocalOK, SeenOK, LiveOK, Going, Filing, Covered
<1> QED
  BY <1>1, <1>3, <1>4 DEF LocalOK

(* When one invocation moves, the others are as they were, but for what     *)
(* they read of the file.                                                   *)
LEMMA Moved ==
  ASSUME LiveInv, NEW p \in Procs, NEW m \in Locals, LocalOK(m)',
         \/ Become(p, m)
         \/ loc' = [q \in Procs |-> IF q = p THEN m
                                    ELSE [loc[q] EXCEPT !.stale = loc[q].pc \in Exposed]],
         kind' = kind, now' = now, NEW w \in SUBSET Names,
         worlds' = worlds \/ worlds' = Append(worlds, w)
  PROVE  loc' \in [Procs -> Locals] /\ (\A q \in Procs : LocalOK(loc[q]))'
<1>1. ASSUME NEW q \in Procs, NEW k, k = loc'[q]
      PROVE  k \in Locals /\ LocalOK(k)'
  <2>1. CASE q = p
    <3>1. k = m
      BY <1>1, <2>1 DEF Become, LiveInv, Types
    <3> QED
      BY <3>1
  <2>2. CASE q # p
    <3> PICK l \in Locals : l = loc[q] /\ LocalOK(l) /\ Types
      BY OneOf
    <3> PICK j : j = [l EXCEPT !.stale = l.pc \in Exposed]
      OBVIOUS
    <3>1. j \in Locals /\ LocalOK(j)
      <4>1. CASE l.pc \in Exposed
        <5>1. j = [l EXCEPT !.stale = TRUE]
          BY <4>1
        <5> QED
          BY <5>1, StaleOK
      <4>2. CASE l.pc \notin Exposed
        <5>1. (l.pc \in Exposed) = FALSE
          BY ONLY <4>2
        <5>2. j = [l EXCEPT !.stale = FALSE]
          BY ONLY <5>1, j = [l EXCEPT !.stale = l.pc \in Exposed]
        <5> QED
          BY <5>2, StaleOK
      <4> QED
        BY <4>1, <4>2
    <3>2. k \in {l, j}
      BY <1>1, <2>2 DEF Become, LiveInv, Types
    <3>3. LocalOK(l)' /\ LocalOK(j)'
      BY <3>1, LocalStays
    <3> QED
      BY <3>1, <3>2, <3>3
  <2> QED
    BY <2>1, <2>2
<1>2. loc' \in [Procs -> Locals]
  <2>1. loc' = [q \in Procs |-> loc'[q]]
    BY DEF Become, LiveInv, Types
  <2> QED
    BY <1>1, <2>1
<1>3. \A q \in Procs : LocalOK(loc[q])'
  BY <1>1
<1> QED
  BY <1>2, <1>3

-----------------------------------------------------------------------------
(* A quiet step keeps what holds of every invocation.                       *)
LEMMA QuietStep ==
  ASSUME LiveInv, NEW p \in Procs, Quiet(p)
  PROVE  LiveInv'
<1>1. Types /\ loc[p] \in Locals
  BY OneOf
<1>2. \E m \in Locals : LocalOK(m) /\ Become(p, m)
  <2>1. CASE SweepFails(p)
    BY <2>1, BrokenOffLocal DEF SweepFails, Going
  <2>2. CASE Die(p)
    BY <2>2, BrokenOffLocal DEF Die, Going
  <2>3. CASE End(p)
    BY <2>3, IdleType, IdleOK DEF End
  <2> QED
    BY <2>1, <2>2, <2>3, LookInLocal, CachedEmojiSetLocal, EmailLookupLocal,
       AuthoritativeMissLocal, SearchLocal, PageLocal, MatchLocal, WarmTogetherLocal,
       FetchLocal, MarkApartLocal, OpenLocal DEF Quiet
<1>3. UNCHANGED <<kind, index, worlds, now, settled>>
  BY DEF Quiet, LookIn, CachedEmojiSet, EmailLookup, AuthoritativeMiss, ChannelIDViaSearch,
         Page, MatchFound, WarmTogether, FetchUsergroups, MarkApart, SweepFails, OpenCache,
         Die, End
<1>4. lost' \in BOOLEAN /\ blind' \in BOOLEAN
  <2>1. CASE OpenCache(p)
    BY <2>1, <1>1 DEF OpenCache, Types
  <2>2. CASE Die(p)
    BY <2>2, <1>1 DEF Die, Types
  <2>3. CASE ~OpenCache(p) /\ ~Die(p)
    BY <2>3, <1>1
       DEF Types, Quiet, LookIn, CachedEmojiSet, EmailLookup, AuthoritativeMiss,
           ChannelIDViaSearch, Page, MatchFound, WarmTogether, FetchUsergroups, MarkApart,
           SweepFails, End
  <2> QED
    BY <2>1, <2>2, <2>3
<1> PICK m \in Locals : LocalOK(m) /\ Become(p, m)
  BY <1>2
<1>5. LocalOK(m)'
  BY <1>1, <1>3, LocalStays
<1>6. loc' \in [Procs -> Locals] /\ (\A q \in Procs : LocalOK(loc[q]))'
  BY <1>3, <1>5, Moved
<1>7. Types'
  BY <1>1, <1>3, <1>4, <1>6 DEF Types
<1> QED
  BY <1>6, <1>7 DEF LiveInv

(* What an invocation starts with.                                          *)
LEMMA RunStep ==
  ASSUME LiveInv, NEW p \in Procs, NEW op \in Ops, NEW n \in Names \cup {NoName},
         NEW mode \in Modes \cup {"normal"}, op \in {"lookup", "mutate"} => n \in Names,
         Run(p, op, n, mode)
  PROVE  LiveInv'
<1> PICK pc \in {"get", "mutate", "forget", "sweep"} :
      pc = CASE op = "lookup" -> "get" [] op = "mutate" -> "mutate"
             [] op = "purge" -> "forget" [] OTHER -> "sweep"
  OBVIOUS
<1> PICK m : m = [Idle EXCEPT !.op = op, !.name = n, !.mode = mode, !.started = Len(worlds),
                    !.floor = settled, !.pc = pc, !.from = Len(worlds), !.began = now]
  OBVIOUS
<1>1. Types /\ Len(worlds) \in Nat /\ Len(worlds) >= 1 /\ now \in Nat /\ now >= 1 /\ settled \in Nat
  BY DEF LiveInv, Types
<1>2. op \in {"lookup", "warm", "list", "purge", "mutate"}
      /\ (op = "mutate" => kind = "emoji") /\ (op = "list" => kind # "emoji")
  BY DEF Ops
<1>3. m \in Locals
  <2> PICK len \in Nat, floor \in Nat, began \in Nat :
        len = Len(worlds) /\ floor = settled /\ began = now
    BY <1>1
  <2> PICK o \in {"lookup", "warm", "list", "purge", "mutate"} : o = op
    BY <1>2
  <2>1. m = [Idle EXCEPT !.op = o, !.name = n, !.mode = mode, !.started = len,
               !.floor = floor, !.pc = pc, !.from = len, !.began = began]
    OBVIOUS
  <2> QED
    BY ONLY <2>1, IdleType, n \in Names \cup {NoName}, mode \in Modes \cup {"normal"},
            len \in Nat, floor \in Nat, began \in Nat, pc \in {"get", "mutate", "forget", "sweep"},
            o \in {"lookup", "warm", "list", "purge", "mutate"}
       DEF Locals, Places
<1>4. /\ m.pc = pc /\ m.op = op /\ m.name = n /\ m.mode = mode /\ m.started = Len(worlds)
      /\ m.from = Len(worlds) /\ m.began = now
  BY IdleType DEF Locals
<1>5. m.seen = {} /\ m.page = 1
  BY DEF Idle
<1>6. LocalOK(m)
  <2>1. SpanOK(m)
    BY <1>1, <1>2, <1>4, <1>5, CacheAssumption DEF SpanOK
  <2>2. PlaceOK(m) /\ LiveOK(m)
    BY <1>2, <1>4, <1>5 DEF PlaceOK, LiveOK, Going, Filing, Fresh
  <2>3. \A i \in DOMAIN PageOrder : ~(i < m.page)
    BY <1>5, CacheAssumption
  <2>4. SeenOK(m)
    BY <1>4, <1>5, <2>3 DEF SeenOK, Filing
  <2> QED
    BY <2>1, <2>2, <2>4 DEF LocalOK
<1>7. Become(p, m)
  BY DEF Run
<1>8. UNCHANGED <<kind, index, worlds, now, lost, settled, blind>>
  BY DEF Run
<1>9. LocalOK(m)'
  BY <1>1, <1>3, <1>6, <1>8, LocalStays
<1>10. loc' \in [Procs -> Locals] /\ (\A q \in Procs : LocalOK(loc[q]))'
  BY <1>3, <1>7, <1>8, <1>9, Moved
<1>11. Types'
  BY <1>1, <1>8, <1>10 DEF Types
<1> QED
  BY <1>10, <1>11 DEF LiveInv

(* The file is truncated, written or removed.                               *)
LEMMA FileStep ==
  ASSUME LiveInv, NEW p \in Procs, Truncate(p) \/ Write(p) \/ Forget(p)
  PROVE  LiveInv'
<1> PICK l \in Locals : l = loc[p] /\ LocalOK(l) /\ Types
  BY OneOf
<1>1. \E m \in Locals, data \in Data : LocalOK(m) /\ NewFile(p, m, data)
  <2>1. CASE Truncate(p)
    <3> PICK m : m = [l EXCEPT !.pc = "write"]
      OBVIOUS
    <3>1. m \in Locals
      BY DEF Locals, Places
    <3>2. /\ m.pc = "write" /\ m.then = l.then /\ m.mark = l.mark
          /\ m.seen = l.seen /\ m.from = l.from /\ m.began = l.began /\ m.op = l.op
          /\ m.name = l.name /\ m.page = l.page /\ m.started = l.started
      BY DEF Locals
    <3>3. l.pc = "truncate"
      BY <2>1 DEF Truncate
    <3>4. SpanOK(m) /\ PlaceOK(m)
      BY <3>2, <3>3 DEF LocalOK, SpanOK, PlaceOK, Going, Filing, Fresh
    <3>5. SeenOK(m) /\ LiveOK(m)
      BY <3>2, <3>3 DEF LocalOK, SeenOK, LiveOK, Going, Filing, Covered
    <3>6. NewFile(p, m, Empty)
      BY <2>1 DEF Truncate
    <3> QED
      BY <3>1, <3>4, <3>5, <3>6, EmptyType DEF LocalOK
  <2>2. CASE Write(p)
    <3>1. l.pc = "write" /\ Filing(l) /\ NewFile(p, Resume(l), l.snap)
      BY <2>2 DEF Write, Filing
    <3>2. l.snap \in Data
      BY DEF Locals
    <3> QED
      BY <3>1, <3>2, ResumeOK
  <2>3. CASE Forget(p)
    <3>1. Going(l) /\ l.from \in Nat /\ "done" \in Answers
      BY <2>3 DEF Forget, Going, Locals, Answers
    <3>2. Ended(l, "done", l.from) \in Locals /\ LocalOK(Ended(l, "done", l.from))
      BY <3>1, EndedOK
    <3>3. Forgotten(l) \in Data
      BY EmptyType DEF Forgotten, Types
    <3> QED
      BY <2>3, <3>2, <3>3 DEF Forget
  <2> QED
    BY <2>1, <2>2, <2>3
<1> PICK m \in Locals, data \in Data : LocalOK(m) /\ NewFile(p, m, data)
  BY <1>1
<1>2. UNCHANGED <<kind, worlds, now>> /\ index' \in Data
  BY DEF Truncate, Write, Forget, NewFile
<1>3. lost' \in BOOLEAN /\ blind' \in BOOLEAN
  BY DEF Truncate, Write, Forget, Types
<1>4. settled' \in Nat
  BY DEF Truncate, Write, Forget, Types, Locals
<1>5. LocalOK(m)'
  BY <1>2, LocalStays
<1>6. loc' \in [Procs -> Locals] /\ (\A q \in Procs : LocalOK(loc[q]))'
  BY <1>2, <1>5, Moved DEF NewFile
<1>7. Types'
  BY <1>2, <1>3, <1>4, <1>6 DEF Types
<1> QED
  BY <1>6, <1>7 DEF LiveInv

(* Who changes a name changes it to one that there may be.                  *)
LEMMA ToggledName ==
  ASSUME Types, NEW n \in Names
  PROVE  Toggled(n) \in SUBSET Names
<1>1. World \subseteq Names
  BY SoNow DEF Types
<1> QED
  BY <1>1 DEF Toggled

(* A change of the set of emoji, by a command.                              *)
LEMMA MutateStep ==
  ASSUME LiveInv, NEW p \in Procs, Mutate(p)
  PROVE  LiveInv'
<1> PICK l \in Locals : l = loc[p] /\ LocalOK(l) /\ Types
  BY OneOf
<1>1. l.pc = "mutate" /\ Going(l) /\ kind = "emoji" /\ l.op = "mutate" /\ l.seen = {} /\ l.page = 1
  BY DEF Mutate, Going, LocalOK, PlaceOK, Fresh
<1>2. l.name \in Names
  BY <1>1 DEF LocalOK, SpanOK
<1> PICK w \in SUBSET Names : w = Toggled(l.name)
  BY <1>2, ToggledName
<1>3. worlds' = Append(worlds, w) /\ UNCHANGED <<kind, index, now, lost, settled>>
  BY DEF Mutate
<1>4. blind' \in BOOLEAN
  BY DEF Mutate, Types
<1>5. /\ worlds' \in Seq(SUBSET Names) /\ Len(worlds') \in Nat
      /\ Len(worlds) <= Len(worlds') /\ Len(worlds) \in Nat
  BY <1>3 DEF Types
<1>6. \E m \in Locals : LocalOK(m)' /\ Become(p, m)
  <2>1. CASE Become(p, [l EXCEPT !.pc = "forget", !.from = Len(worlds')])
    <3> PICK from \in Nat : from = Len(worlds')
      BY <1>5
    <3> PICK m : m = [l EXCEPT !.pc = "forget", !.from = from]
      OBVIOUS
    <3>1. m \in Locals
      BY DEF Locals, Places
    <3>2. /\ m.pc = "forget" /\ m.from = from /\ m.seen = l.seen /\ m.began = l.began
          /\ m.op = l.op /\ m.name = l.name /\ m.page = l.page /\ m.started = l.started
      BY DEF Locals
    <3>3. l.from \in Nat /\ l.started \in Nat
      BY DEF Locals
    <3>4. SpanOK(m)'
      BY <1>1, <1>3, <1>5, <3>2, <3>3 DEF LocalOK, SpanOK, Going
    <3>5. PlaceOK(m)' /\ LiveOK(m)'
      BY <1>1, <1>3, <3>2 DEF LocalOK, PlaceOK, LiveOK, Going, Filing, Fresh
    <3>6. \A i \in DOMAIN PageOrder : ~(i < m.page)
      BY <1>1, <3>2, CacheAssumption
    <3>7. SeenOK(m)'
      BY <1>1, <3>2, <3>6 DEF SeenOK, Filing
    <3> QED
      BY <2>1, <3>1, <3>4, <3>5, <3>7 DEF LocalOK
  <2>2. CASE Answer(p, "error", l.from)
    <3> PICK m \in Locals : LocalOK(m) /\ Become(p, m)
      BY <2>2, <1>1, BrokenOffLocal
    <3> QED
      BY <1>3, LocalStays
  <2> QED
    BY <2>1, <2>2 DEF Mutate
<1> PICK m \in Locals : LocalOK(m)' /\ Become(p, m)
  BY <1>6
<1>7. loc' \in [Procs -> Locals] /\ (\A q \in Procs : LocalOK(loc[q]))'
  BY <1>3, Moved
<1>8. Types'
  BY <1>3, <1>4, <1>5, <1>7 DEF Types
<1> QED
  BY <1>7, <1>8 DEF LiveInv

(* The workspace changes, or time passes.                                   *)
LEMMA AroundStep ==
  ASSUME LiveInv, Tick \/ (\E n \in Names : Others(n))
  PROVE  LiveInv'
<1>1. Types
  BY DEF LiveInv
<1> PICK w \in SUBSET Names : worlds' = worlds \/ worlds' = Append(worlds, w)
  BY <1>1, ToggledName DEF Tick, Others
<1>2. UNCHANGED <<kind, index, loc, lost, settled, blind>>
  BY DEF Tick, Others
<1>3. ASSUME NEW q \in Procs
      PROVE  LocalOK(loc[q])'
  <2> PICK l \in Locals : l = loc[q] /\ LocalOK(l)
    BY OneOf
  <2>1. now' = now \/ (now' = now + 1 /\ (Going(l) => now - l.began < Span))
    BY DEF Tick, Others, Active, Going
  <2>2. LocalOK(l)'
    BY <2>1, <1>1, <1>2, LocalStays
  <2>3. l = loc[q]'
    BY <1>2
  <2> QED
    BY <2>2, <2>3
<1>4. Types'
  <2>1. worlds' \in Seq(SUBSET Names) /\ Len(worlds') >= 1
    BY <1>1 DEF Types
  <2>2. now' \in Nat /\ now' >= 1
    BY <1>1 DEF Types, Tick, Others
  <2> QED
    BY <1>1, <1>2, <2>1, <2>2 DEF Types
<1> QED
  BY <1>3, <1>4 DEF LiveInv

(* Every step.                                                              *)
LEMMA NextLive ==
  ASSUME LiveInv, [Next]_vars
  PROVE  LiveInv'
<1>1. CASE Tick \/ \E n \in Names : Others(n)
  BY <1>1, AroundStep
<1>2. ASSUME NEW p \in Procs, Step(p)
      PROVE  LiveInv'
  <2>1. CASE \E n \in Names, mode \in Modes, op \in Ops \cap {"lookup", "mutate"} :
               Run(p, op, n, mode)
    BY <2>1, RunStep
  <2>2. CASE \E op \in Ops \ {"lookup", "mutate"} : Run(p, op, NoName, "normal")
    BY <2>2, RunStep
  <2>3. CASE Quiet(p)
    BY <2>3, QuietStep
  <2>4. CASE Truncate(p) \/ Write(p) \/ Forget(p)
    BY <2>4, FileStep
  <2>5. CASE Mutate(p)
    BY <2>5, MutateStep
  <2> QED
    BY <1>2, <2>1, <2>2, <2>3, <2>4, <2>5 DEF Step, Quiet
<1>3. CASE UNCHANGED vars
  BY <1>3 DEF vars, LiveInv, Types, LocalOK, SpanOK, PlaceOK, SeenOK, LiveOK, Going, Filing,
              Fresh, Covered, Absent, Present
<1> QED
  BY <1>1, <1>2, <1>3 DEF Next

(* --refresh-cache and --no-cache answer from Slack, whatever the file and  *)
(* the other invocations do: both answers are right about an instant since  *)
(* the command began.                                                       *)
THEOREM LiveModesAnswerLive == Spec => []LiveModesAreLive
<1>1. LiveInv => LiveModesAreLive
  BY DEF LiveInv, LiveModesAreLive, LocalOK, LiveOK, Answered
<1> QED
  BY <1>1, InitLive, NextLive, PTL DEF Spec

-----------------------------------------------------------------------------
(* Custom emoji.  A change is pending while its command has not dropped the *)
(* file; an enumeration that is going on began after every such change, or  *)
(* the run is blind.                                                        *)
Busy(l) == l.pc \in {"sweep", "mark", "open", "truncate", "write"}
Pending(l) == l.pc = "forget" /\ l.op = "mutate"

EmojiLocal(l) ==
  /\ Going(l) => l.floor <= settled /\ l.floor <= l.from
  /\ Filing(l) => l.mark
  /\ l.pc \in {"truncate", "write"} => l.snap.from = l.from
  /\ Busy(l) /\ ~blind => l.from >= settled
  /\ l.pc = "done" /\ l.result \in {"found", "missing"} /\ ~blind => l.trust >= l.floor

PendingOK ==
  ~blind => \A p, q \in Procs : Busy(loc[p]) /\ Pending(loc[q]) => loc[p].from >= loc[q].from

EmojiInv ==
  kind = "emoji" =>
    /\ settled <= Len(worlds)
    /\ \A p \in Procs : EmojiLocal(loc[p])
    /\ ~blind /\ index.complete > 0 => index.from >= settled
    /\ PendingOK

(* The new record of an invocation that took a step.                        *)
EmojiMove(l, m) ==
  /\ EmojiLocal(m)
  /\ Busy(m) => (Busy(l) /\ m.from = l.from) \/ m.from = Len(worlds)
  /\ ~Pending(m)

(* What a lookup keeps of its answer.                                       *)
LEMMA EmojiEnded ==
  ASSUME LiveInv, NEW l \in Locals, EmojiLocal(l), Going(l), NEW result, NEW trust,
         result \in {"found", "missing"} /\ ~blind => trust >= l.floor,
         NEW m, m = Ended(l, result, trust)
  PROVE  EmojiMove(l, m)
<1>1. CASE l.op # "lookup"
  <2>1. m.pc = "idle"
    BY <1>1 DEF Ended, Idle
  <2> QED
    BY <2>1 DEF EmojiMove, EmojiLocal, Going, Filing, Busy, Pending
<1>2. CASE l.op = "lookup"
  <2>1. m.pc = "done" /\ m.result = result /\ m.trust = trust /\ m.floor = l.floor
    BY <1>2, IdleType DEF Ended, Locals
  <2> QED
    BY <2>1 DEF EmojiMove, EmojiLocal, Going, Filing, Busy, Pending
<1> QED
  BY <1>1, <1>2

(* A step that leaves the file, the workspace and what is settled.          *)
LEMMA EmojiQuiet ==
  ASSUME LiveInv, EmojiInv, kind = "emoji", NEW p \in Procs, Quiet(p), ~Die(p)
  PROVE  \E m \in Locals : EmojiMove(loc[p], m) /\ Become(p, m)
<1> PICK l \in Locals : l = loc[p] /\ LocalOK(l) /\ Types /\ EmojiLocal(l)
  BY OneOf DEF EmojiInv
<1>0. /\ settled <= Len(worlds) /\ Len(worlds) \in Nat /\ settled \in Nat
      /\ l.from \in Nat /\ l.floor \in Nat
      /\ ~blind /\ index.complete > 0 => index.from >= settled
      /\ index.complete \in Nat /\ index.from \in Nat
  BY DEF EmojiInv, Types, Locals, Data
<1>1. CASE CachedEmojiSet(p)
  <2>1. Going(l)
    BY <1>1 DEF CachedEmojiSet, Going
  <2>2. CASE IsComplete(index, l.mode)
    <3> PICK r \in {"found", "missing"} : Become(p, Ended(l, r, index.from))
      BY <1>1, <2>2 DEF CachedEmojiSet, Answer
    <3>1. ~blind => index.from >= l.floor
      BY <1>0, <2>1, <2>2 DEF IsComplete, EmojiLocal
    <3>2. l.op = "lookup" /\ l.mode = "normal"
      BY <1>1, <2>2 DEF CachedEmojiSet, LocalOK, PlaceOK, IsComplete, Reads
    <3>3. Ended(l, r, index.from) \in Locals
      BY <1>0, <2>1, <3>2, EndedOK DEF Answers
    <3> QED
      BY <2>1, <3>1, <3>3, EmojiEnded
  <2>3. CASE ~IsComplete(index, l.mode)
    <3> PICK m : m = [l EXCEPT !.pc = "sweep", !.from = Len(worlds)]
      OBVIOUS
    <3>1. Become(p, m)
      BY <1>1, <2>3 DEF CachedEmojiSet
    <3>2. m \in Locals
      BY <1>1, BeginsNow DEF CachedEmojiSet
    <3>3. m.pc = "sweep" /\ m.from = Len(worlds) /\ m.floor = l.floor
      BY DEF Locals
    <3>4. EmojiMove(l, m)
      BY <1>0, <2>1, <3>3 DEF EmojiMove, EmojiLocal, Going, Filing, Busy, Pending
    <3> QED
      BY <3>1, <3>2, <3>4
  <2> QED
    BY <2>2, <2>3
<1>2. CASE Page(p)
  <2>1. l.pc = "sweep"
    BY <1>2 DEF Page
  <2> PICK m \in Locals : LocalOK(m) /\ Become(p, m)
    BY <1>2, PageLocal
  <2>2. m = loc'[p]
    BY DEF Become, Types
  <2>3. loc'[p].pc = "sweep" /\ loc'[p].from = l.from /\ loc'[p].floor = l.floor
    <3> PICK n, seen : n = PageOrder[l.page]
                       /\ seen = IF n \in World THEN l.seen \cup {n} ELSE l.seen
      OBVIOUS
    <3>1. Become(p, [l EXCEPT !.page = l.page + 1, !.seen = seen])
      BY <1>2 DEF Page
    <3>2. loc'[p] = [l EXCEPT !.page = l.page + 1, !.seen = seen]
      BY <3>1 DEF Become, Types
    <3> QED
      BY ONLY <3>2, <2>1, l \in Locals DEF Locals
  <2>4. EmojiMove(l, m)
    BY <2>1, <2>2, <2>3 DEF EmojiMove, EmojiLocal, Going, Filing, Busy, Pending
  <2> QED
    BY <2>4
<1>3. CASE WarmTogether(p)
  <2>1. l.pc = "sweep" /\ l.op # "list"
    BY <1>3 DEF WarmTogether, LocalOK, PlaceOK
  <2> PICK m \in Locals : LocalOK(m) /\ Become(p, m)
    BY <1>3, WarmTogetherLocal
  <2>2. m = loc'[p]
    BY DEF Become, Types
  <2>3. /\ loc'[p].pc = "open" /\ loc'[p].from = l.from /\ loc'[p].floor = l.floor
        /\ loc'[p].mark
    <3> PICK todo, then : Become(p, Store(l, todo, Enumerates(l), then))
      BY <1>3 DEF WarmTogether
    <3>1. Enumerates(l) = TRUE
      BY <2>1 DEF Enumerates
    <3>2. loc'[p] = Store(l, todo, TRUE, then)
      BY <3>1 DEF Become, Types
    <3> QED
      BY ONLY <3>2, l \in Locals DEF Locals, Store
  <2>4. EmojiMove(l, m)
    BY <2>1, <2>2, <2>3 DEF EmojiMove, EmojiLocal, Going, Filing, Busy, Pending
  <2> QED
    BY <2>4
<1>4. CASE SweepFails(p)
  <2>1. Going(l)
    BY <1>4 DEF SweepFails, Going
  <2> PICK m \in Locals : LocalOK(m) /\ Become(p, m)
    BY <1>4, <2>1, BrokenOffLocal DEF SweepFails
  <2>2. m = Ended(l, "error", l.from)
    BY <1>4 DEF SweepFails, Answer, Become, Types
  <2> QED
    BY <2>1, <2>2, EmojiEnded
<1>5. CASE OpenCache(p)
  <2>1. Going(l) /\ Filing(l) /\ Busy(l) /\ l.pc = "open"
    BY <1>5 DEF OpenCache, Going, Filing, Busy
  <2> PICK m \in Locals : LocalOK(m) /\ Become(p, m)
    BY <1>5, OpenLocal
  <2>2. CASE ~Writes(l.mode)
    <3>1. l.then \notin {"sweep", "mark"}
      BY <2>1 DEF LocalOK, PlaceOK
    <3>2. m = Ended(l, l.then, l.from)
      BY <1>5, <2>2, <3>1 DEF OpenCache, Become, Types, Resume
    <3>3. l.from >= l.floor
      BY <2>1, <1>0 DEF EmojiLocal
    <3> QED
      BY <2>1, <3>2, <3>3, EmojiEnded
  <2>3. CASE Writes(l.mode)
    <3>1. m = [l EXCEPT !.snap = Changed(index, l), !.stale = FALSE, !.pc = "truncate"]
      BY <1>5, <2>3 DEF OpenCache, Become, Types
    <3>2. /\ m.pc = "truncate" /\ m.from = l.from /\ m.floor = l.floor /\ m.mark = l.mark
          /\ m.snap = Changed(index, l)
      BY <3>1 DEF Locals
    <3>3. Changed(index, l).from = l.from
      BY <2>1 DEF Changed, EmojiLocal
    <3>4. EmojiMove(l, m)
      BY <2>1, <3>2, <3>3 DEF EmojiMove, EmojiLocal, Going, Filing, Busy, Pending
    <3> QED
      BY <3>4
  <2> QED
    BY <2>2, <2>3
<1>6. CASE End(p)
  <2>1. Become(p, Idle) /\ Idle.pc = "idle"
    BY <1>6 DEF End, Idle
  <2> QED
    BY <2>1, IdleType DEF EmojiMove, EmojiLocal, Going, Filing, Busy, Pending
<1>7. ~LookIn(p) /\ ~EmailLookup(p) /\ ~AuthoritativeMiss(p) /\ ~ChannelIDViaSearch(p)
      /\ ~MatchFound(p) /\ ~FetchUsergroups(p) /\ ~MarkApart(p)
  BY DEF LookIn, EmailLookup, AuthoritativeMiss, ChannelIDViaSearch, MatchFound, Matched,
         FetchUsergroups, MarkApart, LocalOK, PlaceOK
<1> QED
  BY <1>1, <1>2, <1>3, <1>4, <1>5, <1>6, <1>7 DEF Quiet

(* The others keep what they had.                                           *)
LEMMA EmojiMoved ==
  ASSUME LiveInv, EmojiInv, kind = "emoji", NEW p \in Procs, NEW m \in Locals,
         EmojiMove(loc[p], m),
         \/ Become(p, m)
         \/ loc' = [q \in Procs |-> IF q = p THEN m
                                    ELSE [loc[q] EXCEPT !.stale = loc[q].pc \in Exposed]],
         UNCHANGED <<kind, worlds, settled, blind>>,
         ~blind /\ index'.complete > 0 => index'.from >= settled
  PROVE  EmojiInv'
<1>1. Types /\ Len(worlds) \in Nat
  BY DEF LiveInv, Types
<1>2. ASSUME NEW q \in Procs, NEW k, k = loc'[q], q # p
      PROVE  /\ k.pc = loc[q].pc /\ k.op = loc[q].op /\ k.from = loc[q].from
             /\ k.floor = loc[q].floor /\ k.mark = loc[q].mark /\ k.snap = loc[q].snap
             /\ k.result = loc[q].result /\ k.trust = loc[q].trust
  <2> PICK l \in Locals : l = loc[q]
    BY OneOf
  <2>1. k \in {l, [l EXCEPT !.stale = l.pc \in Exposed]}
    BY <1>1, <1>2 DEF Become, Types
  <2> QED
    BY <2>1 DEF Locals
<1>3. loc'[p] = m
  BY <1>1 DEF Become, Types
<1>4. ASSUME NEW q \in Procs
      PROVE  EmojiLocal(loc[q])'
  <2> PICK k : k = loc'[q]
    OBVIOUS
  <2>1. CASE q = p
    <3>1. EmojiLocal(m)
      BY DEF EmojiMove
    <3>2. k = m
      BY <1>3, <2>1
    <3> QED
      BY <3>1, <3>2 DEF EmojiLocal, Going, Filing, Busy
  <2>2. CASE q # p
    <3>1. EmojiLocal(loc[q])
      BY DEF EmojiInv
    <3> QED
      BY <1>2, <2>2, <3>1 DEF EmojiLocal, Going, Filing, Busy
  <2> QED
    BY <2>1, <2>2
<1>5. PendingOK'
  <2> SUFFICES ASSUME ~blind, NEW a \in Procs, NEW b \in Procs,
                      Busy(loc'[a]), Pending(loc'[b])
               PROVE  loc'[a].from >= loc'[b].from
    BY DEF PendingOK, Busy, Pending
  <2>1. b # p
    BY <1>3 DEF EmojiMove
  <2>2. Pending(loc[b]) /\ loc'[b].from = loc[b].from
    BY <1>2, <2>1 DEF Pending
  <2>3. loc[b].from \in Nat /\ loc[b].from <= Len(worlds)
    <3> PICK l \in Locals : l = loc[b] /\ LocalOK(l)
      BY OneOf
    <3> QED
      BY <2>2 DEF Pending, LocalOK, SpanOK, Going, Locals
  <2>4. CASE a = p
    <3>1. (Busy(loc[a]) /\ loc'[a].from = loc[a].from) \/ loc'[a].from = Len(worlds)
      BY <1>3, <2>4 DEF EmojiMove
    <3> QED
      BY <3>1, <2>2, <2>3, <1>1 DEF EmojiInv, PendingOK
  <2>5. CASE a # p
    <3>1. Busy(loc[a]) /\ loc'[a].from = loc[a].from
      BY <1>2, <2>5 DEF Busy
    <3> QED
      BY <3>1, <2>2 DEF EmojiInv, PendingOK
  <2> QED
    BY <2>4, <2>5
<1> QED
  BY <1>4, <1>5 DEF EmojiInv

(* A command drops the file after its change: what it settles is a change   *)
(* that no enumeration still going on began before.                         *)
LEMMA EmojiForget ==
  ASSUME LiveInv, LiveInv', EmojiInv, kind = "emoji", NEW p \in Procs, Forget(p)
  PROVE  EmojiInv'
<1> PICK l \in Locals : l = loc[p] /\ LocalOK(l) /\ Types /\ EmojiLocal(l)
  BY OneOf DEF EmojiInv
<1>1. l.pc = "forget" /\ Going(l) /\ l.from \in Nat /\ l.from <= Len(worlds) /\ l.op \in {"purge", "mutate"}
  BY DEF Forget, Going, LocalOK, SpanOK, PlaceOK, Locals
<1>2. /\ UNCHANGED <<kind, worlds>> /\ index' = Forgotten(l)
      /\ loc' = [q \in Procs |-> IF q = p THEN Idle
                                 ELSE [loc[q] EXCEPT !.stale = loc[q].pc \in Exposed]]
      /\ settled' = IF l.op = "mutate" /\ l.from > settled THEN l.from ELSE settled
      /\ blind' = (blind \/ (l.op = "mutate" /\ ~Writes(l.mode)))
  BY <1>1 DEF Forget, NewFile, Ended
<1>3. ASSUME NEW q \in Procs, NEW k, k = loc'[q]
      PROVE  IF q = p THEN k.pc = "idle"
             ELSE /\ k.pc = loc[q].pc /\ k.op = loc[q].op /\ k.from = loc[q].from
                  /\ k.floor = loc[q].floor /\ k.mark = loc[q].mark /\ k.snap = loc[q].snap
                  /\ k.result = loc[q].result /\ k.trust = loc[q].trust
  <2>1. CASE q = p
    BY <1>2, <1>3, <2>1 DEF Idle
  <2>2. CASE q # p
    <3> PICK j \in Locals : j = loc[q]
      BY OneOf
    <3>1. k = [j EXCEPT !.stale = j.pc \in Exposed]
      BY <1>2, <1>3, <2>2
    <3> QED
      BY <2>2, <3>1 DEF Locals
  <2> QED
    BY <2>1, <2>2
<1>4. settled \in Nat /\ Len(worlds) \in Nat /\ settled <= Len(worlds)
  BY DEF Types, EmojiInv
<1>5. settled' \in Nat /\ settled <= settled' /\ settled' <= Len(worlds)
  BY <1>1, <1>2, <1>4
<1>6. ASSUME NEW q \in Procs
      PROVE  EmojiLocal(loc[q])'
  <2> PICK k : k = loc'[q]
    OBVIOUS
  <2>1. CASE q = p
    BY <1>3, <2>1 DEF EmojiLocal, Going, Filing, Busy
  <2>2. CASE q # p
    <3> PICK j \in Locals : j = loc[q] /\ LocalOK(j)
      BY OneOf
    <3>1. EmojiLocal(j)
      BY DEF EmojiInv
    <3>2. j.from \in Nat /\ j.floor \in Nat
      BY DEF Locals
    <3>3. /\ k.pc = j.pc /\ k.op = j.op /\ k.from = j.from
          /\ k.floor = j.floor /\ k.mark = j.mark /\ k.snap = j.snap
          /\ k.result = j.result /\ k.trust = j.trust
      BY <1>3, <2>2
    <3>4. Busy(j) /\ ~blind' => j.from >= settled'
      <4> SUFFICES ASSUME Busy(j), ~blind' PROVE j.from >= settled'
        OBVIOUS
      <4>1. j.from >= settled /\ ~blind
        BY <1>2, <3>1 DEF EmojiLocal
      <4>2. l.op = "mutate" => j.from >= l.from
        BY <1>1, <4>1 DEF EmojiInv, PendingOK, Pending
      <4> QED
        BY <4>1, <4>2, <1>2
    <3>5. ~blind' => ~blind
      BY <1>2
    <3>6. Going(j) => j.floor <= settled' /\ j.floor <= j.from
      BY <1>4, <1>5, <3>1, <3>2 DEF EmojiLocal
    <3> QED
      BY <3>1, <3>3, <3>4, <3>5, <3>6 DEF EmojiLocal, Going, Filing, Busy
  <2> QED
    BY <2>1, <2>2
<1>7. ~blind' /\ index'.complete > 0 => index'.from >= settled'
  <2>1. CASE l.op = "purge" \/ Writes(l.mode)
    <3>1. index'.complete = 0
      BY <1>2, <2>1 DEF Forgotten, Empty
    <3> QED
      BY <3>1
  <2>2. CASE ~(l.op = "purge" \/ Writes(l.mode))
    BY <1>1, <1>2, <2>2
  <2> QED
    BY <2>1, <2>2
<1>8. PendingOK'
  <2> SUFFICES ASSUME ~blind', NEW a \in Procs, NEW b \in Procs,
                      Busy(loc'[a]), Pending(loc'[b])
               PROVE  loc'[a].from >= loc'[b].from
    BY DEF PendingOK, Busy, Pending
  <2>1. a # p /\ b # p
    BY <1>3 DEF Busy, Pending
  <2>2. Busy(loc[a]) /\ Pending(loc[b]) /\ loc'[a].from = loc[a].from /\ loc'[b].from = loc[b].from
    BY <1>3, <2>1 DEF Busy, Pending
  <2> QED
    BY <2>2, <1>2 DEF EmojiInv, PendingOK
<1> QED
  BY <1>2, <1>5, <1>6, <1>7, <1>8 DEF EmojiInv

(* A change that is reported finds no enumeration going on, or blinds.      *)
LEMMA EmojiMutate ==
  ASSUME LiveInv, LiveInv', EmojiInv, kind = "emoji", NEW p \in Procs, Mutate(p)
  PROVE  EmojiInv'
<1> PICK l \in Locals : l = loc[p] /\ LocalOK(l) /\ Types /\ EmojiLocal(l)
  BY OneOf DEF EmojiInv
<1>1. /\ l.pc = "mutate" /\ Going(l) /\ l.op = "mutate" /\ UNCHANGED <<kind, index, settled>>
      /\ l.floor \in Nat /\ l.from \in Nat
  BY DEF Mutate, Going, LocalOK, PlaceOK, Locals
<1>2. Len(worlds) \in Nat /\ Len(worlds') \in Nat /\ Len(worlds) <= Len(worlds')
      /\ settled \in Nat /\ settled <= Len(worlds)
  <2>1. worlds' = Append(worlds, Toggled(l.name))
    BY DEF Mutate
  <2> QED
    BY <2>1 DEF Types, EmojiInv
<1> PICK reported \in BOOLEAN :
      /\ IF reported THEN Become(p, [l EXCEPT !.pc = "forget", !.from = Len(worlds')])
         ELSE Answer(p, "error", l.from)
      /\ blind' = (blind \/ ~reported \/ \E q \in Procs : Enumerating(q))
  BY DEF Mutate
<1>3. ~blind' => ~blind /\ reported /\ \A q \in Procs : ~Busy(loc[q])
  BY DEF Enumerating, Busy
<1>4. ASSUME NEW q \in Procs, q # p
      PROVE  loc'[q] = loc[q]
  BY <1>4 DEF Answer, Become, Types
<1>5. /\ loc'[p].pc \in {"forget", "done", "idle"}
      /\ Going(loc'[p]) => loc'[p].floor = l.floor /\ loc'[p].from = Len(worlds')
  <2>1. CASE reported
    <3>1. loc'[p] = [l EXCEPT !.pc = "forget", !.from = Len(worlds')]
      BY <2>1 DEF Become, Types
    <3> QED
      BY ONLY <3>1, l \in Locals DEF Locals
  <2>2. CASE ~reported
    <3>1. loc'[p] = Idle
      BY <2>2, <1>1 DEF Answer, Become, Types, Ended
    <3> QED
      BY <3>1 DEF Idle, Going
  <2> QED
    BY <2>1, <2>2
<1>6. ~blind' => loc'[p].pc = "forget"
  <2> SUFFICES ASSUME reported PROVE loc'[p].pc = "forget"
    BY <1>3
  <2>1. loc'[p] = [l EXCEPT !.pc = "forget", !.from = Len(worlds')]
    BY DEF Become, Types
  <2> QED
    BY ONLY <2>1, l \in Locals DEF Locals
<1>7. ASSUME NEW q \in Procs
      PROVE  EmojiLocal(loc[q])'
  <2>1. CASE q = p
    <3>1. Going(l) => l.floor <= settled /\ l.floor <= l.from
      BY DEF EmojiLocal
    <3> QED
      BY <2>1, <3>1, <1>1, <1>2, <1>5, <1>6 DEF EmojiLocal, Going, Filing, Busy
  <2>2. CASE q # p
    <3>1. EmojiLocal(loc[q])
      BY DEF EmojiInv
    <3> QED
      BY <1>1, <1>3, <1>4, <2>2, <3>1 DEF EmojiLocal, Going, Filing, Busy
  <2> QED
    BY <2>1, <2>2
<1>8. PendingOK'
  <2> SUFFICES ASSUME ~blind', NEW a \in Procs, Busy(loc'[a]) PROVE FALSE
    BY DEF PendingOK, Busy, Pending
  <2>1. a # p
    BY <1>5 DEF Busy
  <2> QED
    BY <1>3, <1>4, <2>1
<1> QED
  BY <1>1, <1>2, <1>3, <1>7, <1>8 DEF EmojiInv

(* A command that starts now has everything settled before it.              *)
LEMMA EmojiRun ==
  ASSUME LiveInv, LiveInv', EmojiInv, kind = "emoji", NEW p \in Procs, NEW op, NEW n, NEW mode,
         Run(p, op, n, mode)
  PROVE  EmojiInv'
<1> PICK m : m = loc'[p]
  OBVIOUS
<1>1. Types /\ settled \in Nat /\ Len(worlds) \in Nat /\ settled <= Len(worlds)
  BY DEF LiveInv, Types, EmojiInv
<1>2. m \in Locals
  BY DEF LiveInv, Types
<1>3. /\ m.pc \in {"get", "mutate", "forget", "sweep"}
      /\ m.from = Len(worlds) /\ m.floor = settled /\ m.op = op
  <2> PICK pc \in {"get", "mutate", "forget", "sweep"} :
        pc = CASE op = "lookup" -> "get" [] op = "mutate" -> "mutate"
               [] op = "purge" -> "forget" [] OTHER -> "sweep"
    OBVIOUS
  <2>1. m = [Idle EXCEPT !.op = op, !.name = n, !.mode = mode, !.started = Len(worlds),
               !.floor = settled, !.pc = pc, !.from = Len(worlds), !.began = now]
    BY <1>1 DEF Run, Become, Types
  <2> QED
    BY ONLY <2>1, IdleType, pc \in {"get", "mutate", "forget", "sweep"} DEF Locals
<1>4. ~Pending(m)
  <2>1. op = "mutate" => m.pc = "mutate"
    <3> SUFFICES ASSUME op = "mutate" PROVE m.pc = "mutate"
      OBVIOUS
    <3>1. m = [Idle EXCEPT !.op = op, !.name = n, !.mode = mode, !.started = Len(worlds),
                 !.floor = settled, !.pc = "mutate", !.from = Len(worlds), !.began = now]
      BY <1>1 DEF Run, Become, Types
    <3> QED
      BY ONLY <3>1, IdleType DEF Locals
  <2> QED
    BY <2>1, <1>3 DEF Pending
<1>5. EmojiMove(loc[p], m)
  BY <1>1, <1>3, <1>4 DEF EmojiMove, EmojiLocal, Going, Filing, Busy
<1>6. Become(p, m)
  BY <1>1 DEF Run, Become, Types
<1>7. UNCHANGED <<kind, index, worlds, settled, blind>>
  BY DEF Run
<1>8. ~blind /\ index'.complete > 0 => index'.from >= settled
  BY <1>7 DEF EmojiInv
<1> QED
  BY <1>2, <1>5, <1>6, <1>7, <1>8, EmojiMoved

(* The file is truncated, then written, with an enumeration that is still   *)
(* good.                                                                    *)
LEMMA EmojiSave ==
  ASSUME LiveInv, LiveInv', EmojiInv, kind = "emoji", NEW p \in Procs, Truncate(p) \/ Write(p)
  PROVE  EmojiInv'
<1> PICK l \in Locals : l = loc[p] /\ LocalOK(l) /\ Types /\ EmojiLocal(l)
  BY OneOf DEF EmojiInv
<1>1. UNCHANGED <<kind, worlds, settled, blind>>
  BY DEF Truncate, Write, NewFile
<1>2. CASE Truncate(p)
  <2> PICK m : m = [l EXCEPT !.pc = "write"]
    OBVIOUS
  <2>1. m \in Locals
    BY DEF Locals, Places
  <2>2. /\ m.pc = "write" /\ m.from = l.from /\ m.floor = l.floor /\ m.mark = l.mark
        /\ m.snap = l.snap
    BY DEF Locals
  <2>3. l.pc = "truncate" /\ NewFile(p, m, Empty)
    BY <1>2 DEF Truncate
  <2>4. EmojiMove(l, m)
    BY <2>2, <2>3 DEF EmojiMove, EmojiLocal, Going, Filing, Busy, Pending
  <2>5. index'.complete = 0
    BY <2>3 DEF NewFile, Empty
  <2> QED
    BY <1>1, <2>1, <2>3, <2>4, <2>5, EmojiMoved DEF NewFile
<1>3. CASE Write(p)
  <2>1. l.pc = "write" /\ Filing(l) /\ Going(l) /\ Busy(l) /\ NewFile(p, Resume(l), l.snap)
    BY <1>3 DEF Write, Filing, Going, Busy
  <2> PICK m \in Locals : m = Resume(l)
    BY <2>1, ResumeOK
  <2>2. l.then \notin {"sweep", "mark"}
    BY <2>1 DEF LocalOK, PlaceOK, EmojiLocal
  <2>3. m = Ended(l, l.then, l.from)
    BY <2>2 DEF Resume
  <2>4. EmojiMove(l, m)
    <3>1. l.from >= l.floor
      BY <2>1 DEF EmojiLocal, Locals
    <3> QED
      BY <2>1, <2>3, <3>1, EmojiEnded
  <2>5. ~blind => index'.from >= settled
    BY <2>1 DEF NewFile, EmojiLocal
  <2> QED
    BY <1>1, <2>1, <2>4, <2>5, EmojiMoved DEF NewFile
<1> QED
  BY <1>2, <1>3

(* Every step.                                                              *)
LEMMA NextEmoji ==
  ASSUME LiveInv, LiveInv', EmojiInv, [Next]_vars
  PROVE  EmojiInv'
<1> SUFFICES ASSUME kind = "emoji" PROVE EmojiInv'
  <2>1. kind' = kind
    BY DEF Next, vars, Step, Tick, Others, Run, LookIn, CachedEmojiSet, EmailLookup,
           AuthoritativeMiss, ChannelIDViaSearch, Page, MatchFound, WarmTogether,
           FetchUsergroups, MarkApart, SweepFails, OpenCache, Truncate, Write, Mutate, Forget,
           Die, End
  <2> QED
    BY <2>1 DEF EmojiInv
<1>1. CASE Tick \/ \E n \in Names : Others(n)
  <2>1. /\ UNCHANGED <<kind, index, loc, settled, blind>>
        /\ worlds' = worlds \/ \E w : worlds' = Append(worlds, w)
    BY <1>1 DEF Tick, Others
  <2>2. Len(worlds) \in Nat /\ Len(worlds') \in Nat /\ Len(worlds) <= Len(worlds') /\ settled \in Nat
    BY <2>1 DEF LiveInv, Types
  <2> QED
    BY <2>1, <2>2 DEF EmojiInv, EmojiLocal, PendingOK
<1>2. ASSUME NEW p \in Procs, Step(p)
      PROVE  EmojiInv'
  <2>1. CASE Quiet(p) /\ ~Die(p)
    <3>1. UNCHANGED <<kind, worlds, index, settled, blind>>
      BY <2>1 DEF Quiet, LookIn, CachedEmojiSet, EmailLookup, AuthoritativeMiss,
                  ChannelIDViaSearch, Page, MatchFound, WarmTogether, FetchUsergroups,
                  MarkApart, SweepFails, OpenCache, End
    <3> PICK m \in Locals : EmojiMove(loc[p], m) /\ Become(p, m)
      BY <2>1, EmojiQuiet
    <3>2. ~blind /\ index'.complete > 0 => index'.from >= settled
      BY <3>1 DEF EmojiInv
    <3> QED
      BY <3>1, <3>2, EmojiMoved
  <2>2. CASE Die(p)
    <3> PICK l \in Locals : l = loc[p] /\ LocalOK(l) /\ Types /\ EmojiLocal(l)
      BY OneOf DEF EmojiInv
    <3>1. Going(l) /\ Answer(p, "died", l.from) /\ l.from \in Nat /\ "died" \in Answers
      BY <2>2 DEF Die, Going, Locals, Answers
    <3> PICK m \in Locals : m = Ended(l, "died", l.from)
      BY <3>1, EndedOK
    <3>2. EmojiMove(l, m) /\ Become(p, m)
      BY <3>1, EmojiEnded DEF Answer
    <3>3. UNCHANGED <<kind, worlds, index, settled>> /\ (blind => blind')
      BY <2>2 DEF Die
    <3>4. loc'[p] = m /\ \A q \in Procs : q # p => loc'[q] = loc[q]
      BY <3>2 DEF Become, Types
    <3>5. ASSUME NEW q \in Procs
          PROVE  EmojiLocal(loc[q])'
      <4>1. EmojiLocal(loc[q]) /\ EmojiLocal(m)
        BY <3>2 DEF EmojiInv, EmojiMove
      <4> QED
        BY <3>3, <3>4, <4>1 DEF EmojiLocal
    <3>6. ~Busy(m) /\ ~Pending(m)
      <4>1. m.pc \in {"idle", "done"}
        <5>1. CASE l.op # "lookup"
          BY <5>1 DEF Ended, Idle
        <5>2. CASE l.op = "lookup"
          BY ONLY <5>2, m = Ended(l, "died", l.from), IdleType DEF Ended, Locals
        <5> QED
          BY <5>1, <5>2
      <4> QED
        BY <4>1 DEF Busy, Pending
    <3>7. PendingOK'
      <4> SUFFICES ASSUME ~blind', NEW a \in Procs, NEW b \in Procs,
                          Busy(loc'[a]), Pending(loc'[b])
                   PROVE  loc'[a].from >= loc'[b].from
        BY DEF PendingOK, Busy, Pending
      <4> QED
        BY <3>3, <3>4, <3>6 DEF EmojiInv, PendingOK
    <3> QED
      BY <3>3, <3>5, <3>7 DEF EmojiInv
  <2>3. CASE \E op, n, mode : Run(p, op, n, mode)
    BY <2>3, EmojiRun
  <2> QED
    BY <1>2, <2>1, <2>2, <2>3, EmojiForget, EmojiMutate, EmojiSave DEF Step, Quiet
<1>3. CASE UNCHANGED vars
  BY <1>3 DEF vars, EmojiInv, EmojiLocal, PendingOK, Going, Filing, Busy, Pending
<1> QED
  BY <1>1, <1>2, <1>3 DEF Next

(* After a custom emoji was added or removed, a lookup answers from an      *)
(* enumeration that began after it, for any number of commands and changes, *)
(* unless an enumeration overlapped a change or a file was not dropped.     *)
THEOREM ChangesAreRead == Spec => []ChangedEmojiIsRead
<1>1. Init => EmojiInv
  <2> SUFFICES ASSUME Init, kind = "emoji" PROVE EmojiInv
    BY DEF EmojiInv
  <2>1. \A p \in Procs : loc[p].pc = "idle"
    BY DEF Init, Idle
  <2>2. index.complete = 0 /\ settled = 1 /\ Len(worlds) = 1
    BY DEF Init, Empty
  <2> QED
    BY <2>1, <2>2 DEF EmojiInv, EmojiLocal, PendingOK, Going, Filing, Busy, Pending
<1>2. LiveInv /\ EmojiInv => ChangedEmojiIsRead
  BY DEF EmojiInv, EmojiLocal, ChangedEmojiIsRead, Answered
<1> QED
  BY <1>1, <1>2, InitLive, NextLive, NextEmoji, PTL DEF Spec

-----------------------------------------------------------------------------
(* A miss answered from the mark.                                           *)

(* Entries outlive the mark, also those of an enumeration that saves them   *)
(* before it (cache.go, DefaultCacheTTL).                                   *)
Timely ==
  /\ CompleteTTL <= NameTTL
  /\ Kinds \cap {"channels", "usergroups"} # {} => CompleteTTL + Span <= NameTTL /\ Span < NameTTL

(* The categories whose mark is saved apart, and by how much it is later.   *)
Apart == kind \in {"channels", "usergroups"}
Lag == IF Apart THEN Span ELSE 0

(* A miss may be answered from it; a name it may be wrong about.            *)
Marked(data) == data.complete > 0 /\ now - data.complete < CompleteTTL
Excused(n) == (Apart /\ lost) \/ (kind = "users" /\ n \in Emails)

(* While the mark is fresh, every name is held or was missing.              *)
Backed(data) ==
  /\ data.complete <= now /\ (data.complete > 0 => data.from >= 1)
  /\ Marked(data) =>
       \A n \in Names :
         \/ Absent(n, data.from) \/ Excused(n)
         \/ data.entries[n] >= 1 /\ data.entries[n] + Lag >= data.complete

(* What the index did not answer it does not hold.                          *)
Unread(l) ==
  l.pc \in {"email", "complete"} /\ ~l.stale /\ l.mode = "normal" =>
    index.entries[l.name] = 0 \/ now - index.entries[l.name] >= NameTTL

(* A mark comes with what was enumerated, or after it.                      *)
MarkOK(l) ==
  l.pc = "open" /\ l.mark =>
    IF Apart THEN l.todo = {} /\ l.op # "list"
    ELSE \A n \in Names : n \in l.todo \/ Absent(n, l.from) \/ (kind = "users" /\ n \in Emails)

(* A miss that was answered is true.                                        *)
MissOK(l) ==
  l.pc = "done" /\ l.result = "missing" =>
    /\ l.trust >= 1
    /\ Absent(l.name, l.trust) \/ (kind # "emoji" /\ l.torn) \/ Excused(l.name)

(* What is known of each invocation.                                        *)
MissLocal(l) ==
  /\ l.pc \in {"truncate", "write"} => Backed(l.snap)
  /\ Unread(l) /\ MarkOK(l) /\ MissOK(l)

(* An entry is in the file, or in the hands of the one who writes it, and   *)
(* with everyone whose save will not be known to have crossed another.      *)
Held(l) == l.pc = "write" \/ (l.pc = "truncate" /\ ~l.stale)

Kept(n, since) ==
  /\ (\A q \in Procs : loc[q].pc # "write") => index.entries[n] >= since
  /\ \A q \in Procs : Held(loc[q]) => loc[q].snap.entries[n] >= since

(* It will mark what it enumerated; what of that it has still to write.     *)
Saving(l) == Busy(l) /\ l.op # "list" /\ Writes(l.mode)
Unsaved(l) == IF l.pc \in {"open", "truncate"} THEN l.todo ELSE {}

(* One writer, and what was saved since an enumeration began is kept.       *)
KeptOK ==
  /\ \A q, r \in Procs : loc[q].pc = "write" /\ Held(loc[r]) => q = r
  /\ \A p \in Procs :
       Saving(loc[p]) =>
         /\ \A n \in loc[p].seen \ Unsaved(loc[p]) : Kept(n, loc[p].began)
         /\ loc[p].pc = "truncate" =>
              \A n \in loc[p].todo : loc[p].snap.entries[n] >= loc[p].began

MissInv ==
  /\ Backed(index) /\ \A p \in Procs : MissLocal(loc[p])
  /\ Apart /\ ~lost => KeptOK

(* The new record of an invocation that left the file alone.                *)
KeptMove(l, m) ==
  /\ l.pc \notin {"truncate", "write"} /\ m.pc \notin {"truncate", "write"}
  /\ Saving(m) => \/ m.seen \ Unsaved(m) = {}
                  \/ /\ Saving(l) /\ m.began = l.began
                     /\ m.seen \ Unsaved(m) \subseteq l.seen \ Unsaved(l)

(* Entries outlive the mark, in each category.                              *)
LEMMA TimelyHere ==
  ASSUME Types, Timely
  PROVE  /\ Lag \in Nat /\ Span \in Nat /\ NameTTL \in Nat /\ CompleteTTL \in Nat
         /\ CompleteTTL + Lag <= NameTTL
         /\ Apart => Lag = Span /\ Span < NameTTL
BY CacheAssumption DEF Types, Timely, Lag, Apart

(* A file, or what will be one, stays backed while time passes, the         *)
(* workspace changes and writes cross.                                      *)
LEMMA BackedStays ==
  ASSUME Types, Timely, NEW data \in Data, Backed(data), kind' = kind, lost => lost',
         NEW w \in SUBSET Names, worlds' = worlds \/ worlds' = Append(worlds, w),
         now' = now \/ now' = now + 1
  PROVE  Backed(data)'
<1>1. data.complete \in Nat /\ data.from \in Nat /\ now \in Nat /\ CompleteTTL \in Nat
  BY TimelyHere DEF Types, Data
<1>2. Marked(data)' => Marked(data)
  BY <1>1 DEF Marked
<1>3. Lag' = Lag
  BY DEF Lag, Apart
<1>4. \A n : Excused(n) => Excused(n)'
  BY DEF Excused, Apart
<1>5. data.from >= 1 => \A n : Absent(n, data.from) => Absent(n, data.from)'
  BY <1>1, HistoryStays DEF Types
<1>6. data.complete <= now' /\ (data.complete > 0 => data.from >= 1)
  BY <1>1 DEF Backed
<1>7. Marked(data) => data.from >= 1
  BY <1>6 DEF Marked
<1> QED
  BY <1>2, <1>3, <1>4, <1>5, <1>6, <1>7 DEF Backed

(* Nothing is claimed of the empty file.                                    *)
LEMMA EmptyBacked == ASSUME Types PROVE Backed(Empty)
<1>1. Empty.complete = 0 /\ now \in Nat
  BY DEF Empty, Types
<1> QED
  BY <1>1 DEF Backed, Marked

(* An entry that is not yet old stays, and one that is set is new.          *)
LEMMA ChangedEntry ==
  ASSUME Types, NEW data \in Data, NEW l \in Locals, NEW n \in Names
  PROVE  /\ Changed(data, l).entries[n] \in Nat
         /\ n \in l.todo => Changed(data, l).entries[n] = now
         /\ n \notin l.todo /\ now - data.entries[n] < NameTTL =>
              Changed(data, l).entries[n] = data.entries[n]
<1> DEFINE put == [a \in Names |-> IF a \in l.todo THEN now ELSE data.entries[a]]
<1>1. Changed(data, l).entries[n] =
        IF NameTTL > 0 /\ now - put[n] >= NameTTL THEN 0 ELSE put[n]
  BY DEF Changed, PruneExpired
<1>2. put[n] = IF n \in l.todo THEN now ELSE data.entries[n]
  OBVIOUS
<1>3. now \in Nat /\ data.entries[n] \in Nat /\ NameTTL \in Nat
  BY CacheAssumption DEF Types, Data
<1> HIDE DEF put
<1> QED
  BY <1>1, <1>2, <1>3

(* What a save will write is backed as well.                                *)
LEMMA ChangedBacked ==
  ASSUME Types, Timely, NEW l \in Locals, LocalOK(l), l.pc = "open", MarkOK(l), Backed(index),
         UNCHANGED <<kind, worlds, now>>, lost => lost',
         Apart /\ ~lost' /\ l.mark => \A n \in l.seen : index.entries[n] >= l.began,
         NEW data, data = Changed(index, l)
  PROVE  Backed(data)'
<1>1. /\ now \in Nat /\ now >= 1 /\ l.from \in Nat /\ l.from >= 1 /\ l.began \in Nat
      /\ l.began >= 1 /\ l.began <= now /\ now - l.began <= Span
      /\ index.complete \in Nat /\ index.from \in Nat
  BY DEF LocalOK, SpanOK, Going, Types, Locals, Data
<1>2. \A n \in Names : index.entries[n] \in Nat /\ data.entries[n] \in Nat
  BY ChangedEntry DEF Types, Data
<1>3. \A n \in Names :
        /\ n \in l.todo => data.entries[n] = now
        /\ n \notin l.todo /\ now - index.entries[n] < NameTTL => data.entries[n] = index.entries[n]
  BY ChangedEntry DEF Types
<1>4. \A n, k : Absent(n, k)' <=> Absent(n, k)
  BY DEF Absent
<1>5. Lag' = Lag /\ (Apart' <=> Apart)
  BY DEF Lag, Apart
<1>6. CASE l.mark
  <2>1. data.complete = now /\ data.from = l.from
    BY <1>6 DEF Changed
  <2>2. ASSUME NEW n \in Names
        PROVE  \/ Absent(n, l.from) \/ Excused(n)'
               \/ data.entries[n] >= 1 /\ data.entries[n] + Lag >= now
    <3>1. CASE Apart
      <4>1. n \in l.seen \/ Absent(n, l.from)
        BY <1>6 DEF LocalOK, SeenOK, Covered, Filing, Going
      <4>2. CASE n \in l.seen /\ ~lost'
        <5>1. index.entries[n] >= l.began /\ n \notin l.todo
          BY <1>6, <3>1, <4>2 DEF MarkOK
        <5>2. data.entries[n] = index.entries[n]
          BY <1>1, <1>2, <1>3, <3>1, <5>1, TimelyHere
        <5> QED
          BY <1>1, <1>2, <3>1, <5>1, <5>2, TimelyHere
      <4>3. CASE lost'
        BY <3>1, <4>3, <1>5 DEF Excused
      <4> QED
        BY <4>1, <4>2, <4>3
    <3>2. CASE ~Apart
      <4>1. n \in l.todo \/ Absent(n, l.from) \/ (kind = "users" /\ n \in Emails)
        BY <1>6, <3>2 DEF MarkOK
      <4>2. Lag \in Nat
        BY TimelyHere
      <4> QED
        BY <1>1, <1>3, <4>1, <4>2 DEF Excused
    <3> QED
      BY <3>1, <3>2
  <2> QED
    BY <2>1, <2>2, <1>1, <1>4, <1>5 DEF Backed
<1>7. CASE ~l.mark
  <2>1. data.complete = index.complete /\ data.from = index.from
    BY <1>7 DEF Changed
  <2>2. ASSUME Marked(data)', NEW n \in Names
        PROVE  \/ Absent(n, data.from) \/ Excused(n)'
               \/ data.entries[n] >= 1 /\ data.entries[n] + Lag >= data.complete
    <3>1. index.complete > 0 /\ now - index.complete < CompleteTTL /\ index.complete <= now
      BY <2>1, <2>2 DEF Marked, Backed
    <3>2. \/ Absent(n, index.from) \/ Excused(n)
          \/ index.entries[n] >= 1 /\ index.entries[n] + Lag >= index.complete
      BY <3>1 DEF Backed, Marked
    <3>3. Excused(n) => Excused(n)'
      BY DEF Excused, Apart
    <3>4. CASE index.entries[n] >= 1 /\ index.entries[n] + Lag >= index.complete
      <4>1. now - index.entries[n] < NameTTL
        BY <1>1, <1>2, <3>1, <3>4, TimelyHere
      <4>2. CASE n \in l.todo
        BY <1>1, <1>3, <2>1, <3>1, <4>2, TimelyHere
      <4>3. CASE n \notin l.todo
        BY <1>3, <2>1, <3>4, <4>1, <4>3
      <4> QED
        BY <4>2, <4>3
    <3> QED
      BY <3>2, <3>3, <3>4, <2>1
  <2>3. data.complete <= now /\ (data.complete > 0 => data.from >= 1)
    BY <2>1 DEF Backed
  <2> QED
    BY <2>2, <2>3, <1>4, <1>5 DEF Backed
<1> QED
  BY <1>6, <1>7

(* What is known of an invocation stays known while others act.             *)
LEMMA MissStays ==
  ASSUME Types, Timely, NEW l \in Locals, MissLocal(l), kind' = kind, lost => lost',
         NEW w \in SUBSET Names, worlds' = worlds \/ worlds' = Append(worlds, w),
         now' = now \/ now' = now + 1,
         index' = index \/ l.pc \notin {"email", "complete"} \/ l.stale,
         LocalOK(l)
  PROVE  MissLocal(l)'
<1>1. l.pc \in {"truncate", "write"} => Backed(l.snap)'
  BY BackedStays DEF MissLocal, Locals
<1>2. Unread(l)'
  <2> SUFFICES ASSUME l.pc \in {"email", "complete"}, ~l.stale, l.mode = "normal"
               PROVE  index'.entries[l.name] = 0 \/ now' - index'.entries[l.name] >= NameTTL
    BY DEF Unread
  <2>1. index' = index /\ l.name \in Names
    BY DEF LocalOK, SpanOK, PlaceOK, Going
  <2>2. index.entries[l.name] \in Nat /\ now \in Nat /\ NameTTL \in Nat
    BY <2>1, CacheAssumption DEF Types, Data
  <2> QED
    BY <2>1, <2>2 DEF MissLocal, Unread
<1>3. \A n, k : k \in Nat /\ k >= 1 => (Absent(n, k) => Absent(n, k)')
  BY HistoryStays DEF Types
<1>4. MarkOK(l)'
  <2> SUFFICES ASSUME l.pc = "open", l.mark PROVE MarkOK(l)'
    BY DEF MarkOK
  <2>1. l.from \in Nat /\ l.from >= 1
    BY DEF LocalOK, SpanOK, Going, Locals
  <2> QED
    BY <1>3, <2>1 DEF MissLocal, MarkOK, Apart
<1>5. MissOK(l)'
  <2>1. l.trust \in Nat
    BY DEF Locals
  <2> QED
    BY <1>3, <2>1 DEF MissLocal, MissOK, Excused, Apart
<1> QED
  BY <1>1, <1>2, <1>4, <1>5 DEF MissLocal

(* Before it looks, after it looked, there is nothing to know.              *)
LEMMA MissIdle ==
  ASSUME NEW m, m.pc \in {"idle", "get", "search", "sweep", "mark", "mutate", "forget"}
  PROVE  MissLocal(m)
BY DEF MissLocal, Unread, MarkOK, MissOK

(* What a lookup keeps of its answer.                                       *)
LEMMA MissEnded ==
  ASSUME NEW l \in Locals, NEW result, NEW trust,
         l.op = "lookup" /\ result = "missing" =>
           /\ trust >= 1
           /\ Absent(l.name, trust) \/ (kind # "emoji" /\ l.torn) \/ Excused(l.name),
         NEW m, m = Ended(l, result, trust)
  PROVE  MissLocal(m) /\ m.pc \in {"idle", "done"}
<1>1. CASE l.op # "lookup"
  <2>1. m.pc = "idle"
    BY <1>1 DEF Ended, Idle
  <2> QED
    BY <2>1, MissIdle
<1>2. CASE l.op = "lookup"
  <2>1. /\ m.pc = "done" /\ m.result = result /\ m.trust = trust /\ m.name = l.name
        /\ m.torn = l.torn
    BY <1>2, IdleType DEF Ended, Locals
  <2> QED
    BY <1>2, <2>1 DEF MissLocal, Unread, MarkOK, MissOK
<1> QED
  BY <1>1, <1>2

(* A step that leaves the file alone, but for the opening of a save.        *)
LEMMA MissQuiet ==
  ASSUME LiveInv, MissInv, Timely, NEW p \in Procs, Quiet(p), ~OpenCache(p)
  PROVE  \E m \in Locals : /\ MissLocal(m) /\ Become(p, m)
                           /\ Apart /\ ~lost' => KeptMove(loc[p], m)
<1> PICK l \in Locals : l = loc[p] /\ LocalOK(l) /\ Types /\ MissLocal(l)
  BY OneOf DEF MissInv
<1>0. l.from \in Nat /\ index \in Data /\ (Going(l) => l.from >= 1)
  BY DEF Types, LocalOK, SpanOK, Locals
<1> USE DEF KeptMove, Saving, Busy, Unsaved
<1>1. CASE LookIn(p)
  <2> PICK m \in Locals : Become(p, m)
    BY <1>1, LookInLocal
  <2>1. m = loc'[p] /\ l.pc = "get"
    BY <1>1 DEF LookIn, Become, Types
  <2>2. CASE Get(index, l.name, l.mode)
    <3>1. m = Ended(l, "found", index.from)
      BY <1>1, <2>1, <2>2 DEF LookIn, Answer, Become, Types
    <3> QED
      BY <2>1, <3>1, MissEnded
  <2>3. CASE ~Get(index, l.name, l.mode)
    <3> PICK pc \in {"email", "complete"} :
          pc = IF kind = "users" /\ l.name \in Emails THEN "email" ELSE "complete"
      OBVIOUS
    <3>1. m = [l EXCEPT !.stale = FALSE, !.pc = pc]
      BY <1>1, <2>1, <2>3 DEF LookIn, Become, Types
    <3>2. m.pc = pc /\ m.name = l.name /\ m.mode = l.mode
      BY <3>1 DEF Locals
    <3>3. l.name \in Names /\ index.entries[l.name] \in Nat
      BY <2>1 DEF LocalOK, SpanOK, PlaceOK, Going, Types, Data
    <3>4. Unread(m)
      <4>1. now \in Nat /\ NameTTL \in Nat
        BY CacheAssumption DEF Types
      <4> QED
        BY ONLY <2>3, <3>2, <3>3, <4>1 DEF Unread, Get, Reads
    <3>5. MissLocal(m)
      BY <3>2, <3>4 DEF MissLocal, MarkOK, MissOK
    <3> QED
      BY <2>1, <3>2, <3>5
  <2> QED
    BY <2>2, <2>3
<1>2. CASE CachedEmojiSet(p)
  <2> PICK m \in Locals : Become(p, m)
    BY <1>2, CachedEmojiSetLocal
  <2>1. m = loc'[p] /\ l.pc = "get" /\ kind = "emoji" /\ ~Apart
    BY <1>2 DEF CachedEmojiSet, Become, Types, Apart
  <2>2. CASE IsComplete(index, l.mode)
    <3> PICK r \in {"found", "missing"} :
          r = IF index.entries[l.name] > 0 THEN "found" ELSE "missing"
      OBVIOUS
    <3>1. m = Ended(l, r, index.from)
      BY <1>2, <2>1, <2>2 DEF CachedEmojiSet, Answer, Become, Types
    <3>2. r = "missing" /\ l.op = "lookup" => index.from >= 1 /\ (Absent(l.name, index.from) \/ Excused(l.name))
      <4> SUFFICES ASSUME r = "missing", l.op = "lookup"
                   PROVE  index.from >= 1 /\ (Absent(l.name, index.from) \/ Excused(l.name))
        OBVIOUS
      <4>1. Marked(index) /\ index.complete > 0
        BY <2>2 DEF Marked, IsComplete
      <4>2. l.name \in Names
        BY <2>1 DEF LocalOK, SpanOK, Going
      <4>3. ~(index.entries[l.name] >= 1)
        BY <4>2 DEF Data, Types
      <4> QED
        BY <4>1, <4>2, <4>3 DEF MissInv, Backed
    <3> QED
      BY <2>1, <3>1, <3>2, MissEnded
  <2>3. CASE ~IsComplete(index, l.mode)
    <3>1. m = [l EXCEPT !.pc = "sweep", !.from = Len(worlds)]
      BY <1>2, <2>1, <2>3 DEF CachedEmojiSet, Become, Types
    <3>2. m.pc = "sweep"
      BY <3>1 DEF Locals
    <3> QED
      BY <2>1, <3>2, MissIdle
  <2> QED
    BY <2>2, <2>3
<1>3. CASE EmailLookup(p)
  <2> PICK m \in Locals : Become(p, m)
    BY <1>3, EmailLookupLocal
  <2>1. m = loc'[p] /\ l.pc = "email" /\ kind = "users" /\ ~Apart
    BY <1>3 DEF EmailLookup, LocalOK, PlaceOK, Become, Types, Apart
  <2>2. CASE m = Store(l, {l.name}, FALSE, "found")
    <3>1. m.pc = "open" /\ ~m.mark
      BY <2>2 DEF Store, Locals
    <3> QED
      BY <2>1, <3>1 DEF MissLocal, Unread, MarkOK, MissOK
  <2>3. CASE m = [l EXCEPT !.pc = "complete"]
    <3>1. m.pc = "complete" /\ m.stale = l.stale /\ m.mode = l.mode /\ m.name = l.name
      BY <2>3 DEF Locals
    <3>2. Unread(m)
      BY <2>1, <3>1 DEF MissLocal, Unread
    <3> QED
      BY <2>1, <3>1, <3>2 DEF MissLocal, MarkOK, MissOK
  <2> QED
    BY <1>3, <2>1, <2>2, <2>3 DEF EmailLookup, Become, Types
<1>4. CASE AuthoritativeMiss(p)
  <2> PICK m \in Locals : Become(p, m)
    BY <1>4, AuthoritativeMissLocal
  <2>1. m = loc'[p] /\ l.pc = "complete" /\ kind # "emoji" /\ l.op = "lookup" /\ l.name \in Names
    BY <1>4 DEF AuthoritativeMiss, LocalOK, PlaceOK, SpanOK, Going, Become, Types
  <2>2. CASE IsComplete(index, l.mode)
    <3> PICK k : k = [l EXCEPT !.torn = l.torn \/ l.stale]
      OBVIOUS
    <3>1. m = Ended(k, "missing", index.from)
      BY <1>4, <2>1, <2>2 DEF AuthoritativeMiss, Become, Types
    <3>2. k \in Locals
      <4>1. (l.torn \/ l.stale) \in BOOLEAN
        BY DEF Locals
      <4> QED
        BY <4>1 DEF Locals
    <3>3. k.name = l.name /\ (l.stale => k.torn)
      BY DEF Locals
    <3>4. Marked(index) /\ index.complete > 0 /\ l.mode = "normal"
      BY <2>2 DEF Marked, IsComplete, Reads
    <3>5. index.from >= 1 /\ (l.stale \/ Absent(l.name, index.from) \/ Excused(l.name))
      <4> SUFFICES ASSUME ~l.stale, index.entries[l.name] >= 1,
                          index.entries[l.name] + Lag >= index.complete
                   PROVE  FALSE
        BY <2>1, <3>4 DEF MissInv, Backed
      <4>1. index.entries[l.name] = 0 \/ now - index.entries[l.name] >= NameTTL
        BY <2>1, <3>4 DEF MissLocal, Unread
      <4>2. /\ index.entries[l.name] \in Nat /\ index.complete \in Nat /\ now \in Nat
            /\ now - index.complete < CompleteTTL
        BY <2>1, <3>4 DEF Types, Data, Marked
      <4> QED
        BY <4>1, <4>2, TimelyHere
    <3>6. Absent(k.name, index.from) \/ (kind # "emoji" /\ k.torn) \/ Excused(k.name)
      BY <2>1, <3>3, <3>5
    <3>7. MissLocal(m) /\ m.pc \in {"idle", "done"}
      BY ONLY <3>1, <3>2, <3>5, <3>6, MissEnded
    <3> QED
      BY <2>1, <3>7
  <2>3. CASE ~IsComplete(index, l.mode)
    <3> PICK pc \in {"sweep", "search"} : pc = IF kind = "channels" THEN "search" ELSE "sweep"
      OBVIOUS
    <3>1. m = [l EXCEPT !.pc = pc, !.from = Len(worlds)]
      BY <1>4, <2>1, <2>3 DEF AuthoritativeMiss, Become, Types
    <3>2. m.pc = pc /\ m.seen = l.seen
      BY <3>1 DEF Locals
    <3>3. l.seen = {}
      BY <2>1 DEF LocalOK, PlaceOK, Fresh
    <3> QED
      BY <2>1, <3>2, <3>3, MissIdle
  <2> QED
    BY <2>2, <2>3
<1>5. CASE ChannelIDViaSearch(p)
  <2> PICK m \in Locals : Become(p, m)
    BY <1>5, SearchLocal
  <2>1. m = loc'[p] /\ l.pc = "search" /\ l.seen = {}
    BY <1>5 DEF ChannelIDViaSearch, LocalOK, PlaceOK, Fresh, Become, Types
  <2>2. CASE m = Store(l, {l.name}, FALSE, "found")
    <3>1. m.pc = "open" /\ ~m.mark /\ m.seen = l.seen
      BY <2>2 DEF Store, Locals
    <3> QED
      BY <2>1, <3>1 DEF MissLocal, Unread, MarkOK, MissOK
  <2>3. CASE m = [l EXCEPT !.pc = "sweep", !.from = Len(worlds)]
    <3>1. m.pc = "sweep" /\ m.seen = l.seen
      BY <2>3 DEF Locals
    <3> QED
      BY <2>1, <3>1, MissIdle
  <2> QED
    BY <1>5, <2>1, <2>2, <2>3 DEF ChannelIDViaSearch, Become, Types
<1>6. CASE Page(p)
  <2> PICK m \in Locals : Become(p, m)
    BY <1>6, PageLocal
  <2> PICK n, seen, page, k :
        /\ n = PageOrder[l.page] /\ page = l.page + 1
        /\ seen = IF n \in World THEN l.seen \cup {n} ELSE l.seen
        /\ k = [l EXCEPT !.page = page, !.seen = seen]
    OBVIOUS
  <2>1. l.pc = "sweep" /\ m = IF kind = "channels" /\ n \in World
                              THEN Store(k, {n} \cap Listed(k), FALSE, "sweep") ELSE k
    BY <1>6 DEF Page, Become, Types
  <2>2. /\ k.pc = "sweep" /\ k.seen = seen /\ k.op = l.op /\ k.mode = l.mode /\ k.began = l.began
        /\ DOMAIN k = DOMAIN l
    BY <2>1 DEF Locals
  <2>3. CASE kind = "channels" /\ n \in World
    <3> PICK todo : todo = {n} \cap Listed(k)
      OBVIOUS
    <3>1. m = Store(k, todo, FALSE, "sweep")
      BY <2>1, <2>3
    <3>2. /\ m.pc = "open" /\ ~m.mark /\ m.seen = seen /\ m.op = l.op /\ m.mode = l.mode
          /\ m.began = l.began /\ m.todo = todo
      BY ONLY <3>1, <2>2, l \in Locals, k = [l EXCEPT !.page = page, !.seen = seen]
         DEF Store, Locals
    <3>3. l.op # "list" => todo = {n}
      BY <2>2, <2>3 DEF Listed
    <3>4. MissLocal(m)
      BY <3>2 DEF MissLocal, Unread, MarkOK, MissOK
    <3>5. Saving(m) => Saving(l) /\ m.seen \ Unsaved(m) \subseteq l.seen \ Unsaved(l)
      <4> SUFFICES ASSUME Saving(m)
                   PROVE  Saving(l) /\ m.seen \ Unsaved(m) \subseteq l.seen \ Unsaved(l)
        OBVIOUS
      <4>1. Saving(l) /\ l.op # "list"
        BY ONLY Saving(m), <2>1, <3>2 DEF Saving, Busy
      <4>2. Unsaved(m) = {n} /\ Unsaved(l) = {} /\ m.seen = l.seen \cup {n}
        BY ONLY <2>1, <2>3, <3>2, <3>3, <4>1, seen = IF n \in World THEN l.seen \cup {n} ELSE l.seen
           DEF Unsaved
      <4>3. m.seen \ Unsaved(m) \subseteq l.seen \ Unsaved(l)
        BY ONLY <4>2
      <4> QED
        BY ONLY <4>1, <4>3
    <3>6. KeptMove(l, m)
      BY ONLY <2>1, <3>2, <3>5 DEF KeptMove
    <3> QED
      BY <3>4, <3>6
  <2>4. CASE ~(kind = "channels" /\ n \in World)
    <3>1. m = k /\ m.pc = "sweep"
      BY ONLY <2>1, <2>2, <2>4
    <3>2. MissLocal(m)
      BY ONLY <3>1, MissIdle
    <3>3. Apart => kind = "channels"
      BY <1>6 DEF Page, Apart
    <3>4. Apart => seen = l.seen
      BY <2>4, <3>3
    <3>5. Apart => KeptMove(l, m)
      BY ONLY <2>1, <2>2, <3>1, <3>4 DEF KeptMove, Saving, Busy, Unsaved
    <3> QED
      BY <3>2, <3>5
  <2> QED
    BY <2>3, <2>4
<1>7. CASE MatchFound(p)
  <2> PICK m \in Locals : Become(p, m)
    BY <1>7, MatchLocal
  <2>1. l.pc = "sweep" /\ m = Store(l, {l.name}, FALSE, "found")
    BY <1>7 DEF MatchFound, Become, Types
  <2>2. /\ m.pc = "open" /\ ~m.mark /\ m.seen = l.seen /\ m.op = l.op /\ m.mode = l.mode
        /\ m.began = l.began
    BY <2>1 DEF Store, Locals
  <2> QED
    BY <2>1, <2>2 DEF MissLocal, Unread, MarkOK, MissOK
<1>8. CASE WarmTogether(p)
  <2> PICK m \in Locals : Become(p, m)
    BY <1>8, WarmTogetherLocal
  <2> PICK todo, mark, then :
        /\ todo = Listed(l) \ (IF kind = "users" THEN Emails ELSE {})
        /\ mark = Enumerates(l) /\ then = Outcome(l)
    OBVIOUS
  <2>1. /\ l.pc = "sweep" /\ Going(l) /\ l.page > Len(PageOrder) /\ ~Apart
        /\ m = Store(l, todo, mark, then)
    BY <1>8 DEF WarmTogether, AtEnd, Going, Become, Types, Apart
  <2>2. /\ m.pc = "open" /\ m.mark = mark /\ m.from = l.from /\ m.todo = todo
    BY ONLY <2>1, l \in Locals DEF Store, Locals
  <2>3. Covered(l)
    BY <2>1, AllCovered DEF LocalOK
  <2>4. mark => l.op # "list"
    BY DEF Enumerates
  <2>5. MarkOK(m)
    BY <2>1, <2>2, <2>3, <2>4 DEF MarkOK, Covered, Listed
  <2> QED
    BY <2>1, <2>2, <2>5 DEF MissLocal, Unread, MissOK
<1>9. CASE FetchUsergroups(p)
  <2> PICK m \in Locals : Become(p, m)
    BY <1>9, FetchLocal
  <2> PICK k : k = [l EXCEPT !.seen = World]
    OBVIOUS
  <2> PICK todo : todo = Listed(k)
    OBVIOUS
  <2>1. l.pc = "sweep" /\ m = Store(k, todo, FALSE, "mark")
    BY <1>9 DEF FetchUsergroups, Become, Types
  <2>2. k.op = l.op /\ k.seen = World
    BY DEF Locals
  <2>3. m.pc = "open" /\ ~m.mark /\ m.seen = World /\ m.op = l.op /\ m.todo = todo
    BY ONLY <2>1, l \in Locals, k = [l EXCEPT !.seen = World] DEF Store, Locals
  <2>4. l.op # "list" => todo = World
    BY <2>2 DEF Listed
  <2>5. KeptMove(l, m)
    BY <2>1, <2>3, <2>4
  <2>6. MissLocal(m)
    BY <2>3 DEF MissLocal, Unread, MarkOK, MissOK
  <2> QED
    BY <2>5, <2>6
<1>10. CASE MarkApart(p)
  <2> PICK m \in Locals : Become(p, m)
    BY <1>10, MarkApartLocal
  <2> PICK then : then = Outcome(l)
    OBVIOUS
  <2>1. l.pc \in {"sweep", "mark"} /\ Going(l) /\ kind \in {"channels", "usergroups"}
    BY <1>10 DEF MarkApart, Going, LocalOK, PlaceOK
  <2>2. CASE Enumerates(l)
    <3>1. m = Store(l, {}, TRUE, then)
      BY <1>10, <2>2 DEF MarkApart, Become, Types
    <3>2. /\ m.pc = "open" /\ m.seen = l.seen /\ m.op = l.op /\ m.todo = {} /\ m.mode = l.mode
          /\ m.began = l.began
      BY ONLY <3>1, l \in Locals DEF Store, Locals
    <3>3. l.op # "list" /\ Apart
      BY <2>1, <2>2 DEF Enumerates, Apart
    <3>4. KeptMove(l, m)
      BY <2>1, <3>2
    <3>5. MissLocal(m)
      BY <3>2, <3>3 DEF MissLocal, Unread, MarkOK, MissOK
    <3> QED
      BY <3>4, <3>5
  <2>3. CASE ~Enumerates(l)
    <3>1. m = Ended(l, then, l.from)
      BY <1>10, <2>3 DEF MarkApart, Answer, Become, Types
    <3>2. l.op # "lookup"
      BY <2>3 DEF Enumerates
    <3>3. MissLocal(m) /\ m.pc \in {"idle", "done"}
      BY <3>1, <3>2, MissEnded
    <3> QED
      BY <2>1, <3>3
  <2> QED
    BY <2>2, <2>3
<1>11. CASE SweepFails(p) \/ Die(p)
  <2> PICK r \in {"error", "died"} : Answer(p, r, l.from)
    BY <1>11 DEF SweepFails, Die
  <2>1. Going(l)
    BY <1>11 DEF SweepFails, Die, Going
  <2> PICK m \in Locals : Become(p, m)
    BY <2>1, BrokenOffLocal
  <2>2. m = Ended(l, r, l.from)
    BY DEF Answer, Become, Types
  <2>3. MissLocal(m) /\ m.pc \in {"idle", "done"}
    BY <2>2, MissEnded
  <2>4. l.pc \in {"sweep", "mutate", "forget"} \/ lost'
    BY <1>11 DEF SweepFails, Die
  <2> QED
    BY <2>3, <2>4
<1>12. CASE End(p)
  <2>1. Become(p, Idle) /\ Idle.pc = "idle" /\ l.pc = "done"
    BY <1>12 DEF End, Idle
  <2> QED
    BY <2>1, IdleType, MissIdle
<1> QED
  BY <1>1, <1>2, <1>3, <1>4, <1>5, <1>6, <1>7, <1>8, <1>9, <1>10, <1>11, <1>12 DEF Quiet

(* What is known of a record does not depend on whose losses are known.     *)
LEMMA MissSame ==
  ASSUME Types, Timely, UNCHANGED <<kind, index, worlds, now>>, lost => lost',
         NEW m \in Locals, MissLocal(m)
  PROVE  MissLocal(m)'
<1>1. m.snap \in Data
  BY DEF Locals
<1>2. m.pc \in {"truncate", "write"} => Backed(m.snap)'
  BY <1>1, BackedStays DEF MissLocal
<1>3. Unread(m)' /\ MarkOK(m)'
  BY DEF MissLocal, Unread, MarkOK, Apart, Absent
<1>4. MissOK(m)'
  BY DEF MissLocal, MissOK, Absent, Excused, Apart
<1> QED
  BY <1>2, <1>3, <1>4 DEF MissLocal

(* When one invocation moves, what is known of the others stays known.      *)
LEMMA MissMoved ==
  ASSUME LiveInv, MissInv, Timely, NEW p \in Procs, NEW m \in Locals, MissLocal(m)',
         kind' = kind, now' = now, lost => lost',
         NEW w \in SUBSET Names, worlds' = worlds \/ worlds' = Append(worlds, w),
         \/ Become(p, m) /\ index' = index
         \/ loc' = [q \in Procs |-> IF q = p THEN m
                                    ELSE [loc[q] EXCEPT !.stale = loc[q].pc \in Exposed]]
  PROVE  (\A q \in Procs : MissLocal(loc[q]))'
<1>1. ASSUME NEW q \in Procs, NEW k, k = loc'[q]
      PROVE  MissLocal(k)'
  <2>1. CASE q = p
    <3>1. k = m
      BY <1>1, <2>1 DEF Become, LiveInv, Types
    <3> QED
      BY <3>1
  <2>2. CASE q # p
    <3> PICK l \in Locals : l = loc[q] /\ LocalOK(l) /\ Types /\ MissLocal(l)
      BY OneOf DEF MissInv
    <3>1. CASE Become(p, m) /\ index' = index
      <4>1. k = l
        BY <1>1, <2>2, <3>1 DEF Become, LiveInv, Types
      <4> QED
        BY <3>1, <4>1, MissStays
    <3>2. CASE loc' = [r \in Procs |-> IF r = p THEN m
                                       ELSE [loc[r] EXCEPT !.stale = loc[r].pc \in Exposed]]
      <4>0. k = [l EXCEPT !.stale = l.pc \in Exposed]
        BY <1>1, <2>2, <3>2
      <4> PICK b \in BOOLEAN : k = [l EXCEPT !.stale = b] /\ (l.pc \in Exposed => b = TRUE)
        <5>1. CASE l.pc \in Exposed
          <6>1. k = [l EXCEPT !.stale = TRUE]
            BY <4>0, <5>1
          <6> QED
            BY <6>1
        <5>2. CASE l.pc \notin Exposed
          <6>1. (l.pc \in Exposed) = FALSE
            BY ONLY <5>2
          <6>2. k = [l EXCEPT !.stale = FALSE]
            BY ONLY <6>1, <4>0
          <6> QED
            BY <5>2, <6>2
        <5> QED
          BY <5>1, <5>2
      <4>1. k = [l EXCEPT !.stale = b]
        OBVIOUS
      <4>2. k \in Locals /\ LocalOK(k)
        BY <4>1, StaleOK
      <4>3. /\ k.pc = l.pc /\ k.snap = l.snap /\ k.mark = l.mark /\ k.todo = l.todo
            /\ k.op = l.op /\ k.from = l.from /\ k.result = l.result /\ k.trust = l.trust
            /\ k.name = l.name /\ k.torn = l.torn /\ k.stale = b
        BY ONLY <4>1, l \in Locals, b \in BOOLEAN DEF Locals
      <4>4. k.pc \notin {"email", "complete"} \/ k.stale
        BY <4>3 DEF Exposed
      <4>5. MissLocal(k)
        BY <4>3, <4>4 DEF MissLocal, Unread, MarkOK, MissOK
      <4> QED
        BY <4>2, <4>4, <4>5, MissStays
    <3> QED
      BY <3>1, <3>2
  <2> QED
    BY <2>1, <2>2
<1>2. \A q \in Procs : MissLocal(loc[q])'
  BY <1>1
<1> QED
  BY <1>2

(* What must be said of every invocation after a step.                      *)
LEMMA KeptAll ==
  ASSUME loc' \in [Procs -> Locals],
         \A q, r \in Procs : loc'[q].pc = "write" /\ Held(loc'[r]) => q = r,
         \A q \in Procs, j \in Locals :
           j = loc'[q] /\ Saving(j) =>
             /\ \A n \in j.seen \ Unsaved(j) : Kept(n, j.began)'
             /\ j.pc = "truncate" => \A n \in j.todo : j.snap.entries[n] >= j.began
  PROVE  KeptOK'
<1>1. ASSUME NEW q \in Procs, Saving(loc'[q])
      PROVE  /\ (\A n \in loc[q].seen \ Unsaved(loc[q]) : Kept(n, loc[q].began))'
             /\ loc'[q].pc = "truncate" =>
                  \A n \in loc'[q].todo : loc'[q].snap.entries[n] >= loc'[q].began
  <2> PICK j \in Locals : j = loc'[q]
    OBVIOUS
  <2>1. \A n \in j.seen \ Unsaved(j) : Kept(n, j.began)'
    BY <1>1
  <2>2. (\A n \in loc[q].seen \ Unsaved(loc[q]) : Kept(n, loc[q].began))'
    BY ONLY <2>1, j = loc'[q] DEF Kept, Unsaved
  <2> QED
    BY <1>1, <2>2
<1> QED
  BY <1>1 DEF KeptOK

(* A move of one who leaves the file alone keeps every entry.               *)
LEMMA KeptQuiet ==
  ASSUME Types, KeptOK, NEW p \in Procs, NEW m \in Locals, Become(p, m), KeptMove(loc[p], m),
         index' = index
  PROVE  KeptOK'
<1>1. loc'[p] = m /\ \A q \in Procs : q # p => loc'[q] = loc[q]
  BY DEF Become, Types
<1>2. loc[p].pc \notin {"truncate", "write"} /\ m.pc \notin {"truncate", "write"}
  BY DEF KeptMove
<1>3. \A q \in Procs : /\ Held(loc'[q]) => q # p /\ Held(loc[q])
                       /\ loc'[q].pc = "write" <=> loc[q].pc = "write"
  BY <1>1, <1>2 DEF Held
<1>4. \A n, since : Kept(n, since) => Kept(n, since)'
  BY <1>1, <1>3 DEF Kept
<1>5. \A q, r \in Procs : loc'[q].pc = "write" /\ Held(loc'[r]) => q = r
  BY <1>3 DEF KeptOK
<1>6. ASSUME NEW q \in Procs, NEW j \in Locals, j = loc'[q], Saving(j)
      PROVE  /\ \A n \in j.seen \ Unsaved(j) : Kept(n, j.began)'
             /\ j.pc = "truncate" => \A n \in j.todo : j.snap.entries[n] >= j.began
  <2>1. CASE q # p
    <3>1. j = loc[q]
      BY <1>1, <1>6, <2>1
    <3> QED
      BY <1>4, <1>6, <3>1 DEF KeptOK
  <2>2. CASE q = p
    <3>1. j = m
      BY <1>1, <1>6, <2>2
    <3>2. \A n \in m.seen \ Unsaved(m) : Kept(n, m.began)
      BY <1>6, <3>1 DEF KeptMove, KeptOK
    <3> QED
      BY <1>2, <1>4, <3>1, <3>2
  <2> QED
    BY <2>1, <2>2
<1>7. loc' \in [Procs -> Locals]
  BY DEF Become, Types
<1> QED
  BY <1>5, <1>6, <1>7, KeptAll

(* A save that has begun holds every entry that must be kept.               *)
LEMMA KeptOpen ==
  ASSUME LiveInv, Timely, Apart, KeptOK, NEW p \in Procs, loc[p].pc = "open",
         \A q \in Procs : loc[q].pc # "write", index' = index,
         NEW data \in Data, data = Changed(index, loc[p]),
         NEW m \in Locals, Become(p, m),
         m = [loc[p] EXCEPT !.snap = data, !.stale = FALSE, !.pc = "truncate"]
  PROVE  KeptOK'
<1> PICK l \in Locals : l = loc[p] /\ LocalOK(l) /\ Types
  BY OneOf
<1>1. loc'[p] = m /\ \A q \in Procs : q # p => loc'[q] = loc[q]
  BY DEF Become, Types
<1>2. /\ m.pc = "truncate" /\ m.snap = data /\ m.seen = l.seen /\ m.todo = l.todo
      /\ m.began = l.began /\ m.op = l.op /\ m.mode = l.mode
  BY ONLY m = [loc[p] EXCEPT !.snap = data, !.stale = FALSE, !.pc = "truncate"], l = loc[p],
          l \in Locals, data \in Data DEF Locals
<1>3. \A q \in Procs : loc'[q].pc # "write"
  BY <1>1, <1>2
<1>4. \A n \in l.todo : n \in Names
  BY DEF Locals
<1>5. l.began \in Nat /\ l.began <= now /\ now \in Nat
  BY DEF LocalOK, SpanOK, Going, Locals, Types
<1>6. ASSUME NEW q \in Procs, NEW k \in Locals, k = loc[q], Saving(k), NEW n \in Names,
             Kept(n, k.began)
      PROVE  Kept(n, k.began)'
  <2>1. k.began \in Nat /\ k.began <= now /\ now - k.began <= Span
    BY <1>6, OneOf DEF LocalOK, SpanOK, Going, Saving, Busy, Locals
  <2>2. index.entries[n] >= k.began
    BY <1>6 DEF Kept
  <2>3. index.entries[n] \in Nat /\ now \in Nat
    BY DEF Types, Data
  <2>4. now - index.entries[n] < NameTTL
    BY <2>1, <2>2, <2>3, TimelyHere
  <2>5. data.entries[n] >= k.began
    BY <2>1, <2>2, <2>3, <2>4, ChangedEntry DEF Types
  <2>6. ASSUME NEW r \in Procs, Held(loc'[r])
        PROVE  loc'[r].snap.entries[n] >= k.began
    <3>1. CASE r = p
      BY <1>1, <1>2, <2>5, <3>1
    <3>2. CASE r # p
      BY <1>1, <1>6, <2>6, <3>2 DEF Kept
    <3> QED
      BY <3>1, <3>2
  <2>7. index'.entries[n] >= k.began
    BY <2>2
  <2> QED
    BY ONLY <2>6, <2>7 DEF Kept
<1>7. \A q, r \in Procs : loc'[q].pc = "write" /\ Held(loc'[r]) => q = r
  BY <1>3
<1>8. ASSUME NEW q \in Procs, NEW j \in Locals, j = loc'[q], Saving(j)
      PROVE  /\ \A n \in j.seen \ Unsaved(j) : Kept(n, j.began)'
             /\ j.pc = "truncate" => \A n \in j.todo : j.snap.entries[n] >= j.began
  <2>1. CASE q # p
    <3>1. j = loc[q] /\ j.seen \subseteq Names
      BY <1>1, <1>8, <2>1 DEF Locals
    <3>2. \A n \in j.seen \ Unsaved(j) : Kept(n, j.began)'
      BY <1>6, <1>8, <3>1 DEF KeptOK
    <3> QED
      BY <1>8, <3>1, <3>2 DEF KeptOK
  <2>2. CASE q = p
    <3>1. j = m
      BY <1>1, <1>8, <2>2
    <3>2. Saving(l)
      BY <1>2, <1>8, <3>1 DEF Saving, Busy
    <3>3. m.seen \ Unsaved(m) = l.seen \ Unsaved(l) /\ l.seen \subseteq Names
      BY <1>2 DEF Unsaved, Locals
    <3>4. \A n \in l.seen \ Unsaved(l) : Kept(n, l.began)'
      BY <1>6, <3>2, <3>3 DEF KeptOK
    <3>5. \A n \in l.todo : data.entries[n] = now
      BY <1>4, ChangedEntry DEF Types
    <3> QED
      BY <1>2, <1>5, <3>1, <3>3, <3>4, <3>5
  <2> QED
    BY <2>1, <2>2
<1>9. loc' \in [Procs -> Locals]
  BY DEF Become, Types
<1> QED
  BY <1>7, <1>8, <1>9, KeptAll

(* The writer has what must be kept once the file is truncated.             *)
LEMMA KeptTruncate ==
  ASSUME LiveInv, KeptOK, NEW p \in Procs, loc[p].pc = "truncate", ~loc[p].stale,
         NEW m \in Locals, m = [loc[p] EXCEPT !.pc = "write"], NewFile(p, m, Empty),
         loc' \in [Procs -> Locals]
  PROVE  KeptOK'
<1> PICK l \in Locals : l = loc[p] /\ LocalOK(l) /\ Types
  BY OneOf
<1>1. /\ m.pc = "write" /\ m.snap = l.snap /\ m.seen = l.seen /\ m.todo = l.todo
      /\ m.began = l.began /\ m.op = l.op /\ m.mode = l.mode
  BY ONLY m = [loc[p] EXCEPT !.pc = "write"], l = loc[p], l \in Locals DEF Locals
<1>2. Held(l) /\ \A q \in Procs : loc[q].pc # "write"
  BY DEF Held, KeptOK
<1>3. loc'[p] = m
  BY DEF NewFile
<1>4. ASSUME NEW q \in Procs, q # p, NEW j, j = loc'[q], NEW k \in Locals, k = loc[q]
      PROVE  /\ j.pc = k.pc /\ j.seen = k.seen /\ j.todo = k.todo /\ j.began = k.began
             /\ j.op = k.op /\ j.mode = k.mode /\ j.snap = k.snap
             /\ j.pc \in Exposed => j.stale
  <2>1. j = [k EXCEPT !.stale = k.pc \in Exposed]
    BY <1>4 DEF NewFile
  <2> QED
    BY ONLY <2>1, k \in Locals DEF Locals
<1>5. ASSUME NEW q \in Procs, q # p
      PROVE  loc'[q].pc # "write" /\ ~Held(loc'[q])
  <2> PICK k \in Locals : k = loc[q]
    BY OneOf
  <2>1. k.pc # "write"
    BY <1>2
  <2> QED
    BY <1>4, <1>5, <2>1 DEF Held, Exposed
<1>6. ASSUME NEW n, NEW since, Kept(n, since)
      PROVE  Kept(n, since)'
  <2>1. l.snap.entries[n] >= since
    BY <1>2, <1>6 DEF Kept
  <2>2. \A q \in Procs : Held(loc'[q]) => loc'[q].snap.entries[n] >= since
    BY <1>1, <1>3, <1>5, <2>1
  <2>3. loc'[p].pc = "write"
    BY <1>1, <1>3
  <2> QED
    BY ONLY <2>2, <2>3, p \in Procs DEF Kept
<1>7. \A q, r \in Procs : loc'[q].pc = "write" /\ Held(loc'[r]) => q = r
  BY <1>5
<1>8. ASSUME NEW q \in Procs, NEW j \in Locals, j = loc'[q], Saving(j)
      PROVE  /\ \A n \in j.seen \ Unsaved(j) : Kept(n, j.began)'
             /\ j.pc = "truncate" => \A n \in j.todo : j.snap.entries[n] >= j.began
  <2>1. CASE q # p
    <3> PICK k \in Locals : k = loc[q]
      BY OneOf
    <3>1. /\ j.pc = k.pc /\ j.seen = k.seen /\ j.todo = k.todo /\ j.began = k.began
          /\ j.op = k.op /\ j.mode = k.mode /\ j.snap = k.snap
      BY <1>4, <1>8, <2>1
    <3>2. Saving(k) /\ Unsaved(j) = Unsaved(k)
      BY ONLY <3>1, Saving(j) DEF Saving, Busy, Unsaved
    <3>3. /\ \A n \in k.seen \ Unsaved(k) : Kept(n, k.began)
          /\ k.pc = "truncate" => \A n \in k.todo : k.snap.entries[n] >= k.began
      BY <3>2 DEF KeptOK
    <3> QED
      BY ONLY <1>6, <3>1, <3>2, <3>3
  <2>2. CASE q = p
    <3>1. j = m
      BY <1>3, <1>8, <2>2
    <3>2. Saving(l) /\ Unsaved(l) = l.todo
      BY <1>1, <1>8, <3>1 DEF Saving, Busy, Unsaved
    <3>3. /\ \A n \in l.seen \ l.todo : Kept(n, l.began)
          /\ \A n \in l.todo : l.snap.entries[n] >= l.began
      BY <3>2 DEF KeptOK
    <3>4. \A n \in l.seen : l.snap.entries[n] >= l.began
      BY <1>2, <3>3 DEF Kept
    <3>5. \A n \in m.seen : Kept(n, m.began)'
      BY <1>1, <1>3, <1>5, <3>4 DEF Kept
    <3> QED
      BY <1>1, <3>1, <3>5
  <2> QED
    BY <2>1, <2>2
<1>9. loc' \in [Procs -> Locals]
  OBVIOUS
<1> QED
  BY <1>7, <1>8, <1>9, KeptAll

(* What the writer had is in the file once it is written.                   *)
LEMMA KeptWrite ==
  ASSUME LiveInv, KeptOK, NEW p \in Procs, loc[p].pc = "write",
         NEW m \in Locals, m = Resume(loc[p]), NewFile(p, m, loc[p].snap),
         loc' \in [Procs -> Locals]
  PROVE  KeptOK'
<1> PICK l \in Locals : l = loc[p] /\ LocalOK(l) /\ Types
  BY OneOf
<1>1. m.pc \in {"idle", "done"} \/ (/\ m.pc \in {"sweep", "mark"} /\ m.seen = l.seen
                                    /\ m.began = l.began /\ m.op = l.op /\ m.mode = l.mode)
  <2>1. CASE l.then \in {"sweep", "mark"}
    <3>1. m = [l EXCEPT !.pc = l.then, !.snap = Empty, !.todo = {}, !.stale = FALSE]
      BY <2>1 DEF Resume
    <3> QED
      BY ONLY <2>1, <3>1, l \in Locals, EmptyType DEF Locals
  <2>2. CASE l.then \notin {"sweep", "mark"}
    <3>1. m = Ended(l, l.then, l.from)
      BY <2>2 DEF Resume
    <3>2. m.pc \in {"idle", "done"}
      <4>1. CASE l.op # "lookup"
        <5>1. m = Idle
          BY <3>1, <4>1 DEF Ended
        <5> QED
          BY <5>1 DEF Idle
      <4>2. CASE l.op = "lookup"
        <5>1. m.pc = "done"
          BY <3>1, <4>2 DEF Ended, Idle
        <5> QED
          BY <5>1
      <4> QED
        BY <4>1, <4>2
    <3> QED
      BY <3>2
  <2> QED
    BY <2>1, <2>2
<1>2. \A q \in Procs : loc[q].pc = "write" => q = p
  BY DEF Held, KeptOK
<1>3. loc'[p] = m
  BY DEF NewFile
<1>4. ASSUME NEW q \in Procs, q # p, NEW j, j = loc'[q], NEW k \in Locals, k = loc[q]
      PROVE  /\ j.pc = k.pc /\ j.seen = k.seen /\ j.todo = k.todo /\ j.began = k.began
             /\ j.op = k.op /\ j.mode = k.mode /\ j.snap = k.snap
             /\ j.pc \in Exposed => j.stale
  <2>1. j = [k EXCEPT !.stale = k.pc \in Exposed]
    BY <1>4 DEF NewFile
  <2> QED
    BY ONLY <2>1, k \in Locals DEF Locals
<1>5. ASSUME NEW q \in Procs
      PROVE  loc'[q].pc # "write" /\ ~Held(loc'[q])
  <2> PICK k \in Locals : k = loc[q]
    BY OneOf
  <2>1. CASE q = p
    BY <1>1, <1>3, <2>1 DEF Held
  <2>2. CASE q # p
    <3>1. k.pc # "write"
      BY <1>2, <2>2
    <3> QED
      BY <1>4, <2>2, <3>1 DEF Held, Exposed
  <2> QED
    BY <2>1, <2>2
<1>6. \A n, since : Kept(n, since) => Kept(n, since)'
  <2>1. Held(l) /\ index' = l.snap
    BY DEF Held, NewFile
  <2> QED
    BY <1>5, <2>1 DEF Kept
<1>7. \A q, r \in Procs : loc'[q].pc = "write" /\ Held(loc'[r]) => q = r
  BY <1>5
<1>8. ASSUME NEW q \in Procs, NEW j \in Locals, j = loc'[q], Saving(j)
      PROVE  /\ \A n \in j.seen \ Unsaved(j) : Kept(n, j.began)'
             /\ j.pc = "truncate" => \A n \in j.todo : j.snap.entries[n] >= j.began
  <2>1. CASE q # p
    <3> PICK k \in Locals : k = loc[q]
      BY OneOf
    <3>1. /\ j.pc = k.pc /\ j.seen = k.seen /\ j.todo = k.todo /\ j.began = k.began
          /\ j.op = k.op /\ j.mode = k.mode /\ j.snap = k.snap
      BY <1>4, <1>8, <2>1
    <3>2. Saving(k) /\ Unsaved(j) = Unsaved(k)
      BY ONLY <3>1, Saving(j) DEF Saving, Busy, Unsaved
    <3>3. /\ \A n \in k.seen \ Unsaved(k) : Kept(n, k.began)
          /\ k.pc = "truncate" => \A n \in k.todo : k.snap.entries[n] >= k.began
      BY <3>2 DEF KeptOK
    <3> QED
      BY ONLY <1>6, <3>1, <3>2, <3>3
  <2>2. CASE q = p
    <3>1. j = m
      BY <1>3, <1>8, <2>2
    <3>2. /\ m.pc \in {"sweep", "mark"} /\ m.seen = l.seen
          /\ m.began = l.began /\ m.op = l.op /\ m.mode = l.mode
      BY <1>1, <1>8, <3>1 DEF Saving, Busy
    <3>3. Saving(l) /\ Unsaved(l) = {}
      BY ONLY <3>1, <3>2, Saving(j), l = loc[p], loc[p].pc = "write" DEF Saving, Busy, Unsaved
    <3>4. \A n \in l.seen : Kept(n, l.began)
      BY <3>3 DEF KeptOK
    <3> QED
      BY <1>6, <3>1, <3>2, <3>4
  <2> QED
    BY <2>1, <2>2
<1> QED
  BY <1>7, <1>8, KeptAll

(* After a save a lookup is answered from the enumeration it made.          *)
LEMMA MissResume ==
  ASSUME Types, NEW l \in Locals, LocalOK(l), Filing(l), NEW m, m = Resume(l)
  PROVE  MissLocal(m) /\ m.pc \in {"idle", "done", "sweep", "mark"}
<1>1. Going(l) /\ l.from \in Nat /\ l.from >= 1
  BY DEF Filing, Going, LocalOK, SpanOK, Locals
<1>2. CASE l.then \in {"sweep", "mark"}
  <2>1. m = [l EXCEPT !.pc = l.then, !.snap = Empty, !.todo = {}, !.stale = FALSE]
    BY <1>2 DEF Resume
  <2>2. m.pc = l.then
    BY ONLY <2>1, l \in Locals DEF Locals
  <2> QED
    BY <1>2, <2>2, MissIdle
<1>3. CASE l.then \notin {"sweep", "mark"}
  <2>1. m = Ended(l, l.then, l.from)
    BY <1>3 DEF Resume
  <2>2. l.op = "lookup" /\ l.then = "missing" => Absent(l.name, l.from)
    BY <1>1 DEF LocalOK, SeenOK
  <2>3. MissLocal(m) /\ m.pc \in {"idle", "done"}
    BY ONLY <1>1, <2>1, <2>2, l \in Locals, MissEnded
  <2> QED
    BY <2>3
<1> QED
  BY <1>2, <1>3

(* A save begins.                                                           *)
LEMMA MissOpen ==
  ASSUME LiveInv, LiveInv', MissInv, Timely, NEW p \in Procs, OpenCache(p)
  PROVE  MissInv'
<1> PICK l \in Locals : l = loc[p] /\ LocalOK(l) /\ Types /\ MissLocal(l)
  BY OneOf DEF MissInv
<1>1. /\ l.pc = "open" /\ Filing(l) /\ UNCHANGED <<kind, index, worlds, now>>
      /\ lost => lost'
      /\ ~lost' => \A q \in Procs : loc[q].pc # "write"
  BY DEF OpenCache, Filing
<1>2. Apart' <=> Apart
  BY <1>1 DEF Apart
<1>3. {} \in SUBSET Names /\ index \in Data
  BY DEF Types
<1>4. Backed(index)'
  <2> PICK data \in Data : data = index
    BY <1>3
  <2>0. Backed(data)
    BY DEF MissInv
  <2>1. Backed(data)'
    BY <1>1, <1>3, <2>0, BackedStays
  <2>2. data = index'
    BY <1>1
  <2> QED
    BY ONLY <2>1, <2>2 DEF Backed, Marked
<1>5. Apart /\ ~lost' => KeptOK
  BY <1>1 DEF MissInv
<1>6. CASE ~Writes(l.mode)
  <2> PICK m : m = Resume(l)
    OBVIOUS
  <2>1. m \in Locals /\ Become(p, m)
    BY <1>1, <1>6, ResumeOK DEF OpenCache
  <2>2. MissLocal(m) /\ m.pc \in {"idle", "done", "sweep", "mark"}
    BY <1>1, MissResume
  <2>3. MissLocal(m)'
    BY <1>1, <2>1, <2>2, MissSame
  <2>4. (\A q \in Procs : MissLocal(loc[q]))'
    BY <1>1, <1>3, <2>1, <2>3, MissMoved
  <2>5. ~Saving(m)
    <3>1. CASE l.then \in {"sweep", "mark"}
      <4>1. m = [l EXCEPT !.pc = l.then, !.snap = Empty, !.todo = {}, !.stale = FALSE]
        BY <3>1 DEF Resume
      <4>2. m.mode = l.mode
        BY ONLY <4>1, l \in Locals DEF Locals
      <4> QED
        BY <1>6, <4>2 DEF Saving
    <3>2. CASE l.then \notin {"sweep", "mark"}
      <4>1. m = Ended(l, l.then, l.from)
        BY <3>2 DEF Resume
      <4>2. m.pc \in {"idle", "done"}
        BY <4>1, l.op = "lookup" \/ l.op # "lookup" DEF Ended, Idle
      <4> QED
        BY <4>2 DEF Saving, Busy
    <3> QED
      BY <3>1, <3>2
  <2>6. KeptMove(l, m)
    BY <1>1, <2>2, <2>5 DEF KeptMove
  <2>7. Apart /\ ~lost' => KeptOK'
    BY <1>1, <1>5, <2>1, <2>6, KeptQuiet
  <2> QED
    BY <1>2, <1>4, <2>4, <2>7 DEF MissInv
<1>7. CASE Writes(l.mode)
  <2> PICK data \in Data : data = Changed(index, l)
    BY ChangedType DEF Types
  <2> PICK m : m = [l EXCEPT !.snap = data, !.stale = FALSE, !.pc = "truncate"]
    OBVIOUS
  <2>1. m \in Locals
    BY ONLY m = [l EXCEPT !.snap = data, !.stale = FALSE, !.pc = "truncate"], l \in Locals,
            data \in Data DEF Locals, Places
  <2>2. m.pc = "truncate" /\ m.snap = data
    BY ONLY m = [l EXCEPT !.snap = data, !.stale = FALSE, !.pc = "truncate"], l \in Locals
       DEF Locals
  <2>3. Become(p, m)
    BY <1>7 DEF OpenCache
  <2>4. Apart /\ ~lost' /\ l.mark => \A n \in l.seen : index.entries[n] >= l.began
    <3> SUFFICES ASSUME Apart, ~lost', l.mark
                 PROVE  \A n \in l.seen : index.entries[n] >= l.began
      OBVIOUS
    <3>1. l.todo = {} /\ l.op # "list"
      BY <1>1 DEF MissLocal, MarkOK
    <3>2. Saving(l) /\ Unsaved(l) = {}
      BY <1>1, <1>7, <3>1 DEF Saving, Busy, Unsaved
    <3>3. \A n \in l.seen : Kept(n, l.began)
      BY <1>5, <3>2 DEF KeptOK
    <3> QED
      BY <1>1, <3>3 DEF Kept
  <2>5. Backed(data)'
    BY <1>1, <2>4, ChangedBacked DEF MissInv, MissLocal
  <2>6. MissLocal(m)'
    BY <2>2, <2>5 DEF MissLocal, Unread, MarkOK, MissOK
  <2>7. (\A q \in Procs : MissLocal(loc[q]))'
    BY <1>1, <1>3, <2>1, <2>3, <2>6, MissMoved
  <2>8. Apart /\ ~lost' => KeptOK'
    BY <1>1, <1>5, <2>1, <2>3, KeptOpen
  <2> QED
    BY <1>2, <1>4, <2>7, <2>8 DEF MissInv
<1> QED
  BY <1>6, <1>7

(* The file is truncated, written or removed.                               *)
LEMMA MissFile ==
  ASSUME LiveInv, LiveInv', MissInv, Timely, NEW p \in Procs,
         Truncate(p) \/ Write(p) \/ Forget(p)
  PROVE  MissInv'
<1> PICK l \in Locals : l = loc[p] /\ LocalOK(l) /\ Types /\ MissLocal(l)
  BY OneOf DEF MissInv
<1>1. UNCHANGED <<kind, worlds, now>> /\ (lost => lost') /\ {} \in SUBSET Names
  BY DEF Truncate, Write, Forget
<1>2. (Apart' <=> Apart) /\ loc' \in [Procs -> Locals]
  BY <1>1 DEF Apart, LiveInv, Types
<1>3. ASSUME NEW m \in Locals, NEW data \in Data, NewFile(p, m, data), MissLocal(m), Backed(data),
             m.pc \notin {"email", "complete"}
      PROVE  (\A q \in Procs : MissLocal(loc[q]))' /\ Backed(index)'
  <2>1. Backed(data)'
    BY <1>1, <1>3, BackedStays
  <2>2. Backed(index)'
    BY <1>3, <2>1 DEF NewFile, Backed, Marked
  <2>3. m.pc \in {"truncate", "write"} => Backed(m.snap)'
    <3>1. m.snap \in Data
      BY DEF Locals
    <3> QED
      BY <1>1, <1>3, <3>1, BackedStays DEF MissLocal
  <2>4. Unread(m)' /\ MarkOK(m)'
    BY <1>1, <1>3 DEF MissLocal, Unread, MarkOK, Apart, Absent
  <2>5. MissOK(m)'
    BY <1>1, <1>3 DEF MissLocal, MissOK, Absent, Excused, Apart
  <2>6. MissLocal(m)'
    BY <2>3, <2>4, <2>5 DEF MissLocal
  <2> QED
    BY <1>1, <1>3, <2>2, <2>6, MissMoved DEF NewFile
<1>4. CASE Truncate(p)
  <2> PICK m : m = [l EXCEPT !.pc = "write"]
    OBVIOUS
  <2>1. l.pc = "truncate" /\ NewFile(p, m, Empty) /\ (~lost' => ~l.stale /\ ~lost)
    BY <1>4 DEF Truncate
  <2>2. m \in Locals /\ m.pc = "write" /\ m.snap = l.snap
    BY ONLY m = [l EXCEPT !.pc = "write"], l \in Locals DEF Locals, Places
  <2>3. MissLocal(m)
    BY <2>1, <2>2 DEF MissLocal, Unread, MarkOK, MissOK
  <2>4. (\A q \in Procs : MissLocal(loc[q]))' /\ Backed(index)'
    BY <1>3, <2>1, <2>2, <2>3, EmptyType, EmptyBacked
  <2>5. Apart /\ ~lost' => KeptOK'
    BY <1>2, <2>1, <2>2, KeptTruncate DEF MissInv
  <2> QED
    BY <1>2, <2>4, <2>5 DEF MissInv
<1>5. CASE Write(p)
  <2> PICK m : m = Resume(l)
    OBVIOUS
  <2>1. l.pc = "write" /\ Filing(l) /\ NewFile(p, m, l.snap) /\ l.snap \in Data
    BY <1>5 DEF Write, Filing, Locals
  <2>2. m \in Locals
    BY <2>1, ResumeOK
  <2>3. MissLocal(m) /\ m.pc \in {"idle", "done", "sweep", "mark"}
    BY <2>1, MissResume
  <2>4. Backed(l.snap)
    BY <2>1 DEF MissLocal
  <2>5. (\A q \in Procs : MissLocal(loc[q]))' /\ Backed(index)'
    BY <1>3, <2>1, <2>2, <2>3, <2>4
  <2>6. Apart /\ ~lost' => KeptOK'
    BY <1>1, <1>2, <2>1, <2>2, KeptWrite DEF MissInv
  <2> QED
    BY <1>2, <2>5, <2>6 DEF MissInv
<1>6. CASE Forget(p)
  <2> PICK m : m = Ended(l, "done", l.from)
    OBVIOUS
  <2> PICK data : data = Forgotten(l)
    OBVIOUS
  <2>1. l.pc = "forget" /\ NewFile(p, m, data) /\ data \in {Empty, index} /\ index \in Data
    BY <1>6 DEF Forget, Forgotten, Types
  <2>2. m \in Locals
    <3>1. Going(l) /\ "done" \in Answers /\ l.from \in Nat
      BY <2>1 DEF Going, Answers, Locals
    <3> QED
      BY <3>1, EndedOK
  <2>3. MissLocal(m) /\ m.pc \in {"idle", "done"}
    BY ONLY l \in Locals, m = Ended(l, "done", l.from), MissEnded
  <2>4. (\A q \in Procs : MissLocal(loc[q]))' /\ Backed(index)'
    BY <1>3, <2>1, <2>2, <2>3, EmptyType, EmptyBacked DEF MissInv
  <2>5. ASSUME Apart, ~lost'
        PROVE  KeptOK'
    <3>1. l.op = "purge"
      BY <2>1, <2>5 DEF LocalOK, PlaceOK, Apart
    <3>2. \A q \in Procs : ~Busy(loc[q])
      BY <1>6, <2>5, <3>1 DEF Forget, Enumerating, Busy
    <3>3. ASSUME NEW q \in Procs
          PROVE  ~Busy(loc'[q])
      <4> PICK k \in Locals : k = loc[q]
        BY OneOf
      <4>1. CASE q = p
        BY <2>1, <2>3, <4>1 DEF NewFile, Busy
      <4>2. CASE q # p
        <5>1. loc'[q] = [k EXCEPT !.stale = k.pc \in Exposed]
          BY <2>1, <4>2 DEF NewFile
        <5>2. loc'[q].pc = k.pc
          BY ONLY <5>1, k \in Locals DEF Locals
        <5> QED
          BY <3>2, <5>2 DEF Busy
      <4> QED
        BY <4>1, <4>2
    <3> QED
      BY <1>2, <3>3, KeptAll DEF Busy, Saving
  <2> QED
    BY <1>2, <2>4, <2>5 DEF MissInv
<1> QED
  BY <1>4, <1>5, <1>6

(* A step that leaves the file alone.                                       *)
LEMMA MissPassing ==
  ASSUME LiveInv, LiveInv', MissInv, Timely, NEW p \in Procs, NEW m \in Locals, MissLocal(m),
         Become(p, m), Apart /\ ~lost' => KeptMove(loc[p], m),
         UNCHANGED <<kind, index, worlds, now>>, lost => lost'
  PROVE  MissInv'
<1>1. Types /\ {} \in SUBSET Names /\ index \in Data /\ Backed(index)
  BY DEF LiveInv, Types, MissInv
<1>2. Backed(index)'
  <2> PICK data \in Data : data = index
    BY <1>1
  <2>1. Backed(data)'
    BY <1>1, BackedStays
  <2>2. data = index'
    OBVIOUS
  <2> QED
    BY ONLY <2>1, <2>2 DEF Backed, Marked
<1>3. MissLocal(m)'
  BY <1>1, MissSame
<1>4. (\A q \in Procs : MissLocal(loc[q]))'
  BY <1>1, <1>3, MissMoved
<1>5. Apart /\ ~lost' => KeptOK'
  BY <1>1, KeptQuiet DEF MissInv
<1>6. Apart' <=> Apart
  BY DEF Apart
<1> QED
  BY <1>2, <1>4, <1>5, <1>6 DEF MissInv

(* An invocation starts.                                                    *)
LEMMA MissRun ==
  ASSUME LiveInv, LiveInv', MissInv, Timely, NEW p \in Procs, NEW op, NEW n, NEW mode,
         Run(p, op, n, mode)
  PROVE  MissInv'
<1> PICK pc : pc = CASE op = "lookup" -> "get" [] op = "mutate" -> "mutate"
                     [] op = "purge" -> "forget" [] OTHER -> "sweep"
  OBVIOUS
<1> PICK m : m = [Idle EXCEPT !.op = op, !.name = n, !.mode = mode, !.started = Len(worlds),
                    !.floor = settled, !.pc = pc, !.from = Len(worlds), !.began = now]
  OBVIOUS
<1>1. m.pc = pc /\ m.seen = {} /\ pc \in {"get", "mutate", "forget", "sweep"}
  BY DEF Idle
<1>2. Become(p, m) /\ loc[p].pc = "idle"
  BY DEF Run
<1>3. m \in Locals
  <2>1. m = loc'[p]
    BY <1>2 DEF Become, LiveInv, Types
  <2> QED
    BY <2>1 DEF LiveInv, Types
<1>4. MissLocal(m)
  <2>1. m.pc \in {"idle", "get", "search", "sweep", "mark", "mutate", "forget"}
    BY ONLY <1>1
  <2> QED
    BY ONLY <2>1, <1>3, MissIdle
<1>5. KeptMove(loc[p], m)
  BY <1>1, <1>2 DEF KeptMove
<1>6. UNCHANGED <<kind, index, worlds, now>> /\ lost' = lost
  BY DEF Run
<1> QED
  BY <1>2, <1>3, <1>4, <1>5, <1>6, MissPassing

(* A command changes the set of emoji.                                      *)
LEMMA MissMutate ==
  ASSUME LiveInv, LiveInv', MissInv, Timely, NEW p \in Procs, Mutate(p)
  PROVE  MissInv'
<1> PICK l \in Locals : l = loc[p] /\ LocalOK(l) /\ Types
  BY OneOf
<1>1. l.pc = "mutate" /\ kind = "emoji" /\ l.name \in Names
  BY DEF Mutate, LocalOK, PlaceOK, SpanOK, Going
<1> PICK w \in SUBSET Names : w = Toggled(l.name)
  BY <1>1, ToggledName
<1>2. worlds' = Append(worlds, w) /\ UNCHANGED <<kind, index, now, lost>>
  BY DEF Mutate
<1>3. index \in Data /\ Backed(index) /\ ~Apart'
  BY <1>1, <1>2 DEF Types, MissInv, Apart
<1>4. Backed(index)'
  <2> PICK data \in Data : data = index
    BY <1>3
  <2>1. Backed(data)'
    BY <1>2, <1>3, BackedStays
  <2>2. data = index'
    BY <1>2
  <2> QED
    BY ONLY <2>1, <2>2 DEF Backed, Marked
<1> PICK m \in Locals : m = loc'[p]
  BY DEF LiveInv, Types
<1>5. Become(p, m) /\ MissLocal(m)'
  <2>1. CASE Become(p, [l EXCEPT !.pc = "forget", !.from = Len(worlds')])
    <3>1. m = [l EXCEPT !.pc = "forget", !.from = Len(worlds')]
      BY <2>1 DEF Become, Types
    <3>2. m.pc = "forget"
      BY ONLY <3>1, l \in Locals DEF Locals
    <3> QED
      BY <2>1, <3>1, <3>2 DEF MissLocal, Unread, MarkOK, MissOK
  <2>2. CASE Answer(p, "error", l.from)
    <3>1. m = Ended(l, "error", l.from) /\ Become(p, m)
      BY <2>2 DEF Answer, Become, Types
    <3>2. MissLocal(m) /\ m.pc \in {"idle", "done"}
      BY ONLY <3>1, l \in Locals, MissEnded
    <3>3. m.result # "missing" \/ m.pc = "idle"
      BY <3>1, l.op = "lookup" \/ l.op # "lookup" DEF Ended, Idle
    <3> QED
      BY <3>1, <3>2, <3>3 DEF MissLocal, Unread, MarkOK, MissOK
  <2> QED
    BY <2>1, <2>2 DEF Mutate
<1>6. (\A q \in Procs : MissLocal(loc[q]))'
  BY <1>2, <1>5, MissMoved
<1> QED
  BY <1>3, <1>4, <1>6 DEF MissInv

(* The workspace changes, or time passes.                                   *)
LEMMA MissAround ==
  ASSUME LiveInv, MissInv, Timely, Tick \/ (\E n \in Names : Others(n))
  PROVE  MissInv'
<1>1. Types /\ index \in Data /\ Backed(index)
  BY DEF LiveInv, Types, MissInv
<1> PICK w \in SUBSET Names : worlds' = worlds \/ worlds' = Append(worlds, w)
  BY <1>1, ToggledName DEF Tick, Others
<1>2. UNCHANGED <<kind, index, loc, lost>> /\ (now' = now \/ now' = now + 1)
  BY DEF Tick, Others
<1>3. Backed(index)'
  <2> PICK data \in Data : data = index
    BY <1>1
  <2>1. Backed(data)'
    BY <1>1, <1>2, BackedStays
  <2>2. data = index'
    BY <1>2
  <2> QED
    BY ONLY <2>1, <2>2 DEF Backed, Marked
<1>4. ASSUME NEW q \in Procs, NEW k, k = loc'[q]
      PROVE  MissLocal(k)'
  <2> PICK l \in Locals : l = loc[q] /\ LocalOK(l) /\ MissLocal(l)
    BY OneOf DEF MissInv
  <2>1. MissLocal(l)'
    BY <1>1, <1>2, MissStays
  <2>2. k = l
    BY <1>2, <1>4
  <2> QED
    BY <2>1, <2>2
<1>5. \A q \in Procs : MissLocal(loc[q])'
  BY <1>4
<1>6. KeptOK => KeptOK'
  BY <1>2 DEF KeptOK, Kept, Saving, Unsaved, Busy, Held
<1>7. Apart' <=> Apart
  BY <1>2 DEF Apart
<1> QED
  BY <1>2, <1>3, <1>5, <1>6, <1>7 DEF MissInv

(* Every step.                                                              *)
LEMMA NextMiss ==
  ASSUME LiveInv, LiveInv', MissInv, Timely, [Next]_vars
  PROVE  MissInv'
<1>1. CASE Tick \/ \E n \in Names : Others(n)
  BY <1>1, MissAround
<1>2. ASSUME NEW p \in Procs, Step(p)
      PROVE  MissInv'
  <2>1. CASE \E n \in Names, mode \in Modes, op \in Ops \cap {"lookup", "mutate"} :
               Run(p, op, n, mode)
    BY <2>1, MissRun
  <2>2. CASE \E op \in Ops \ {"lookup", "mutate"} : Run(p, op, NoName, "normal")
    BY <2>2, MissRun
  <2>3. CASE Quiet(p) /\ ~OpenCache(p)
    <3> PICK m \in Locals : /\ MissLocal(m) /\ Become(p, m)
                            /\ Apart /\ ~lost' => KeptMove(loc[p], m)
      BY <2>3, MissQuiet
    <3>1. UNCHANGED <<kind, index, worlds, now>>
      BY <2>3 DEF Quiet, LookIn, CachedEmojiSet, EmailLookup, AuthoritativeMiss,
                  ChannelIDViaSearch, Page, MatchFound, WarmTogether, FetchUsergroups,
                  MarkApart, SweepFails, Die, End
    <3>2. lost => lost'
      BY <2>3 DEF Quiet, LookIn, CachedEmojiSet, EmailLookup, AuthoritativeMiss,
                  ChannelIDViaSearch, Page, MatchFound, WarmTogether, FetchUsergroups,
                  MarkApart, SweepFails, Die, End
    <3> QED
      BY <3>1, <3>2, MissPassing
  <2>4. CASE OpenCache(p)
    BY <2>4, MissOpen
  <2>5. CASE Truncate(p) \/ Write(p) \/ Forget(p)
    BY <2>5, MissFile
  <2>6. CASE Mutate(p)
    BY <2>6, MissMutate
  <2> QED
    BY <1>2, <2>1, <2>2, <2>3, <2>4, <2>5, <2>6 DEF Step, Quiet
<1>3. CASE UNCHANGED vars
  <2>1. UNCHANGED <<kind, index, worlds, now, loc, lost>>
    BY <1>3 DEF vars
  <2>2. Backed(index)' /\ (\A q \in Procs : MissLocal(loc[q]))'
    BY <2>1 DEF MissInv, MissLocal, Backed, Marked, Excused, Lag, Apart, Unread, MarkOK, MissOK,
                Absent
  <2>3. Apart' /\ ~lost' => KeptOK'
    BY <2>1 DEF MissInv, Apart, KeptOK, Kept, Saving, Unsaved, Busy, Held
  <2> QED
    BY <2>2, <2>3 DEF MissInv
<1> QED
  BY <1>1, <1>2, <1>3 DEF Next

(* The first state.                                                         *)
LEMMA InitMiss == Init => MissInv
<1> SUFFICES ASSUME Init PROVE MissInv
  OBVIOUS
<1>1. \A q \in Procs : loc[q] = Idle
  BY DEF Init
<1>2. \A q \in Procs : MissLocal(loc[q])
  BY <1>1, MissIdle DEF Idle
<1>3. Backed(index)
  BY InitLive, EmptyBacked DEF Init, LiveInv
<1>4. KeptOK
  BY <1>1 DEF KeptOK, Idle, Saving, Busy
<1> QED
  BY <1>2, <1>3, <1>4 DEF MissInv

(* A lookup that answers "not found" is right about some instant since the  *)
(* enumeration it trusts began, its own or the one behind the mark, whoever *)
(* writes the file meanwhile: for every number of invocations, every        *)
(* workspace and every order of their steps, if entries outlive the mark.   *)
THEOREM MissesAreTrue ==
  ASSUME Timely
  PROVE  Spec => []NotFoundIsTrue
<1>1. MissInv => NotFoundIsTrue
  BY DEF MissInv, MissLocal, MissOK, NotFoundIsTrue, Excused, Apart, Answered
<1>2. LiveInv /\ MissInv /\ [Next]_vars => LiveInv' /\ MissInv'
  BY NextLive, NextMiss
<1> QED
  BY <1>1, <1>2, InitLive, InitMiss, PTL DEF Spec

-----------------------------------------------------------------------------
(* The settings and the downloads (LocalFiles).  No edit of the settings is *)
(* lost and no login page is served, for any number of processes, keys and  *)
(* values, and whatever is killed.                                          *)
(* Where a process holds the lock, edits and downloads; what it remembers.   *)
Holding == {"load", "save"}
Editing == {"lock", "load", "save"}
Writing == {"truncate", "write", "rest"}
Fetching == {"fetch", "read"} \cup Writing
FilePlaces == {"start", "ended"} \cup Editing \cup Fetching
FileKinds == {"absent", "login", "content", "empty", "part", "loginPart", "knownPart",
              "none", "error", "done"}
FileContents == [is : FileKinds, edits : Nat]
Paths == {"file", "canvas"}
Process == [pc : FilePlaces, job : Jobs, seen : [Keys -> Values \cup {None}],
            body : FileContents, since : Nat, result : FileContents]

FileTypes ==
  /\ settings \in [Keys -> Values \cup {None}]
  /\ lock \in Commands \cup {None}
  /\ files \in [Paths -> FileContents]
  /\ open \in [Commands -> {"none", "alone", "shared", "gone"}]
  /\ broken \subseteq Paths
  /\ slack \in [edits : Nat, signedIn : BOOLEAN]
  /\ proc \in [Commands -> Process]

(* What the place of a process says of its job.                             *)
JobFits(s) ==
  /\ s.pc \in Editing => s.job.key \in Keys /\ s.job.value \in Values \cup {None}
  /\ s.pc \in Fetching => s.job.path \in Paths

(* What is loaded is the file as long as the lock is held.                  *)
SeenIsCurrent == \A p \in Commands : At(p, "save") => proc[p].seen = settings

(* The holder of the lock is between the load and the save.                 *)
OneHolder == \A p \in Commands : lock = p <=> proc[p].pc \in Holding

(* A body to be written is whole; on its way to "file" it was refused if it *)
(* was a login page.                                                        *)
BodyFits(s) ==
  s.pc \in Writing => ~IsTorn(s.body) /\ (s.job.path = "file" => ~OfLogin(s.body))

(* Who has a path open is writing it; two that have it open know, and so    *)
(* does the history.                                                        *)
OpenFits(p) ==
  /\ open[p] # "none" <=> proc[p].pc \in {"write", "rest"}
  /\ open[p] = "alone" => \A q \in Commands \ {p} : ~HasOpen(q, Path(p))
  /\ open[p] = "shared" => Path(p) \in broken

(* The invariants.                                                          *)
SettingsInv == OneHolder /\ SeenIsCurrent /\ EditsSurvive
WritersInv == (\A p \in Commands : OpenFits(p)) /\ TornOnlyIfBroken
NoPage(result) == result \notin {LoginPage, KnownLoginPart}
PagesInv ==
  /\ \A p \in Commands : NoPage(proc[p].result) /\ BodyFits(proc[p])
  /\ ~OfLogin(files["file"])
  /\ WritersInv
FilesInv == FileTypes /\ (\A p \in Commands : JobFits(proc[p])) /\ SettingsInv /\ PagesInv

(* A process goes from one state to another, holding the lock exactly when  *)
(* its place says so, and saves only what it holds the lock for.            *)
LEMMA FileMoves ==
  ASSUME FilesInv, NEW p \in Commands,
         proc' \in [Commands -> Process], \A q \in Commands \ {p} : proc'[q] = proc[q],
         JobFits(proc'[p]), BodyFits(proc'[p]), NoPage(proc'[p].result),
         lock' \in Commands \cup {None}, proc'[p].pc \in Holding <=> lock' = p,
         \/ lock' = lock
         \/ lock = None /\ lock' = p
         \/ lock = p /\ lock' = None,
         settings' \in [Keys -> Values \cup {None}], committed' = settings',
         settings' = settings \/ lock = p,
         proc'[p].pc = "save" => proc'[p].seen = settings',
         files' \in [Paths -> FileContents], ~OfLogin(files'["file"]),
         open' \in [Commands -> {"none", "alone", "shared", "gone"}], broken' \subseteq Paths,
         WritersInv', slack' = slack
  PROVE  FilesInv'
<1> USE DEF FilesInv
<1>1. FileTypes'
  BY DEF FileTypes
<1>3. \A q \in Commands : JobFits(proc'[q]) /\ BodyFits(proc'[q]) /\ NoPage(proc'[q].result)
  BY DEF PagesInv
<1>4. OneHolder'
  BY FilesAssumption DEF SettingsInv, OneHolder
<1>5. \A q \in Commands : proc'[q].pc = "save" => proc'[q].seen = settings'
  BY DEF SettingsInv, OneHolder, SeenIsCurrent, At, Holding
<1>6. /\ \A q \in Commands : JobFits(proc[q])'
      /\ \A q \in Commands : (NoPage(proc[q].result) /\ BodyFits(proc[q]))'
      /\ (~OfLogin(files["file"]))'
  BY <1>3 DEF JobFits, BodyFits, NoPage, LoginPage, KnownLoginPart, LoginPart, OfLogin, IsTorn,
              NoBytes, Part
<1> QED
  BY <1>1, <1>4, <1>5, <1>6 DEF SettingsInv, PagesInv, SeenIsCurrent, EditsSurvive, At

(* What a process in a given state may assume.                              *)
LEMMA FilesHere ==
  ASSUME FilesInv, NEW p \in Commands
  PROVE  /\ proc[p] \in Process /\ JobFits(proc[p]) /\ BodyFits(proc[p])
         /\ NoPage(proc[p].result) /\ ~OfLogin(files["file"])
         /\ OpenFits(p) /\ WritersInv
         /\ proc[p].pc \in Holding <=> lock = p
         /\ proc[p].pc = "save" => proc[p].seen = settings
         /\ FileTypes /\ committed = settings
BY DEF FilesInv, FileTypes, SettingsInv, PagesInv, WritersInv, OneHolder, SeenIsCurrent,
       EditsSurvive, At

(* A step that leaves the pages alone, of a process that writes none, leaves *)
(* the writers alone.                                                        *)
LEMMA WritersQuiet ==
  ASSUME FilesInv, NEW p \in Commands, UNCHANGED pages,
         proc' \in [Commands -> Process], \A q \in Commands \ {p} : proc'[q] = proc[q],
         proc[p].pc \notin {"write", "rest"}, proc'[p].pc \notin {"write", "rest"},
         proc'[p].job = proc[p].job
  PROVE  WritersInv'
<1>1. files' = files /\ open' = open /\ broken' = broken
  BY DEF pages
<1>2. open[p] = "none"
  BY FilesHere DEF OpenFits, FileTypes
<1>3. \A q \in Commands : Path(q)' = Path(q) /\ \A x : HasOpen(q, x)' <=> HasOpen(q, x)
  BY <1>1 DEF HasOpen, Path
<1>4. \A q \in Commands : OpenFits(q)'
  BY <1>1, <1>2, <1>3, FilesHere DEF OpenFits
<1>5. TornOnlyIfBroken'
  BY <1>1, <1>3, FilesHere DEF WritersInv, TornOnlyIfBroken, IsTorn, NoBytes, Part, LoginPart,
                               KnownLoginPart
<1> QED BY <1>4, <1>5 DEF WritersInv

(* Nor does one that breaks off what it may be writing leave a part unnoted. *)
LEMMA WritersBreakOff ==
  ASSUME FilesInv, NEW p \in Commands, BreaksOff(p), files' = files,
         proc' \in [Commands -> Process], \A q \in Commands \ {p} : proc'[q] = proc[q],
         proc'[p].pc \notin {"write", "rest"}, proc'[p].job = proc[p].job
  PROVE  /\ WritersInv' /\ broken' \subseteq Paths
         /\ open' \in [Commands -> {"none", "alone", "shared", "gone"}]
<1>1. /\ open' = [open EXCEPT ![p] = "none"]
      /\ broken' = broken \cup {path \in Paths : HasOpen(p, path)}
      /\ broken' \subseteq Paths /\ open' \in [Commands -> {"none", "alone", "shared", "gone"}]
      /\ open'[p] = "none" /\ \A q \in Commands \ {p} : open'[q] = open[q]
  BY FilesHere DEF BreaksOff, FileTypes
<1>2. \A q \in Commands \ {p} : \A x : HasOpen(q, x)' <=> HasOpen(q, x)
  BY <1>1 DEF HasOpen, Path
<1>3. (\A x : ~HasOpen(p, x)') /\ \A q \in Commands : Path(q)' = Path(q)
  BY <1>1 DEF HasOpen, Path
<1>4. \A q \in Commands : OpenFits(q)'
  BY <1>1, <1>2, <1>3, FilesHere DEF OpenFits
<1>5. TornOnlyIfBroken'
  BY <1>1, <1>2, FilesHere DEF FileTypes, WritersInv, TornOnlyIfBroken, IsTorn, NoBytes, Part,
                               LoginPart, KnownLoginPart
<1> QED BY <1>1, <1>4, <1>5 DEF WritersInv

(* A command that ends, with whatever result, lets go of the lock.          *)
LEMMA EndPreserves ==
  ASSUME FilesInv, NEW p \in Commands, NEW r \in FileContents, NoPage(r),
         proc' = [proc EXCEPT ![p].pc = "ended", ![p].result = r],
         lock' = IF lock = p THEN None ELSE lock,
         settings' \in [Keys -> Values \cup {None}], committed' = settings',
         settings' = settings \/ lock = p,
         \/ UNCHANGED pages /\ proc[p].pc \notin {"write", "rest"}
         \/ files' = files /\ BreaksOff(p),
         slack' = slack
  PROVE  FilesInv'
<1>1. /\ proc' \in [Commands -> Process] /\ \A q \in Commands \ {p} : proc'[q] = proc[q]
      /\ proc'[p].pc = "ended" /\ proc'[p].result = r /\ proc'[p].job = proc[p].job
  BY FilesHere DEF FileTypes, Process, FilePlaces
<1>2. JobFits(proc'[p]) /\ BodyFits(proc'[p]) /\ "ended" \notin Holding
  BY <1>1 DEF JobFits, BodyFits, Holding, Editing, Fetching, Writing
<1>3. lock' \in Commands \cup {None} /\ lock' # p
  BY FilesHere, FilesAssumption DEF FileTypes
<1>4. /\ WritersInv' /\ broken' \subseteq Paths
      /\ open' \in [Commands -> {"none", "alone", "shared", "gone"}]
  BY <1>1, WritersQuiet, WritersBreakOff, FilesHere DEF pages, FileTypes
<1>5. files' \in [Paths -> FileContents] /\ ~OfLogin(files'["file"])
  BY FilesHere DEF pages, FileTypes
<1> QED
  BY <1>1, <1>2, <1>3, <1>4, <1>5, FilesHere, FileMoves

(* The commands by what they need.                                          *)
LEMMA JobShapes ==
  ASSUME NEW job \in Jobs
  PROVE  /\ job.op = "get" => job.path \in Paths
         /\ job.op = "unset" => job.key \in Keys /\ job.value = None
BY DEF Jobs, Set, Unset, GetFile, Purge, Paths

(* config set and unset: the lock is taken, the file read, changed, saved.  *)
LEMMA EditPreserves ==
  ASSUME FilesInv, NEW p \in Commands,
         RefuseSetting(p) \/ StartEdit(p) \/ LockSettings(p) \/ LoadSettings(p)
           \/ SaveSettings(p) \/ SaveFails(p)
  PROVE  FilesInv'
<1> USE FilesHere DEF At
<1>0. /\ Failed \in FileContents /\ NoPage(Failed)
      /\ Done \in FileContents /\ NoPage(Done)
  BY DEF FileContents, FileKinds, Failed, Done, NoPage, LoginPage, KnownLoginPart
<1>1. CASE RefuseSetting(p)
  BY <1>0, <1>1, EndPreserves DEF RefuseSetting, Ends, FileTypes, Holding, pages
<1>2. CASE StartEdit(p)
  <2>1. /\ proc' \in [Commands -> Process] /\ \A q \in Commands \ {p} : proc'[q] = proc[q]
        /\ proc'[p].pc = "lock" /\ proc'[p].job = proc[p].job
        /\ proc'[p].result = proc[p].result
    BY <1>2 DEF StartEdit, Goto, FileTypes, Process, FilePlaces, Editing
  <2>2. proc[p].job.key \in Keys /\ proc[p].job.value \in Values \cup {None}
    BY <1>2, JobShapes DEF StartEdit, Edits, Valid, Process
  <2> QED
    BY <1>2, <2>1, <2>2, FileMoves, WritersQuiet
       DEF StartEdit, FileTypes, JobFits, BodyFits, Holding, Editing, Fetching, Writing,
           pages
<1>3. CASE LockSettings(p)
  <2>1. /\ proc' \in [Commands -> Process] /\ \A q \in Commands \ {p} : proc'[q] = proc[q]
        /\ proc'[p].pc = "load" /\ proc'[p].job = proc[p].job
        /\ proc'[p].result = proc[p].result
    BY <1>3 DEF LockSettings, Goto, FileTypes, Process, FilePlaces, Editing
  <2> QED
    BY <1>3, <2>1, FileMoves, WritersQuiet
       DEF LockSettings, FileTypes, JobFits, BodyFits, Holding, Editing, Fetching, Writing,
           pages
<1>4. CASE LoadSettings(p)
  <2>1. /\ proc' \in [Commands -> Process] /\ \A q \in Commands \ {p} : proc'[q] = proc[q]
        /\ proc'[p].pc = "save" /\ proc'[p].job = proc[p].job
        /\ proc'[p].result = proc[p].result /\ proc'[p].seen = settings
    BY <1>4 DEF LoadSettings, FileTypes, Process, FilePlaces, Editing
  <2> QED
    BY <1>4, <2>1, FileMoves, WritersQuiet
       DEF LoadSettings, FileTypes, JobFits, BodyFits, Holding, Editing, Fetching, Writing,
           pages
<1>5. CASE SaveSettings(p)
  <2>1. lock = p
    BY <1>5 DEF SaveSettings, Holding
  <2>2. settings' \in [Keys -> Values \cup {None}] /\ committed' = settings'
    BY <1>5 DEF SaveSettings, FileTypes, JobFits, Editing
  <2> QED
    BY <1>0, <1>5, <2>1, <2>2, EndPreserves DEF SaveSettings, Ends, FileTypes, pages
<1>6. CASE SaveFails(p)
  BY <1>0, <1>6, EndPreserves DEF SaveFails, Ends, FileTypes, Holding, pages
<1> QED
  BY <1>1, <1>2, <1>3, <1>4, <1>5, <1>6

(* The bytes of a body, whole or in part, over what is there.               *)
LEMMA WhatIsWritten ==
  ASSUME FilesInv, NEW p \in Commands, At(p, "write") \/ At(p, "rest")
  PROVE  LET body == proc[p].body
             old == files[Path(p)] IN
         /\ Path(p) \in Paths
         /\ body \in FileContents /\ old \in FileContents /\ ~IsTorn(body)
         /\ Torn(body, old) \subseteq FileContents /\ Written(p) \subseteq FileContents
         /\ open[p] = "alone" => Written(p) = {body}
         /\ Path(p) = "file" => \A c \in Torn(body, old) \cup Written(p) : ~OfLogin(c)
<1> DEFINE body == proc[p].body
           old == files[Path(p)]
<1>1. /\ Path(p) \in Paths /\ body \in FileContents /\ old \in FileContents /\ ~IsTorn(body)
      /\ Path(p) = "file" => ~OfLogin(body) /\ ~OfLogin(old)
  BY FilesHere DEF At, Path, FileTypes, Process, JobFits, BodyFits, Writing, Fetching
<1>2. Part \in FileContents /\ LoginPart \in FileContents /\ KnownLoginPart \in FileContents
  BY DEF Part, LoginPart, KnownLoginPart, FileContents, FileKinds
<1>3. Torn(body, old) \subseteq FileContents
  BY <1>2 DEF Torn
<1>4. Written(p) \subseteq FileContents
  BY <1>1, <1>2, <1>3 DEF Written
<1>5. open[p] = "alone" => Written(p) = {body}
  BY DEF Written
<1>6. ASSUME Path(p) = "file" PROVE \A c \in Torn(body, old) \cup Written(p) : ~OfLogin(c)
  <2>1. ~OfLogin(body) /\ ~OfLogin(old)
    BY <1>1, <1>6
  <2>2. ~OfLogin(Part)
    BY DEF OfLogin, Part, LoginPage, LoginPart, KnownLoginPart
  <2>3. Torn(body, old) = {Part} /\ body # LoginPage
    BY <2>1 DEF Torn, OfLogin
  <2>4. Written(p) \subseteq {body, Part}
    BY <2>3 DEF Written
  <2> QED BY <2>1, <2>2, <2>3, <2>4
<1> QED BY <1>1, <1>3, <1>4, <1>5, <1>6

(* Nothing, and what is opened, has nothing of a login page; nothing is no  *)
(* part of anything.                                                        *)
LEMMA PlainContents ==
  /\ NoFile \in FileContents /\ ~OfLogin(NoFile) /\ ~IsTorn(NoFile) /\ NoPage(NoFile)
  /\ NoBytes \in FileContents /\ ~OfLogin(NoBytes)
  /\ Failed \in FileContents /\ NoPage(Failed) /\ Done \in FileContents /\ NoPage(Done)
  /\ LoginPage \in FileContents /\ ~IsTorn(LoginPage)
  /\ \A n \in Nat : Content(n) \in FileContents /\ ~OfLogin(Content(n)) /\ ~IsTorn(Content(n))
BY DEF NoFile, NoBytes, Failed, Done, LoginPage, Content, FileContents, FileKinds, OfLogin, IsTorn,
       LoginPart, KnownLoginPart, Part, NoPage

(* The file is opened, written, closed and read back.                       *)
LEMMA WritePreserves ==
  ASSUME FilesInv, NEW p \in Commands, TruncateFile(p) \/ WriteSome(p) \/ WriteFile(p)
  PROVE  FilesInv'
<1> USE FilesHere DEF At
<1>1. CASE TruncateFile(p)
  <2> DEFINE path == Path(p)
             others == {q \in Commands \ {p} : HasOpen(q, path)}
  <2>1. /\ proc' \in [Commands -> Process] /\ \A q \in Commands \ {p} : proc'[q] = proc[q]
        /\ proc'[p].pc = "write" /\ proc'[p].job = proc[p].job
        /\ proc'[p].result = proc[p].result /\ proc'[p].body = proc[p].body
    BY <1>1 DEF TruncateFile, Goto, FileTypes, Process, FilePlaces, Fetching, Writing
  <2>2. path \in Paths /\ DOMAIN files = Paths /\ open[p] = "none" /\ proc[p].job.path = path
    BY <1>1 DEF TruncateFile, Path, JobFits, Fetching, Writing, FileTypes, OpenFits
  <2>3. /\ files' \in [Paths -> FileContents] /\ ~OfLogin(files'["file"])
        /\ \A q \in Paths \ {path} : files'[q] = files[q]
    BY <1>1, <2>2, PlainContents DEF TruncateFile, FileTypes, Paths
  <2>4. \A q \in Commands : Path(q)' = Path(q)
    BY <2>1 DEF Path
  <2>5. CASE others = {}
    <3>1. /\ open' = [open EXCEPT ![p] = "alone"] /\ broken' = broken \ {path}
          /\ open' \in [Commands -> {"none", "alone", "shared", "gone"}]
          /\ broken' \subseteq Paths
          /\ open'[p] = "alone" /\ \A q \in Commands \ {p} : open'[q] = open[q]
      BY <1>1, <2>5 DEF TruncateFile, FileTypes
    <3>2. \A q \in Commands \ {p}, x \in Paths : HasOpen(q, x)' <=> HasOpen(q, x)
      BY <2>4, <3>1 DEF HasOpen
    <3>3. \A q \in Commands \ {p} : ~HasOpen(q, path)
      BY <2>5
    <3>4. OpenFits(p)'
      BY <2>1, <2>2, <2>4, <3>1, <3>2, <3>3 DEF OpenFits
    <3>5. ASSUME NEW q \in Commands \ {p} PROVE OpenFits(q)'
      <4>1. OpenFits(q) /\ open[q] \in {"none", "alone", "shared", "gone"}
        BY DEF FileTypes
      <4>2. open[q] \in {"alone", "shared"} => Path(q) # path
        BY <3>3 DEF HasOpen
      <4>3. open[q] = "alone" => ~HasOpen(p, Path(q))'
        BY <2>4, <4>2 DEF HasOpen
      <4>4. open[q] = "alone" => \A r \in Commands \ {q, p} : ~HasOpen(r, Path(q))'
        BY <2>4, <3>1, <4>1 DEF OpenFits, HasOpen
      <4> QED BY <2>1, <2>4, <3>1, <4>1, <4>2, <4>3, <4>4 DEF OpenFits
    <3>6. TornOnlyIfBroken'
      <4> SUFFICES ASSUME NEW x \in Paths, IsTorn(files'[x]), x \notin broken'
                   PROVE  \E q \in Commands : HasOpen(q, x)'
        BY <2>3 DEF TornOnlyIfBroken, IsTorn, NoBytes, Part, LoginPart, KnownLoginPart
      <4>1. CASE x = path
        BY <2>4, <3>1, <4>1 DEF HasOpen
      <4>2. CASE x # path
        <5>1. \E q \in Commands : HasOpen(q, x)
          BY <2>2, <2>3, <3>1, <4>2 DEF WritersInv, TornOnlyIfBroken
        <5>2. ~HasOpen(p, x)
          BY <2>2 DEF HasOpen
        <5> QED BY <3>2, <5>1, <5>2
      <4> QED BY <4>1, <4>2
    <3>7. WritersInv'
      BY <3>4, <3>5, <3>6 DEF WritersInv
    <3> QED
      BY <1>1, <2>1, <2>2, <2>3, <3>1, <3>7, FileMoves
         DEF TruncateFile, FileTypes, JobFits, BodyFits, Holding, Editing, Fetching, Writing
  <2>6. CASE others # {}
    <3>1. /\ open' = [q \in Commands |-> IF q \in others \cup {p} THEN "shared" ELSE open[q]]
          /\ broken' = broken \cup {path}
          /\ open' \in [Commands -> {"none", "alone", "shared", "gone"}]
          /\ broken' \subseteq Paths
      BY <1>1, <2>2, <2>6 DEF TruncateFile, FileTypes
    <3>2. \A q \in Commands \ {p}, x \in Paths : HasOpen(q, x)' <=> HasOpen(q, x)
      BY <2>4, <3>1 DEF HasOpen
    <3>3. \A x \in Paths : HasOpen(p, x)' => x = path
      BY <2>4 DEF HasOpen
    <3>4. OpenFits(p)'
      BY <2>1, <2>2, <2>4, <3>1 DEF OpenFits
    <3>5. ASSUME NEW q \in Commands \ {p} PROVE OpenFits(q)'
      <4>1. OpenFits(q) /\ open[q] \in {"none", "alone", "shared", "gone"}
        BY DEF FileTypes
      <4>2. CASE q \in others
        <5>1. open[q] # "none" /\ open'[q] = "shared" /\ Path(q) = path
          BY <3>1, <4>2 DEF HasOpen
        <5> QED BY <2>1, <2>4, <3>1, <4>1, <5>1 DEF OpenFits
      <4>3. CASE q \notin others
        <5>1. open'[q] = open[q]
          BY <3>1, <4>3
        <5>2. open[q] \in {"alone", "shared"} => Path(q) # path
          BY <4>3 DEF HasOpen
        <5>3. open[q] = "alone" => ~HasOpen(p, Path(q))'
          BY <2>4, <5>2 DEF HasOpen
        <5>4. open[q] = "alone" => \A r \in Commands \ {q, p} : ~HasOpen(r, Path(q))'
          BY <2>4, <3>1, <4>1 DEF OpenFits, HasOpen
        <5> QED BY <2>1, <2>4, <3>1, <4>1, <5>1, <5>3, <5>4 DEF OpenFits
      <4> QED BY <4>2, <4>3
    <3>6. TornOnlyIfBroken'
      <4> SUFFICES ASSUME NEW x \in Paths, IsTorn(files'[x]), x \notin broken'
                   PROVE  \E q \in Commands : HasOpen(q, x)'
        BY <2>3 DEF TornOnlyIfBroken, IsTorn, NoBytes, Part, LoginPart, KnownLoginPart
      <4>1. \E q \in Commands : HasOpen(q, x)
        BY <2>2, <2>3, <3>1 DEF WritersInv, TornOnlyIfBroken
      <4>2. ~HasOpen(p, x)
        BY <2>2 DEF HasOpen
      <4> QED BY <3>2, <4>1, <4>2
    <3>7. WritersInv'
      BY <3>4, <3>5, <3>6 DEF WritersInv
    <3> QED
      BY <1>1, <2>1, <2>2, <2>3, <3>1, <3>7, FileMoves
         DEF TruncateFile, FileTypes, JobFits, BodyFits, Holding, Editing, Fetching, Writing
  <2> QED BY <2>5, <2>6
<1>2. CASE WriteSome(p)
  <2> DEFINE path == Path(p)
  <2>1. /\ proc' \in [Commands -> Process] /\ \A q \in Commands \ {p} : proc'[q] = proc[q]
        /\ proc'[p].pc = "rest" /\ proc'[p].job = proc[p].job
        /\ proc'[p].result = proc[p].result /\ proc'[p].body = proc[p].body
    BY <1>2 DEF WriteSome, Goto, FileTypes, Process, FilePlaces, Fetching, Writing
  <2>2. open' = open /\ broken' = broken
    BY <1>2 DEF WriteSome
  <2>3. \A q \in Commands, x \in Paths : HasOpen(q, x)' <=> HasOpen(q, x)
    BY <2>1, <2>2 DEF HasOpen, Path
  <2>4. /\ files' \in [Paths -> FileContents] /\ ~OfLogin(files'["file"])
        /\ \A x \in Paths : files'[x] = files[x] \/ (x = path /\ open[p] # "gone")
    BY <1>2, WhatIsWritten DEF WriteSome, Puts, FileTypes, Paths
  <2>5. open[p] \in {"alone", "shared", "gone"}
    BY <1>2 DEF WriteSome, OpenFits, FileTypes
  <2>6. \A q \in Commands : OpenFits(q)'
    <3> SUFFICES ASSUME NEW q \in Commands PROVE OpenFits(q)'
      OBVIOUS
    <3>1. Path(q)' = Path(q)
      BY <2>1 DEF Path
    <3>2. proc'[q].pc \in {"write", "rest"} <=> proc[q].pc \in {"write", "rest"}
      BY <1>2, <2>1 DEF WriteSome
    <3>3. \A r \in Commands : HasOpen(r, Path(q))' <=> HasOpen(r, Path(q))
      BY <2>1, <2>2 DEF HasOpen, Path
    <3> QED BY <2>2, <3>1, <3>2, <3>3 DEF OpenFits
  <2>7. TornOnlyIfBroken'
    <3> SUFFICES ASSUME NEW x \in Paths, IsTorn(files'[x]), x \notin broken
                 PROVE  \E q \in Commands : HasOpen(q, x)
      BY <2>2, <2>3, <2>4
         DEF TornOnlyIfBroken, IsTorn, NoBytes, Part, LoginPart, KnownLoginPart
    <3>1. CASE files'[x] = files[x]
      BY <3>1 DEF WritersInv, TornOnlyIfBroken, FileTypes
    <3>2. CASE x = path /\ open[p] # "gone"
      BY <2>5, <3>2 DEF HasOpen
    <3> QED BY <2>4, <3>1, <3>2
  <2>8. WritersInv'
    BY <2>6, <2>7 DEF WritersInv
  <2> QED
    BY <1>2, <2>1, <2>2, <2>4, <2>8, FileMoves
       DEF WriteSome, FileTypes, JobFits, BodyFits, Holding, Editing, Fetching, Writing
<1>3. CASE WriteFile(p)
  <2> DEFINE path == Path(p)
  <2>1. /\ proc' \in [Commands -> Process] /\ \A q \in Commands \ {p} : proc'[q] = proc[q]
        /\ proc'[p].pc = "read" /\ proc'[p].job = proc[p].job
        /\ proc'[p].result = proc[p].result
    BY <1>3 DEF WriteFile, Goto, FileTypes, Process, FilePlaces, Fetching, Writing
  <2>2. /\ open' \in [Commands -> {"none", "alone", "shared", "gone"}] /\ broken' = broken
        /\ open'[p] = "none" /\ \A q \in Commands \ {p} : open'[q] = open[q]
    BY <1>3 DEF WriteFile, FileTypes
  <2>3. \A q \in Commands \ {p}, x \in Paths : HasOpen(q, x)' <=> HasOpen(q, x)
    BY <2>1, <2>2 DEF HasOpen, Path
  <2>4. /\ files' \in [Paths -> FileContents] /\ ~OfLogin(files'["file"])
        /\ \A x \in Paths : \/ files'[x] = files[x] /\ (x = path => open[p] = "gone")
                            \/ x = path /\ open[p] # "gone" /\ files'[x] \in Written(p)
    BY <1>3, WhatIsWritten DEF WriteFile, Puts, FileTypes, Paths
  <2>5. open[p] \in {"alone", "shared", "gone"}
    BY <1>3 DEF WriteFile, OpenFits, FileTypes
  <2>6. \A q \in Commands : OpenFits(q)'
    <3> SUFFICES ASSUME NEW q \in Commands PROVE OpenFits(q)'
      OBVIOUS
    <3>1. Path(q)' = Path(q)
      BY <2>1 DEF Path
    <3>2. \A r \in Commands : HasOpen(r, Path(q))' => HasOpen(r, Path(q))
      BY <2>1, <2>2 DEF HasOpen, Path
    <3> QED BY <2>1, <2>2, <3>1, <3>2 DEF OpenFits
  <2>7. TornOnlyIfBroken'
    <3> SUFFICES ASSUME NEW x \in Paths, IsTorn(files'[x]), x \notin broken
                 PROVE  \E q \in Commands \ {p} : HasOpen(q, x)
      BY <2>2, <2>3, <2>4
         DEF TornOnlyIfBroken, IsTorn, NoBytes, Part, LoginPart, KnownLoginPart
    <3>1. CASE files'[x] = files[x] /\ (x = path => open[p] = "gone")
      <4>1. \E q \in Commands : HasOpen(q, x)
        BY <3>1 DEF WritersInv, TornOnlyIfBroken, FileTypes
      <4> QED BY <3>1, <4>1 DEF HasOpen
    <3>2. CASE x = path /\ open[p] # "gone" /\ files'[x] \in Written(p)
      <4>1. open[p] # "shared"
        BY <3>2 DEF OpenFits
      <4>2. files'[x] = proc[p].body /\ ~IsTorn(proc[p].body)
        BY <1>3, <2>5, <3>2, <4>1, WhatIsWritten DEF WriteFile
      <4> QED BY <4>2
    <3> QED BY <2>4, <3>1, <3>2
  <2>8. WritersInv'
    BY <2>6, <2>7 DEF WritersInv
  <2> QED
    BY <1>3, <2>1, <2>2, <2>4, <2>8, FileMoves
       DEF WriteFile, FileTypes, JobFits, BodyFits, Holding, Editing, Fetching, Writing
<1> QED BY <1>1, <1>2, <1>3

(* The downloads: no command of theirs has to do with the lock.             *)
LEMMA DownloadPreserves ==
  ASSUME FilesInv, NEW p \in Commands,
         LookUp(p) \/ Fetch(p) \/ FetchFails(p) \/ WriteFails(p) \/ ReadBack(p) \/ ReadGone(p)
           \/ PurgeFiles(p)
  PROVE  FilesInv'
<1> USE FilesHere DEF At
<1>1. CASE LookUp(p)
  <2>1. slack.edits \in Nat
    BY DEF FileTypes
  <2>2. /\ proc' \in [Commands -> Process] /\ \A q \in Commands \ {p} : proc'[q] = proc[q]
        /\ proc'[p].pc \in {"fetch", "read"} /\ proc'[p].job = proc[p].job
        /\ proc'[p].result = proc[p].result
    BY <1>1, <2>1 DEF LookUp, FileTypes, Process, FilePlaces, Fetching
  <2>3. proc[p].job.path \in Paths
    BY <1>1, JobShapes DEF LookUp, Process
  <2> QED
    BY <1>1, <2>2, <2>3, FileMoves, WritersQuiet
       DEF LookUp, FileTypes, JobFits, BodyFits, Holding, Editing, Fetching, Writing, pages
<1>2. CASE Fetch(p)
  <2>1. /\ Fetched(p) \in FileContents /\ ~IsTorn(Fetched(p))
        /\ Path(p) = "file" => ~OfLogin(Fetched(p))
    BY <1>2, PlainContents DEF Fetch, Fetched, AllowHTML, FileTypes
  <2>2. /\ proc' \in [Commands -> Process] /\ \A q \in Commands \ {p} : proc'[q] = proc[q]
        /\ proc'[p].pc = "truncate" /\ proc'[p].job = proc[p].job
        /\ proc'[p].result = proc[p].result /\ proc'[p].body = Fetched(p)
    BY <1>2, <2>1 DEF Fetch, FileTypes, Process, FilePlaces, Fetching, Writing
  <2> QED
    BY <1>2, <2>1, <2>2, FileMoves, WritersQuiet
       DEF Fetch, Path, FileTypes, JobFits, BodyFits, Holding, Editing, Fetching, Writing, pages
<1>3. CASE FetchFails(p)
  BY <1>3, PlainContents, EndPreserves DEF FetchFails, Ends, FileTypes, Holding, pages
<1>4. CASE WriteFails(p)
  BY <1>4, PlainContents, EndPreserves DEF WriteFails, Ends, FileTypes, Holding
<1>5. CASE ReadBack(p)
  <2>1. Path(p) \in Paths
    BY <1>5 DEF ReadBack, Path, JobFits, Fetching
  <2> DEFINE content == files[Path(p)]
             r == IF Path(p) = "canvas" /\ IsAuthPage(content) THEN Failed ELSE content
  <2>2. r \in FileContents /\ NoPage(r)
    BY <2>1, PlainContents DEF FileTypes, Paths, IsAuthPage, NoPage, OfLogin
  <2>3. proc' = [proc EXCEPT ![p].pc = "ended", ![p].result = r]
    BY <1>5 DEF ReadBack, Ends
  <2> HIDE DEF r
  <2> QED
    BY <1>5, <2>2, <2>3, EndPreserves DEF ReadBack, FileTypes, Holding, pages
<1>6. CASE ReadGone(p)
  BY <1>6, PlainContents, EndPreserves DEF ReadGone, Ends, FileTypes, Holding, pages
<1>7. CASE PurgeFiles(p)
  <2>1. /\ proc' \in [Commands -> Process] /\ \A q \in Commands \ {p} : proc'[q] = proc[q]
        /\ proc'[p].pc = "ended" /\ proc'[p].job = proc[p].job /\ proc'[p].result = Done
    <3>1. Done \in FileContents /\ proc' = [proc EXCEPT ![p].pc = "ended", ![p].result = Done]
      BY <1>7, PlainContents DEF PurgeFiles, Ends
    <3> QED BY <3>1 DEF FileTypes, Process, FilePlaces
  <2>2. /\ files' = [path \in Paths |-> NoFile] /\ broken' = {}
        /\ open' = [q \in Commands |-> IF open[q] = "none" THEN "none" ELSE "gone"]
    BY <1>7 DEF PurgeFiles, FileTypes
  <2>3. open[p] = "none"
    BY <1>7 DEF PurgeFiles, OpenFits
  <2>4. \A q \in Commands : OpenFits(q)'
    BY <2>1, <2>2, <2>3 DEF OpenFits
  <2>5. TornOnlyIfBroken'
    BY <2>2 DEF TornOnlyIfBroken, IsTorn, NoFile, NoBytes, Part, LoginPart, KnownLoginPart
  <2>6. WritersInv'
    BY <2>4, <2>5 DEF WritersInv
  <2> QED
    BY <1>7, <2>1, <2>2, <2>6, PlainContents, FileMoves
       DEF PurgeFiles, FileTypes, JobFits, BodyFits, Holding, Editing, Fetching, Writing, Paths
<1> QED
  BY <1>1, <1>2, <1>3, <1>4, <1>5, <1>6, <1>7

(* Nothing is held, edited or downloaded at the start.                      *)
LEMMA InitFiles == FilesInit => FilesInv
<1> SUFFICES ASSUME FilesInit PROVE FilesInv
  OBVIOUS
<1> USE DEF FilesInit
<1>1. FileTypes
  BY DEF FileTypes, Process, FilePlaces, FileContents, FileKinds, NoFile, NoResult, Paths
<1>2. \A p \in Commands : proc[p].pc = "start" /\ proc[p].result = NoResult
  OBVIOUS
<1>3. \A p \in Commands : JobFits(proc[p]) /\ BodyFits(proc[p])
  BY <1>2 DEF JobFits, BodyFits, Editing, Fetching, Writing
<1>4. SettingsInv
  BY <1>2, FilesAssumption
     DEF SettingsInv, OneHolder, SeenIsCurrent, EditsSurvive, Holding, At
<1>5. PagesInv
  BY <1>2, <1>3 DEF PagesInv, WritersInv, OpenFits, TornOnlyIfBroken, IsTorn, OfLogin, NoPage, NoResult, NoFile,
         NoBytes, Part, LoginPart, KnownLoginPart, LoginPage
<1> QED
  BY <1>1, <1>3, <1>4, <1>5 DEF FilesInv

(* Every step keeps them.                                                   *)
LEMMA NextFiles == FilesInv /\ [FilesNext]_filesVars => FilesInv'
<1> SUFFICES ASSUME FilesInv, [FilesNext]_filesVars PROVE FilesInv'
  OBVIOUS
<1>1. ASSUME NEW p \in Commands, FilesStep(p) PROVE FilesInv'
  BY <1>1, EditPreserves, WritePreserves, DownloadPreserves DEF FilesStep
<1>2. ASSUME NEW p \in Commands, Kill(p) PROVE FilesInv'
  <2>1. NoResult \in FileContents /\ NoPage(NoResult)
    BY DEF NoResult, FileContents, FileKinds, NoPage, LoginPage, KnownLoginPart
  <2> QED
    BY <1>2, <2>1, FilesHere, EndPreserves DEF Kill, Ends, FileTypes
<1>3. CASE EditCanvas \/ SignOut \/ SignIn \/ UNCHANGED filesVars
  <2>1. UNCHANGED <<settings, lock, files, open, broken, proc, committed>>
    BY <1>3 DEF EditCanvas, SignOut, SignIn, filesVars, pages
  <2>2. slack' \in [edits : Nat, signedIn : BOOLEAN]
    <3>1. slack \in [edits : Nat, signedIn : BOOLEAN]
      BY DEF FilesInv, FileTypes
    <3>2. CASE EditCanvas
      BY <3>1, <3>2 DEF EditCanvas
    <3>3. CASE SignOut \/ SignIn \/ UNCHANGED filesVars
      BY <3>1, <3>3 DEF SignOut, SignIn, filesVars
    <3> QED
      BY <1>3, <3>2, <3>3
  <2> QED
    BY <2>1, <2>2
       DEF FilesInv, FileTypes, JobFits, BodyFits, SettingsInv, OneHolder, SeenIsCurrent, At,
           EditsSurvive, PagesInv, WritersInv, OpenFits, TornOnlyIfBroken, HasOpen, Path, IsTorn,
           OfLogin, NoPage, NoBytes, Part, LoginPart, KnownLoginPart, LoginPage
<1> QED
  BY <1>1, <1>2, <1>3 DEF FilesNext, AllEnded

(* Every reachable state is well typed, and a process is between the load   *)
(* and the save of the settings exactly when it holds their lock (fslock).  *)
THEOREM FilesAreTyped == FilesSpec => []FilesTypeOK
<1>1. FilesInv => FilesTypeOK
  BY DEF FilesInv, FileTypes, SettingsInv, OneHolder, Holding, FilesTypeOK
<1> QED
  BY InitFiles, NextFiles, <1>1, PTL DEF FilesSpec

(* Two edits of the settings never lose one another's keys: every key has   *)
(* what the last edit of it to succeed gave it, because an edit loads what  *)
(* it changes under the lock it saves it under (settings.mutate).           *)
THEOREM SettingsKeepEdits == FilesSpec => []EditsSurvive
<1>1. FilesInv => EditsSurvive
  BY DEF FilesInv, SettingsInv
<1> QED
  BY InitFiles, NextFiles, <1>1, PTL DEF FilesSpec

(* A login page is never handed over, whoever signs out while what runs,    *)
(* is killed or fails to write: one to be saved as a file was refused by    *)
(* its content type, one saved as a canvas is known by its title or form,   *)
(* and a part of one that shows neither is only where two wrote at once or  *)
(* a write broke off (DownloadFile, canvas.go).                             *)
THEOREM LoginPagesStay == FilesSpec => []NoLoginPageServed
<1>1. FilesInv => NoLoginPageServed
  BY DEF FilesInv, PagesInv, WritersInv, NoPage, NoLoginPageServed
<1> QED
  BY InitFiles, NextFiles, <1>1, PTL DEF FilesSpec

-----------------------------------------------------------------------------
(* The cache directory beside them (CacheTree), for any tree of it and any   *)
(* identities.                                                               *)
Tree == INSTANCE CacheTree

(* What a command or an older layout may have left in it.                    *)
Trees == SUBSET [key : {Tree!Root} \cup (STRING \X STRING), part : STRING]
PurgeFlags == [all : BOOLEAN, downloads : BOOLEAN, workspace : BOOLEAN]

(* PurgeAllCaches leaves the downloads of identities and nothing else.       *)
LEMMA AllCaches ==
  ASSUME NEW tree \in Trees
  PROVE  Tree!PurgeAllCaches(tree) = {e \in tree : e.key # Tree!Root /\ e.part = "downloads"}
<1>1. ASSUME NEW e \in tree, e.key # Tree!Root
      PROVE  (\A key \in Tree!CachedIdentityKeys(tree) : e \in Tree!PurgeCacheDir(tree, key))
               <=> e.part = "downloads"
  <2>1. e.key \in Tree!CachedIdentityKeys(tree)
    BY <1>1 DEF Tree!CachedIdentityKeys
  <2>2. \A key \in Tree!CachedIdentityKeys(tree) : key # Tree!Root
    BY DEF Tree!CachedIdentityKeys
  <2> QED BY <1>1, <2>1, <2>2 DEF Tree!PurgeCacheDir
<1> QED BY <1>1 DEF Tree!PurgeAllCaches, Tree!PurgeLegacyArtifacts

(* PurgeAllDownloads leaves all but the downloads of identities.             *)
LEMMA AllDownloads ==
  ASSUME NEW tree \in Trees
  PROVE  Tree!PurgeAllDownloads(tree) = {e \in tree : e.key = Tree!Root \/ e.part # "downloads"}
<1>1. ASSUME NEW e \in tree
      PROVE  (\A key \in Tree!CachedIdentityKeys(tree) : e \in Tree!PurgeDownloads(tree, key))
               <=> (e.key = Tree!Root \/ e.part # "downloads")
  <2>1. e = Tree!Entry(e.key, e.part)
    BY DEF Tree!Entry, Trees
  <2>2. \A key : Tree!Entry(key, "downloads").key = key
                   /\ Tree!Entry(key, "downloads").part = "downloads"
    BY DEF Tree!Entry
  <2>3. e.key # Tree!Root => e.key \in Tree!CachedIdentityKeys(tree)
    BY DEF Tree!CachedIdentityKeys
  <2>4. \A key \in Tree!CachedIdentityKeys(tree) : key # Tree!Root
    BY DEF Tree!CachedIdentityKeys
  <2> QED BY <2>1, <2>2, <2>3, <2>4 DEF Tree!PurgeDownloads
<1> QED BY <1>1 DEF Tree!PurgeAllDownloads

(* What `cache purge` does by its flags, for one identity and for all.       *)
LEMMA PurgeLeaves ==
  ASSUME NEW tree \in Trees, NEW o \in PurgeFlags, NEW key
  PROVE  LET left == Tree!CachePurge(tree, o, key) IN
         /\ left.refused => left.tree = tree
         /\ left.tree \subseteq tree
         /\ ~left.refused /\ o.all =>
              left.tree = {e \in tree : e.key # Tree!Root /\ e.part = "downloads" /\ ~o.downloads}
         /\ ~left.refused /\ ~o.all =>
              left.tree = {e \in tree : e.key = key =>
                             IF e.part = "downloads" THEN ~o.downloads
                             ELSE o.downloads /\ ~o.workspace}
<1> DEFINE left == Tree!CachePurge(tree, o, key)
<1>1. CASE o.all
  <2>1. Tree!PurgeAllDownloads(tree) \in Trees
    BY AllDownloads DEF Trees
  <2>2. CASE o.downloads
    <3>1. left = Tree!Done(Tree!PurgeAllCaches(Tree!PurgeAllDownloads(tree)))
      BY <1>1, <2>2 DEF Tree!CachePurge, Tree!ClearDownloads, Tree!ClearResolution, Tree!Done
    <3>2. Tree!PurgeAllCaches(Tree!PurgeAllDownloads(tree)) = {}
      BY AllDownloads, AllCaches, <2>1
    <3> QED BY <1>1, <2>2, <3>1, <3>2 DEF Tree!Done
  <2>3. CASE ~o.downloads
    <3>1. left = Tree!Done(Tree!PurgeAllCaches(tree))
      BY <1>1, <2>3 DEF Tree!CachePurge, Tree!ClearResolution, Tree!Done
    <3> QED BY <1>1, <2>3, <3>1, AllCaches DEF Tree!Done
  <2> QED BY <2>2, <2>3
<1>2. CASE ~o.all /\ key = Tree!Root
  <2>1. left = Tree!Refused(tree)
    BY <1>2 DEF Tree!CachePurge, Tree!ClearDownloads, Tree!ClearResolution, Tree!Selected,
                Tree!Done, Tree!Refused
  <2> QED BY <2>1 DEF Tree!Refused
<1>3. CASE ~o.all /\ key # Tree!Root
  <2>1. \A t \in Trees : Tree!PurgeDownloads(t, key)
                           = {e \in t : e.key = key => e.part # "downloads"}
    <3> SUFFICES ASSUME NEW t \in Trees, NEW e \in t
                 PROVE  e # Tree!Entry(key, "downloads")
                          <=> (e.key = key => e.part # "downloads")
      BY <1>3 DEF Tree!PurgeDownloads
    <3> QED BY DEF Tree!Entry, Trees
  <2>2. \A t : Tree!PurgeCacheDir(t, key) = {e \in t : e.key = key => e.part = "downloads"}
    BY <1>3 DEF Tree!PurgeCacheDir
  <2>3. CASE ~o.downloads
    <3>1. left = Tree!Done(Tree!PurgeCacheDir(tree, key))
      BY <1>3, <2>3 DEF Tree!CachePurge, Tree!ClearResolution, Tree!Selected, Tree!Done
    <3> QED BY <1>3, <2>2, <2>3, <3>1 DEF Tree!Done
  <2>4. CASE o.downloads /\ ~o.workspace
    <3>1. left = Tree!Done(Tree!PurgeDownloads(tree, key))
      BY <1>3, <2>4 DEF Tree!CachePurge, Tree!ClearDownloads, Tree!Selected, Tree!Done
    <3> QED BY <1>3, <2>1, <2>4, <3>1 DEF Tree!Done
  <2>5. CASE o.downloads /\ o.workspace
    <3>1. left = Tree!Done(Tree!PurgeCacheDir(Tree!PurgeDownloads(tree, key), key))
      BY <1>3, <2>5 DEF Tree!CachePurge, Tree!ClearDownloads, Tree!ClearResolution,
                        Tree!Selected, Tree!Done
    <3> QED BY <1>3, <2>1, <2>2, <2>5, <3>1 DEF Tree!Done
  <2> QED BY <2>3, <2>4, <2>5 DEF PurgeFlags
<1> QED BY <1>1, <1>2, <1>3 DEF PurgeFlags

(* A purge takes what its flags name and nothing else, whatever identities   *)
(* share the cache (registerCachePurge): PurgeTakesWhatItNames.              *)
THEOREM PurgesAreExact ==
  ASSUME NEW tree \in Trees, NEW o \in PurgeFlags, NEW key
  PROVE  Tree!PurgeTakesWhatItNames(tree, o, key)
<1> DEFINE left == Tree!CachePurge(tree, o, key)
<1>1. CASE left.refused
  <2>1. left.refused => ~o.all
    BY DEF Tree!CachePurge, Tree!ClearDownloads, Tree!ClearResolution, Tree!Done
  <2> QED BY <1>1, <2>1, PurgeLeaves DEF Tree!PurgeTakesWhatItNames
<1>2. CASE ~left.refused /\ o.all
  BY <1>2, PurgeLeaves DEF Tree!PurgeTakesWhatItNames
<1>3. CASE ~left.refused /\ ~o.all
  BY <1>3, PurgeLeaves DEF Tree!PurgeTakesWhatItNames
<1> QED BY <1>1, <1>2, <1>3

(* Removing an account takes all that its identity left, nothing of another, *)
(* and leaves nothing that could not be seen and purged afterwards (the      *)
(* remove command, PurgeIdentityDir): RemovedIdentitiesLeaveNothing.         *)
THEOREM RemovalsAreExact ==
  ASSUME NEW tree \in Trees, NEW key
  PROVE  Tree!RemovedIdentitiesLeaveNothing(tree, key)
<1> DEFINE left == Tree!PurgeIdentityDir(tree, key)
<1>1. key # Tree!Root => \A e \in left : e.key # key
  BY DEF Tree!PurgeIdentityDir
<1>2. \A e \in tree : e.key # key => e \in left
  BY DEF Tree!PurgeIdentityDir
<1>3. \A e \in left : e.key \in Tree!CachedIdentityKeys(left) <=> e.key # Tree!Root
  BY DEF Tree!CachedIdentityKeys
<1>4. key # Tree!Root => key \notin Tree!CachedIdentityKeys(left)
  BY <1>1 DEF Tree!CachedIdentityKeys
<1>5. {e \in left : e.key # Tree!Root /\ e.part # "emoji-images"}
        = Tree!Reported(left, Tree!CachedIdentityKeys(left))
  BY <1>3 DEF Tree!Reported
<1> HIDE DEF left
<1> QED BY <1>2, <1>4, <1>5 DEF left, Tree!RemovedIdentitiesLeaveNothing
==============================================================================
