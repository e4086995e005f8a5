---------------------------- MODULE MCAlgorithms ----------------------------
(***************************************************************************)
(* The pure modules over bounded inputs: one step picks an input of one    *)
(* module, and what each promises is an invariant of the picked inputs.    *)
(***************************************************************************)
EXTENDS Naturals, Sequences, SequencesExt, FiniteSets, TLC

VARIABLE input

Start == [kind |-> "start"]
Init == input = Start
Pick(kind, in) == input' = [kind |-> kind, in |-> in]

Seqs(S, n) == UNION {[1..k -> S] : k \in 0..n}

-----------------------------------------------------------------------------
Times == INSTANCE Schedule WITH MaxScheduleDays <- 120

Clocks ==
  {Times!Clock(h, m, "24") : h \in {0, 9, 12, 23, 24}, m \in {0, 30, 60}}
    \cup {Times!Clock(h, m, half) : h \in {0, 1, 11, 12, 13}, m \in {0, 59}, half \in {"am", "pm"}}
    \cup {Times!Noon, Times!Midnight, Times!DefaultClock}
Nows == {1440 * d + m : d \in {7, 10, 13}, m \in {0, 540, 720, 1439}}
Arguments ==
  {Times!Words(next, day, clock) : next \in BOOLEAN, day \in 0..8, clock \in Clocks}
Plain ==
  {Times!Duration(n, u) : n \in {0, 1, 121}, u \in {"m", "h", "d"}}
    \cup {Times!Moment(t, written) : t \in {1, 12000, 190000}, written \in {"unix", "zoned", "bare"}}

PickTime ==
  input = Start /\ \E arg \in Arguments \cup Plain, now \in Nows :
    /\ arg.form = "words" /\ arg.day \in {Times!Today, Times!Tomorrow} => ~arg.next
    /\ Pick("time", [arg |-> arg, now |-> now])

(* A named time is the next such moment, and the one that a reminder gets.  *)
TimesMeanTheNextMoment ==
  input.kind = "time" =>
    /\ input.in.arg.form = "words" => Times!WordsMeanTheNextMoment(input.in.arg, input.in.now)
    /\ Times!RemindersAgree(input.in.arg, input.in.now)

-----------------------------------------------------------------------------
(* Two workspaces of a grid whose hosts share a part, and one apart, whose   *)
(* name may still be that of another.                                        *)
MCUrls == {"https://acme", "https://acme-eu", "https://beta"}
MCHostOf == ("https://acme" :> "acme.slack") @@ ("https://acme-eu" :> "acme-eu.slack")
              @@ ("https://beta" :> "beta.slack")
MCSlugOf == ("https://acme" :> "acme") @@ ("https://acme-eu" :> "acme-eu")
              @@ ("https://beta" :> "beta")
MCWithin ==
  {"acme"} \X {"acme-2", "acme-eu", "acme.slack", "acme-eu.slack", "https://acme", "https://acme-eu"}
    \cup {"acme-eu"} \X {"acme-eu.slack", "https://acme-eu"}
    \cup {"beta"} \X {"beta.slack", "https://beta"}
    \cup {"slack"} \X {"acme.slack", "acme-eu.slack", "beta.slack"}
    \cup {"acme", "https://acme"} \X {"was https://acme"}
MCNumbered == [slug \in {"acme", "acme-eu", "beta"} |->
                CASE slug = "acme" -> <<"acme-2", "acme-3", "acme-4">>
                  [] slug = "beta" -> <<"beta-2", "beta-3", "beta-4">>
                  [] OTHER -> <<"acme-eu-2", "acme-eu-3", "acme-eu-4">>]

Paths == INSTANCE Targets WITH
  Urls <- MCUrls, HostOf <- MCHostOf, SlugOf <- MCSlugOf, Within <- MCWithin,
  Numbered <- MCNumbered, ChannelIds <- {"C1", "C2"}, UserIds <- {"U1"},
  CanvasIds <- {"F1"}, Stamps <- {"t1", "t2"}, DigitsOf <- [t1 |-> "p1", t2 |-> "p2"],
  IdOfChannel <- [general |-> "C1"], DmOf <- [U1 |-> "D1"]

Named(alias, url, token) == Paths!Account(alias, url, Paths!None, "browser", token, Paths!None)
Stores ==
  {Paths!Store(ws, default) :
     ws \in {<<>>, <<Named("acme", "https://acme", "x1")>>,
             <<Named("acme", "https://acme", "x1"), Named("acme-2", "https://acme", "x2")>>,
             <<Named("work", "https://acme", "x1"), Named("acme", "https://acme-eu", "none")>>,
             <<Named("acme", "https://acme", "none"), Named("beta", "https://beta", "x2")>>,
             <<[Named("beta", "https://beta", "x1") EXCEPT !.name = "was https://acme"]>>},
     default \in {Paths!None, "acme", "gone"}}
Words == {Paths!None, "acme", "acme-2", "acme-eu", "slack", "https://acme", "https://beta",
          "acme-eu.slack", "nothing"}
Incoming ==
  {Named(alias, url, "x9") : alias \in {Paths!None, "acme", "acme-eu"}, url \in MCUrls}

PickAccount ==
  input = Start /\ \E store \in Stores, added \in Incoming, selector \in Words, second \in MCUrls :
    Pick("account", [store |-> store, added |-> added, selector |-> selector,
                     teams |-> <<Named(Paths!None, added.url, "x9"), Named(Paths!None, second, "x8")>>])

(* Neither an account more nor an import moves what is there.               *)
AccountsStayThemselves ==
  input.kind = "account" =>
    /\ Paths!SelectorsKeepTheirMeaning(input.in.store, input.in.added, input.in.selector)
    /\ Paths!ImportsKeepTheRest(input.in.store, input.in.teams)

Inputs ==
  {Paths!Url(ws, slack, path, thread, cid) :
     ws \in MCUrls, slack \in BOOLEAN, thread \in {Paths!None, "t1", "bad"}, cid \in BOOLEAN,
     path \in {<<>>, <<"archives">>, <<"archives", "C1">>, <<"archives", "C1", "p1">>,
               <<"archives", "C1", "junk">>, <<"archives", "D9">>, <<"docs", "T1", "F1">>}}
    \cup {Paths!Text(mark, word) : mark \in {"", "#", "@"}, word \in {"C1", "U1", "general"}}
Envs == {[token |-> Paths!None, cookie |-> FALSE, url |-> Paths!None]}
          \cup {[token |-> token, cookie |-> cookie, url |-> url] :
                  token \in {"xoxb", "xoxc"}, cookie \in BOOLEAN, url \in MCUrls \cup {Paths!None}}

PickTarget ==
  input = Start /\ \E in \in Inputs, store \in Stores, env \in Envs :
    Pick("target", [in |-> in, store |-> store, env |-> env])

(* A permalink is read and acted on in the workspace that it names.         *)
PermalinksKeepTheirMeaning ==
  input.kind = "target" =>
    /\ Paths!PermalinksReadBack(input.in.in)
    /\ \A flag \in {Paths!None, "acme", "https://beta"}, required \in BOOLEAN,
          desktop \in {{}, {[url |-> "https://beta"]}} :
         Paths!PermalinksStayHome(input.in.in, input.in.store, input.in.env, desktop, flag, required)

-----------------------------------------------------------------------------
(* Days of ten seconds, runs of three; u1 and u2 share a name.              *)
Texts == INSTANCE Transcript WITH
  DaySeconds <- 10, GroupWindow <- 3, NameOf <- [u1 |-> "Ann", u2 |-> "Ann"]

Speakers == {<<"u1", Texts!None, Texts!None>>, <<"u2", Texts!None, Texts!None>>,
             <<"none", "B1", Texts!None>>, <<"none", "B1", "Ann">>, <<"none", Texts!None, Texts!None>>}
Spoken == {Texts!Message(ts, thread, s[1], s[2], s[3]) :
             ts \in {-1, 8, 9, 11}, thread \in {-2, 8}, s \in Speakers}

PickTranscript ==
  input = Start /\ \E messages \in Seqs(Spoken, 2) \cup [1..3 -> {m \in Spoken : m.user # "none" /\ m.thread = 8}],
     threadMode \in BOOLEAN :
    Pick("transcript", [messages |-> messages, threadMode |-> threadMode])

(* A transcript says who said what when.                                    *)
TranscriptsReadBack ==
  input.kind = "transcript" => Texts!TranscriptReadsBack(input.in.messages, input.in.threadMode)

-----------------------------------------------------------------------------
Waiting == INSTANCE Inbox WITH PageLimit <- 2

System(flag) == [system |-> flag]
Histories ==
  {Waiting!NoHistory}
    \cup {Waiting!History(m, more) : m \in Seqs({System(TRUE), System(FALSE)}, 3), more \in BOOLEAN}
UnreadOf(id) ==
  {Waiting!Entry(id, type, mentions, count, read, info, history) :
     type \in {"channel", "mpim", "dm"}, mentions \in 0..1, count \in {Waiting!Unknown, 3},
     read \in BOOLEAN, info \in {Waiting!None, "dm"}, history \in Histories}
Quiet == Waiting!Entry("quiet", "channel", 0, 1, TRUE, Waiting!None, Waiting!NoHistory)

PickUnreads ==
  input = Start /\ \E entry \in UnreadOf("C1"), countsOnly, includeSystem \in BOOLEAN, limit \in 1..2 :
    Pick("unreads", [entries |-> <<Quiet, entry>>, countsOnly |-> countsOnly, limit |-> limit,
                     includeSystem |-> includeSystem])

SavedItems == {Waiting!Saved(0, state, message, kept) :
                 state \in {"in_progress", "completed"}, message \in BOOLEAN, kept \in {TRUE}}
                 \cup {Waiting!Saved(0, "archived", TRUE, FALSE)}
PickLater ==
  input = Start /\ \E items \in Seqs(SavedItems, 5), state \in {"in_progress", "done", "all"}, limit \in 1..3 :
    Pick("later", [items |-> [n \in DOMAIN items |-> [items[n] EXCEPT !.id = n]],
                   state |-> state, limit |-> limit])

(* Nothing that waits is hidden by a page, a failure or a section.          *)
NothingWaitsUnseen ==
  /\ input.kind = "unreads" =>
       Waiting!UnreadsAreReported(input.in.entries, input.in.countsOnly, input.in.limit, input.in.includeSystem)
  /\ input.kind = "later" =>
       Waiting!ShortListIsWhole(input.in.items, input.in.state, input.in.limit)

-----------------------------------------------------------------------------
(* Two spellings of one label; a label with a comma whose parts are labels  *)
(* of other options.                                                        *)
MCWords == {"none", "", "OK", "ok", "No", "a1", "a2", "v1", "v2", "v3", "hi", "Size", "size", "When",
            "U1", "U2", "2026-01-02", "15:04"}
MCFolded == [t \in MCWords |-> CASE t = "OK" -> "ok" [] t = "Size" -> "size" [] OTHER -> t]

Flows == INSTANCE Workflows WITH
  Folded <- MCFolded, TriggerOfLink <- [none |-> "none", l1 |-> "Ft1", l2 |-> "Ft2", page |-> "none"]

Offered == <<Flows!Option(<<"OK">>, <<"v1">>), Flows!Option(<<"No">>, <<"v2">>),
             Flows!Option(<<"OK", "No">>, <<"v3">>)>>
Buttons ==
  {Flows!Element(type, action, label, link, Offered, Flows!NoEntry) :
     type \in {"button", "static_select", "image"}, action \in {"none", "a1"},
     label \in {"OK", "No"}, link \in {FALSE}}
    \cup {Flows!Element("button", "a2", label, TRUE, <<>>, Flows!NoEntry) : label \in {"ok", "No"}}
Blocks == {<<Flows!Block("actions", "B1", e), Flows!Block(type, "B2", f)>> :
             e \in Seqs(Buttons, 2), f \in Seqs(Buttons, 1), type \in {"section", "input"}}
Distinct(block) ==
  \A n, k \in DOMAIN block.elements : n # k => block.elements[n].action # block.elements[k].action

PickPress ==
  input = Start /\ \E blocks \in {b \in Blocks : Distinct(b[1])}, label \in {"none", "OK", "a1"},
     action \in {"none", "a1"}, block \in {"none", "B1", "B2"} :
    Pick("press", [blocks |-> blocks, sel |-> Flows!Selector(label, action, block)])

Held == {<<"plain_text_input", Flows!Entry("value", <<"hi">>)>>,
         <<"static_select", Flows!Entry("selected_option", <<Offered[3]>>)>>,
         <<"checkboxes", Flows!Entry("selected_options", <<Offered[1], Offered[2]>>)>>,
         <<"multi_static_select", Flows!Entry("selected_options", <<Offered[3]>>)>>,
         <<"datepicker", Flows!Entry("selected_date", <<"2026-01-02">>)>>,
         <<"timepicker", Flows!Entry("selected_time", <<"15:04">>)>>,
         <<"multi_users_select", Flows!Entry("selected_users", <<<<"U1">>, <<"U2">>>>)>>,
         <<"users_select", Flows!Entry("selected_user", <<<<"U1">>>>)>>,
         <<"datetimepicker", Flows!NoEntry>>}
InputsOf(block, action, titles) ==
  UNION {{Flows!Input(block, title, optional, Flows!Element(h[1], action, "", FALSE, Offered, initial), live) :
            title \in titles, optional \in BOOLEAN, initial \in {Flows!NoEntry, h[2]},
            live \in {Flows!NoEntry, h[2]}} : h \in Held}
Values == {<<>>, <<"OK">>, <<"ok", "No">>, <<"v2", "OK">>, <<"U1">>, <<"15:04">>}
Fillings == {<<>>} \cup [{"size"} -> Values] \cup [{"When"} -> Values] \cup [{"Size", "When"} -> Values]

PickView ==
  input = Start /\ \E first \in InputsOf("B1", "a1", {"Size"}), second \in InputsOf("B2", "a2", {"When", "size"}),
     fields \in Fillings :
    Pick("view", [view |-> <<first, second>>, fields |-> fields])

Schemas == [1..2 -> {Flows!Field(name, title, required) :
                       name \in {"a1", "a2"}, title \in {"Size", "When"}, required \in BOOLEAN}]
PickForm ==
  input = Start /\ \E first \in InputsOf("B1", "a1", {"Size"}), second \in InputsOf("B2", "a2", {"When"}),
     schema \in Schemas, fields \in [{"size"} -> Values \ {<<>>}] \cup [{"size", "When"} -> Values \ {<<>>}] :
    /\ \A x \in {first, second} : ~x.optional /\ x.live = Flows!NoEntry /\ x.element.initial = Flows!NoEntry
    /\ Pick("form", [view |-> <<first, second>>, schema |-> schema, fields |-> fields])

Bookmarks == {Flows!Bookmark(id, link, shortcut) :
                id \in {"none", "bk"}, link \in {"none", "l1", "page"}, shortcut \in {"none", "Ft1", "Ft2"}}
FeaturedOf == {[channel |-> channel, triggers |-> triggers] :
                 channel \in {"C1", "C2"}, triggers \in Seqs({"Ft1", "Ft3", "none"}, 2)}

PickWorkflows ==
  input = Start /\ \E bookmarks \in Seqs(Bookmarks, 2), entries \in Seqs(FeaturedOf, 1) :
    Pick("workflows", [bookmarks |-> bookmarks, entries |-> entries])

(* What is shown of a message, a form or a channel's workflows is what can   *)
(* be pressed, sent or run.                                                  *)
FormsMeanWhatTheyShow ==
  /\ input.kind = "press" => Flows!ListedActionsCanBePressed(input.in.blocks, input.in.sel)
  /\ input.kind = "view" => Flows!ShownValuesAreKept(input.in.view, input.in.fields)
  /\ input.kind = "form" =>
       Flows!ValidFieldsAreSubmitted(input.in.view, input.in.schema, input.in.fields)
  /\ input.kind = "workflows" => Flows!ListAndRunAgree(input.in.bookmarks, input.in.entries, "C1")

-----------------------------------------------------------------------------
(* Drafts to edit: one of its own, and one in a thread with a file.          *)
Written == INSTANCE Compose
Drafts == {[thread |-> thread, files |-> files] : thread \in {"none", "root"}, files \in BOOLEAN}

PickMessage ==
  input = Start /\ \E o \in Written!Options, draft \in Drafts :
    Pick("message", [options |-> o, draft |-> draft])

-----------------------------------------------------------------------------
(* A question at 2 with a reply at 4, and a later message of the user's.     *)
Watching == INSTANCE WatchCommand WITH
  ThreadOf <- (2 :> -1) @@ (4 :> 2) @@ (6 :> -1),
  OwnDM <- "D1", Channel <- "C1", Self <- "me", Other <- "U1"

Links == {Watching!Permalink(ch, ts, hint) : ch \in {"C1", "D1"}, ts \in {2, 4}, hint \in {-1, 2}}
Flags == [events : {{}, {"message"}, {"reaction"}, {"message", "edit"}, {"delete", "typo"}},
          reactions : {{}, {"eyes"}}, from : {{}, {"U1"}}, since : {-1, 2, 8},
          conversation : Links \cup {Watching!NoWord, Watching!Stamp(2), Watching!Word("junk", -1, -1, "none")},
          known : BOOLEAN, browser : BOOLEAN, poll : BOOLEAN]
Awaits == {f @@ [command |-> "await", includeSelf |-> FALSE, threads |-> FALSE, target |-> target,
                 threadFlag |-> thread] :
             f \in Flags, thread \in {-1, 2},
             target \in Links \cup {Watching!Word("name", -1, -1, ch) : ch \in {"C1", "D1"}}}
Streams == {f @@ [command |-> "stream", includeSelf |-> FALSE, threads |-> FALSE, bounded |-> bounded,
                  channels |-> channels] :
              f \in Flags, bounded \in BOOLEAN, channels \in {<<>>, <<"C1">>, <<"D1">>, <<"C1", "D1">>}}

PickWatch ==
  input = Start /\ \E o \in Awaits \cup Streams : Pick("watch", o)

(* A message carries what its options ask for, and each turn of a           *)
(* conversation, however it is named, hears what answers it.                 *)
CommandsDoWhatIsAsked ==
  /\ input.kind = "message" =>
       /\ Written!SendsWhatIsAsked(input.in.options)
       /\ Written!DraftsAreWhatSendPosts(input.in.options)
       /\ Written!EditsStayInThread(input.in.options, input.in.draft)
  /\ input.kind = "watch" =>
       /\ Watching!EveryTurnHearsTheAnswers(input.in)
       /\ Watching!ThreadAwaitsHearReplies(input.in)

-----------------------------------------------------------------------------
(* Two ids of one category in every state of the cache, one of each other.   *)
MCIds == {"u1", "u2", "c1", "c2", "s1", "s2"}
MCCategoryOf == [id \in MCIds |-> CASE id \in {"u1", "u2"} -> "users"
                                   [] id \in {"c1", "c2"} -> "channels" [] OTHER -> "usergroups"]
Mentions == INSTANCE References WITH
  Ids <- MCIds, CategoryOf <- MCCategoryOf, EntryTTL <- 3, GetTTL <- 1, CompleteTTL <- 2

Known == {"u1", "c1", "s1"}      \* in the cache of the categories held still
Caches(category) ==
  {Mentions!World([id \in MCIds |-> IF MCCategoryOf[id] # category THEN (IF id \in Known THEN 0 ELSE -1)
                                    ELSE IF id \in Known THEN one ELSE other],
                  [c \in Mentions!Categories |-> IF c = category THEN mark ELSE -1],
                  MCIds \ dead, unlisted, failing) :
     one \in {-1, 0, 1, 3}, other \in {-1, 0, 1, 3}, mark \in {-1, 1, 2},
     dead \in SUBSET {id \in MCIds : MCCategoryOf[id] = category},
     unlisted \in SUBSET {id \in {"u2", "c2"} : MCCategoryOf[id] = category},
     failing \in SUBSET ({id \in MCIds : MCCategoryOf[id] = category} \cup {Mentions!TheList})}
Talk == {<<[said |-> <<"u1", "c1", "u1", "s1">>, reacted |-> <<"u2">>],
           [said |-> <<"u2", "c2", "s2", "x">>, reacted |-> <<>>]>>,
         <<[said |-> <<"u1">>, reacted |-> <<"u2", "c1">>]>>}

PickReferences ==
  input = Start /\ \E category \in Mentions!Categories, messages \in Talk, includeReactions \in BOOLEAN :
    \E world \in Caches(category) :
      Pick("references", [world |-> world,
                          ids |-> Mentions!CollectReferencedIDs(messages, includeReactions)])

(* The identities of two teams, and what older versions left.                *)
Tree == INSTANCE CacheTree
Keys == {Tree!IdentityCacheKey(team, user) : team \in {"", "T1", "T2"}, user \in {"", "U1", "U2"}}
Trees == {(UNION {Tree!LeftBy(key) : key \in keys} \cup legacy) \ missing :
            keys \in SUBSET Keys, legacy \in {{}, {Tree!Legacy}},
            missing \in SUBSET {Tree!Entry(<<"T1", "U1">>, part) : part \in Tree!Parts}}

PickPurge ==
  input = Start /\ \E tree \in Trees, key \in Keys, all, downloads, workspace \in BOOLEAN :
    Pick("purge", [tree |-> tree, key |-> key,
                   flags |-> [all |-> all, downloads |-> downloads, workspace |-> workspace]])

(* What is cached is shown while it is good, and goes when it is told to.    *)
TheCacheServesItsReaders ==
  /\ input.kind = "references" =>
       /\ Mentions!ReadsAskOnlyForMisses(input.in.world, input.in.ids)
       /\ Mentions!NoFailureHidesTheRest(input.in.world, input.in.ids)
       /\ Mentions!HintsAreExact(input.in.world, input.in.ids)
  /\ input.kind = "purge" =>
       /\ Tree!PurgeTakesWhatItNames(input.in.tree, input.in.flags, input.in.key)
       /\ Tree!RemovedIdentitiesLeaveNothing(input.in.tree, input.in.key)

-----------------------------------------------------------------------------
Next ==
  \/ PickTime \/ PickAccount \/ PickTarget \/ PickTranscript
  \/ PickUnreads \/ PickLater \/ PickPress \/ PickView \/ PickForm \/ PickWorkflows
  \/ PickMessage \/ PickWatch \/ PickReferences \/ PickPurge

Spec == Init /\ [][Next]_input
=============================================================================
