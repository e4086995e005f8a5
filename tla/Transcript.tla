------------------------------ MODULE Transcript ------------------------------
(***************************************************************************)
(* --format transcript (render/transcript.go, cli/transcript.go): a run of *)
(* messages as text that states a day once, at a divider, and a speaker    *)
(* once, at the first message of a run.  A line is a record of what can be *)
(* read on it; a message's body is left out.                               *)
(***************************************************************************)
EXTENDS Integers, Sequences, SequencesExt

CONSTANTS
  DaySeconds,  \* seconds in a day, GroupWindow seconds in a run
  GroupWindow,
  NameOf       \* what the cache knows: a function from user ids to names

None == "none"
Unparseable == -1

(* A summary as read: ts is Unparseable or in seconds, thread the root's ts *)
(* or NoThread.                                                             *)
NoThread == -2
Message(ts, thread, user, bot, botName) ==
  [ts |-> ts, thread |-> thread, user |-> user, bot |-> bot, botName |-> botName]

(* formatTranscriptTime.                                                    *)
NoDate == -1
DateOf(ts) == IF ts = Unparseable THEN NoDate ELSE ts \div DaySeconds
ClockOf(ts) == IF ts = Unparseable THEN ts ELSE ts % DaySeconds

(* resolveName, speakerParts: the (name, id) that a header shows.           *)
ResolveName(id) == IF id \in DOMAIN NameOf THEN NameOf[id] ELSE id

SpeakerParts(m) ==
  CASE m.user # None -> <<ResolveName(m.user), m.user>>
    [] m.botName # None -> <<m.botName, "app">>
    [] m.bot # None -> <<m.bot, "app">>
    [] OTHER -> <<"unknown", "unknown">>

(* Seeded fault: the speakers of a run are told apart by the name shown.    *)
SpeakerKeyByName(m) == <<"name", SpeakerParts(m)[1]>>

(* speakerKey: NoKey is never a run.                                        *)
NoKey == <<"none", "none">>
SpeakerKey(m) ==
  CASE m.user # None -> <<"u", m.user>>
    [] m.botName # None -> <<"b", m.botName>>
    [] m.bot # None -> <<"b", m.bot>>
    [] OTHER -> NoKey

(* newTranscriptMeta; printTranscript's depth.                              *)
DepthOf(m, threadMode) == IF threadMode /\ m.thread # NoThread /\ m.thread # m.ts THEN 1 ELSE 0

Meta(m, threadMode) ==
  [date |-> DateOf(m.ts), ts |-> m.ts, speaker |-> SpeakerKey(m), depth |-> DepthOf(m, threadMode)]

GroupedWith(prev, cur) ==
  /\ cur.speaker # NoKey /\ cur.speaker = prev.speaker
  /\ cur.depth = prev.depth
  /\ cur.date # NoDate /\ cur.date = prev.date
  /\ cur.ts - prev.ts <= GroupWindow

(* daySeparator, transcriptHeader and transcriptPrefixes as lines.          *)
DaySeparator(date) == [line |-> "day", date |-> date]
Gap == [line |-> "gap"]
Header(m, meta, grouped, last) ==
  [line |-> "header", clock |-> ClockOf(m.ts), dated |-> m.ts # Unparseable,
   speaker |-> IF grouped THEN <<>> ELSE SpeakerParts(m),
   prefix |-> IF meta.depth = 0 THEN "root" ELSE IF last THEN "last" ELSE "reply"]

(* RenderTranscript, one message at a time: the date of the last divider,   *)
(* and the lines.                                                           *)
LastReply(metas, i) == i = Len(metas) \/ metas[i + 1].depth < metas[i].depth

AddMessage(messages, metas, out, i) ==
  LET meta == metas[i]
      newDay == meta.date # NoDate /\ meta.date # out.date
      grouped == ~newDay /\ i > 1 /\ GroupedWith(metas[i - 1], meta)
      blank == IF i > 1 /\ ~grouped THEN <<Gap>> ELSE <<>>
      day == IF newDay THEN <<DaySeparator(meta.date)>> ELSE <<>>
  IN [date |-> IF newDay THEN meta.date ELSE out.date,
      lines |-> out.lines \o blank \o day
                  \o <<Header(messages[i], meta, grouped, LastReply(metas, i))>>]

RenderTranscript(messages, threadMode) ==
  LET metas == [i \in DOMAIN messages |-> Meta(messages[i], threadMode)]
      Add(out, i) == AddMessage(messages, metas, out, i)
      numbers == [i \in DOMAIN messages |-> i]
  IN FoldLeft(Add, [date |-> NoDate, lines |-> <<>>], numbers).lines

-----------------------------------------------------------------------------
(* A reader: knows the day of the last divider and the last speaker named,  *)
(* and takes a blank line for the end of a run.                             *)
ReadLine(reader, l) ==
  CASE l.line = "day" -> [reader EXCEPT !.date = l.date]
    [] l.line = "gap" -> [reader EXCEPT !.speaker = <<>>]
    [] OTHER ->
         LET speaker == IF l.speaker = <<>> THEN reader.speaker ELSE l.speaker
         IN [reader EXCEPT !.speaker = speaker,
               !.read = Append(@, [ts |-> IF l.dated THEN reader.date * DaySeconds + l.clock
                                         ELSE Unparseable,
                                   speaker |-> speaker, reply |-> l.prefix # "root"])]

Read(lines) ==
  FoldLeft(ReadLine, [date |-> NoDate, speaker |-> <<>>, read |-> <<>>], lines).read

(* Who said what when, and whether as a reply, is all in the text, also for *)
(* who skims: what a divider or a header leaves out, an earlier one in the  *)
(* same run says; a thread's last reply closes it (RenderTranscript).       *)
TranscriptReadsBack(messages, threadMode) ==
  LET lines == RenderTranscript(messages, threadMode)
      headers == SelectSeq(lines, LAMBDA l : l.line = "header")
  IN /\ Read(lines) = [i \in DOMAIN messages |->
            [ts |-> messages[i].ts, speaker |-> SpeakerParts(messages[i]),
             reply |-> DepthOf(messages[i], threadMode) = 1]]
     /\ \A i \in DOMAIN headers : headers[i].prefix = "last"
          <=> /\ DepthOf(messages[i], threadMode) = 1
              /\ i = Len(messages) \/ DepthOf(messages[i + 1], threadMode) = 0
=============================================================================
