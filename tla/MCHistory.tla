------------------------------ MODULE MCHistory ------------------------------
(* Two channels, a thread, pages of two.                                     *)
EXTENDS History

Msg(ts, ch, thread, author, text, reacted) ==
  [ts |-> ts, ch |-> ch, root |-> thread, author |-> author, text |-> text, reacted |-> reacted]

MCStart ==
  { Msg(1, "c1", 1, "U1", TRUE, TRUE), Msg(2, "c1", NoTS, "U2", TRUE, FALSE),
    Msg(3, "c1", 1, "U2", TRUE, FALSE), Msg(4, "c1", NoTS, "U1", FALSE, TRUE),
    Msg(5, "c1", 1, "U1", TRUE, FALSE), Msg(6, "c2", NoTS, "U1", TRUE, TRUE) }

MCArrivals == << Msg(7, "c1", 1, "U2", TRUE, FALSE), Msg(8, "c1", NoTS, "U1", TRUE, TRUE) >>

Plain == [kind |-> "list", ch |-> "c1", channels |-> << >>, limit |-> 2, filter |-> "none",
          latest |-> NoTS, oldest |-> NoTS, before |-> NoTS, inclusive |-> FALSE,
          user |-> NoUser, target |-> NoTS, hint |-> NoTS]

Lists ==
  { [Plain EXCEPT !.limit = l, !.filter = f, !.latest = n, !.oldest = o] :
      l \in {1, 2, 5}, f \in {"none", "with", "without"}, n \in {NoTS, 4}, o \in {NoTS, 1} }
  \cup { [Plain EXCEPT !.oldest = 1, !.inclusive = TRUE] }

Channels == [Plain EXCEPT !.channels = <<"c1", "c2">>]

Scans ==
  { [Channels EXCEPT !.kind = "scan", !.limit = l, !.oldest = o, !.before = b, !.user = u] :
      l \in {2, 5}, o \in {NoTS, 2}, b \in {NoTS, 6}, u \in {NoUser, "U1", "ann"} }

FileSearches ==
  { [Channels EXCEPT !.kind = "files", !.limit = l, !.user = u] :
      l \in {2, 5}, u \in {NoUser, "U1"} }

Lookups ==
  { [Plain EXCEPT !.kind = "find", !.target = t, !.hint = h] : t \in {1, 2, 3, 5}, h \in {NoTS, 1} }

Threads ==
  { [Plain EXCEPT !.kind = "thread", !.target = t, !.hint = h] : t \in {1, 2, 3}, h \in {NoTS, 1} }

MCRequests ==
  Lists \cup Scans \cup FileSearches \cup Lookups \cup Threads
    \cup { [Plain EXCEPT !.kind = "search", !.limit = l] : l \in {2, 3} }

(* A scan for an author nobody is.                                           *)
UnknownAuthor == { [Channels EXCEPT !.kind = "scan", !.user = "nobody"] }

MCNamedUsers == [ann |-> "U1"]
=============================================================================
