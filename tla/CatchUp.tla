-------------------------------- MODULE CatchUp --------------------------------
(***************************************************************************)
(* A catch-up over HTTP (backfillChannel and fetchSince of                 *)
(* eventbackfill.go): several requests, with the workspace going on in     *)
(* between, whose messages become events only when all of them are back.   *)
(* These are the parts of the actions of EventWatch and EventPoll that     *)
(* read; each module says when they happen.                                *)
(***************************************************************************)
EXTENDS EventSession

CONSTANT ThreadFaults   \* whether a thread read of a conversation may fail

ASSUME CatchUpAssumption == ThreadFaults \in BOOLEAN

VARIABLES
  reading,  \* the channel being read, what was read, the threads left to read
  batch     \* caught-up events not yet offered

NotReading == [ch |-> None, messages |-> {}, roots |-> {}]
ReadingType == [ch : Channels \cup {None}, messages : SUBSET Event, roots : SUBSET Timestamps]

CatchUpInit == reading = NotReading /\ batch = {}

(* The channel's own read comes first.                                     *)
BeginRead(c, since) ==
  LET read == FirstRead(c, since) IN
  /\ gaps' = gaps + read.missed
  /\ reading' = [ch |-> c, messages |-> read.messages, roots |-> read.roots]

(* A conversation's threads are read one request after another, the root's *)
(* first, and best effort: a failed read contributes nothing.              *)
NextRoot(root) == root \in reading.roots /\ \A o \in reading.roots : root <= o

ReadRoot(root, over) ==
  \/ /\ ~over
     /\ reading' = [reading EXCEPT !.roots = @ \ {root},
                       !.messages = @ \cup FetchThread(reading.ch, root)]
  \/ /\ ThreadFaults \/ over
     /\ reading' = [reading EXCEPT !.roots = @ \ {root}]

(* Everything is read: what came becomes events to offer.                  *)
FinishRead(since) ==
  /\ reading.roots = {}
  /\ RememberThreads(reading.messages)
  /\ batch' = CatchUpEvents(reading.messages, since)
  /\ reading' = NotReading

(* What thread reads may lose with no gap counted: a message overtaken by a *)
(* reply, its thread being read after the history the message was not yet   *)
(* in, and a reply whose thread read the end of the run fell in.            *)
LostToThreads(m, over) ==
  \/ over /\ m.thread # NoTS
  \/ \E r \in Occurred : /\ r.kind = "message" /\ r.ch = m.ch
                         /\ r.thread # NoTS /\ r.ts > m.ts
                         /\ EventKey(r) \in seen

(* Seeded fault: caught-up events are offered as the pages came.           *)
AnyOrder(e) == e \in batch

(* Caught-up events are offered in cursor order.                           *)
Earliest(e) == e \in batch /\ \A o \in batch : Cursor(e) <= Cursor(o)
=============================================================================
