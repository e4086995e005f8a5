---------------------------- MODULE MCEventPoll ----------------------------
(***************************************************************************)
(* Small instances of the poll run, over one conversation.                 *)
(***************************************************************************)
EXTENDS EventPoll

CONSTANTS me, ann, bot, c1, c2, thumb

Message(c, u, i, root) ==
  [kind |-> "message", ch |-> c, ts |-> 2 * i, thread |-> root, eventTS |-> NoTS,
   author |-> u, reaction |-> None, target |-> None, caughtUp |-> FALSE]

(* The caller's own question, at instant 2, asked before the run starts.   *)
Asked == << Message(c1, me, 1, NoTS) >>
Unset == NoTS
Nothing == << >>
=============================================================================
