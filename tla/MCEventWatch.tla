---------------------------- MODULE MCEventWatch ----------------------------
(***************************************************************************)
(* Small instances of the socket run: one or two conversations, the        *)
(* authenticated user me, another person ann and an app bot.               *)
(***************************************************************************)
EXTENDS EventWatch

CONSTANTS me, ann, bot, c1, c2, thumb

Message(c, u, i, root) ==
  [kind |-> "message", ch |-> c, ts |-> 2 * i, thread |-> root, eventTS |-> NoTS,
   author |-> u, reaction |-> None, target |-> None, caughtUp |-> FALSE]

(* The caller's own question, at instant 2, asked before the run starts.   *)
Asked == << Message(c1, me, 1, NoTS) >>
(* Someone answered in its thread, then in the channel.                    *)
Answered == Asked \o << Message(c1, ann, 2, 2), Message(c1, ann, 3, NoTS) >>
Unset == NoTS
Nothing == << >>
=============================================================================
