---------------------------- MODULE EventDelivery ----------------------------
(***************************************************************************)
(* What a watch run promises its caller about messages, whatever sockets,  *)
(* catch-ups and duplicates it took: no answer is handed over twice, and   *)
(* until the run admits that events may be missing, each conversation's    *)
(* answers are handed over in the order they were posted, none passed over.*)
(***************************************************************************)
EXTENDS Integers, Sequences

CONSTANT Answer      \* identities of answers: a conversation and an instant

VARIABLES
  due,         \* the answers posted so far
  delivered,   \* the answers handed to the caller, in order
  lossy        \* the run has admitted that events may be missing

Given == {delivered[i] : i \in DOMAIN delivered}

Init == due = {} /\ delivered = << >> /\ lossy = FALSE

Posted ==
  /\ due' \in SUBSET Answer /\ due \subseteq due'
  /\ UNCHANGED <<delivered, lossy>>

Deliver(a) ==
  /\ a \in due /\ a \notin Given
  /\ ~lossy => /\ \A g \in Given : g[1] = a[1] => g[2] < a[2]
               /\ \A b \in due : b[1] = a[1] /\ b[2] < a[2] => b \in Given
  /\ delivered' = Append(delivered, a)
  /\ UNCHANGED <<due, lossy>>

Admit == lossy' = TRUE /\ UNCHANGED <<due, delivered>>

Next == Posted \/ (\E a \in due : Deliver(a)) \/ Admit

Spec == Init /\ [][Next]_<<due, delivered, lossy>>
=============================================================================
