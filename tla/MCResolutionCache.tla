-------------------------- MODULE MCResolutionCache --------------------------
(* Two invocations at a time, one name that exists and one that may appear.  *)
EXTENDS ResolutionCache, TLC

CONSTANTS p1, p2

Perms == Permutations(Procs)

MCPageOrder == <<"ann", "bob">>
MCMaxRuns == [users |-> 3, channels |-> 2, usergroups |-> 2, emoji |-> 3]
=============================================================================
