-------------------------------- MODULE MCRouter --------------------------------
(* Two agents; a chat that is unwired, one that an agent follows, one of two   *)
(* agents, the first of which ignores strangers silently, and one of a         *)
(* follower and an agent that is open to all.                                  *)
EXTENDS Router, TLC

CONSTANTS a1, a2, owner, stranger, t1

Sticky == [agent |-> a1, mode |-> "sticky", scope |-> "known", ignored |-> "accumulate"]
Always(a, s) == [agent |-> a, mode |-> "always", scope |-> s, ignored |-> "drop"]
MCWiring == {<<>>, <<Sticky>>, <<Always(a2, "known"), Always(a1, "all")>>, <<Sticky, Always(a2, "all")>>}

Says(s, mention, text) == [sender |-> s, mention |-> mention, thread |-> t1, text |-> text]
MCIncoming == {Says(owner, TRUE, "filtered"), Says(stranger, TRUE, "plain"),
               Says(stranger, FALSE, "plain"), Says(stranger, TRUE, "admin")}

Symmetry == Permutations(Messages)
=============================================================================
