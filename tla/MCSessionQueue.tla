--------------------------- MODULE MCSessionQueue ---------------------------
(***************************************************************************)
(* Small instances of SessionQueue.                                        *)
(***************************************************************************)
EXTENDS SessionQueue

\* Every retry is due at the next tick but one: used where the length of the
\* backoff does not matter.
MCShortBackoff == [t \in 0..MaxTries |-> 1]
=============================================================================
