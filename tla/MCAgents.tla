------------------------------ MODULE MCAgents ------------------------------
(* Agents with its chats, and its names, interchangeable. *)
EXTENDS Agents, TLC

Symmetry == Permutations(Chats) \union Permutations(Names)
=============================================================================
