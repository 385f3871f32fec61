----------------------------- MODULE MCServer -----------------------------
(* Instances of the chat server for TLC; the .cfg files give the constants. *)
EXTENDS ServerProperties, TLC

Symmetry == Permutations(Names) \cup Permutations(Socks)
SockSymmetry == Permutations(Socks)
=============================================================================
