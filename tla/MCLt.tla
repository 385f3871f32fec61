-------------------------------- MODULE MCLt --------------------------------
(* Instances of the chat server of Code/liuting1/chatroom for TLC.          *)
EXTENDS LtServer, TLC

FdSymmetry == Permutations(Fds)
NoFriends == {}
OneFriendship == {<<1, 2>>}
=============================================================================
