------------------------------ MODULE MCPairing ------------------------------
(* Chats are model values, and alike: nothing in Pairing tells them apart.      *)
EXTENDS Pairing, TLC

ChatsAreAlike == Permutations(Chats)
=============================================================================
