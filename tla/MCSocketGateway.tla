--------------------------- MODULE MCSocketGateway ---------------------------
(***************************************************************************)
(* Two users and three sockets: a user with two sockets of its own, one    *)
(* that closes early, and a socket of another user.                        *)
(***************************************************************************)
EXTENDS SocketGateway, TLC

CONSTANTS ann, bob, c1, c2, c3

Symmetry == Permutations(Users) \cup Permutations(Sockets)
=============================================================================
