-------------------------- MODULE MCClientSession --------------------------
(* ClientSession for TLC: the requests a page may have open are alike, and   *)
(* so are the names of tokens.                                               *)
EXTENDS ClientSession, TLC

Alike == Permutations(Requests) \cup Permutations(Tokens)
=============================================================================
