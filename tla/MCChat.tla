------------------------------- MODULE MCChat --------------------------------
(* Chat with the limiter on a small instance: Ann watches the global chat,   *)
(* Bob the direct chat with Ann; messages are interchangeable.               *)
EXTENDS Chat, TLC

CONSTANTS ann, bob, cyd, tabA, tabB

MCUsers == {ann, bob, cyd}
MCClients == {tabA, tabB}
MCOwner == (tabA :> ann) @@ (tabB :> bob)
MCView == (tabA :> All) @@ (tabB :> ann)

MCSymmetry == Permutations(Requests)
=============================================================================
