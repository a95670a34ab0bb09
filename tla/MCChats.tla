-------------------------------- MODULE MCChats --------------------------------
(* Two messages for one chat and an event for the other. *)
EXTENDS Chats
CONSTANTS c1, c2, m1, m2, e1
MCTo == (m1 :> c1) @@ (m2 :> c1) @@ (e1 :> c2)
=============================================================================
