------------------------------ MODULE MCAutopilot ------------------------------
(* One item, one work order of the user's, and what three cards may ask for. *)
EXTENDS Autopilot
CONSTANTS i1, u1, w1, w2, w3
MCProposal ==
    {[type |-> "create", item |-> i1, order |-> None, after |-> None],
     [type |-> "create", item |-> i1, order |-> None, after |-> u1],
     [type |-> "start", item |-> None, order |-> w1, after |-> u1],
     [type |-> "start", item |-> None, order |-> u1, after |-> None],
     [type |-> "continue", item |-> None, order |-> w1, after |-> None],
     [type |-> "close", item |-> None, order |-> w1, after |-> None]}
================================================================================
