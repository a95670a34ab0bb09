------------------------------ MODULE AgentProcess ------------------------------
(***************************************************************************)
(* A provider's process as processsupervisor keeps it: the lines it wrote  *)
(* and nobody read yet (pipe), the bounded channel an adapter reads        *)
(* (output), and how it ended.  A line that finds the channel full is lost *)
(* with all that follow it, and the process is killed.  That a killed      *)
(* process dies, and its pipes close with it, is assumed.                  *)
(***************************************************************************)
EXTENDS Naturals, Sequences
CONSTANT OutputBuffer

NotStarted == [state |-> "none", pipe |-> <<>>, output |-> <<>>, discarding |-> FALSE, code |-> 0]
Started == [NotStarted EXCEPT !.state = "running"]
IsRunning(p) == p.state = "running"
IsDone(p) == p.state = "done"
OutputEnded(p) == p.state \in {"closed", "done"} /\ p.output = <<>>
ProcessOK(p, lines) ==
    /\ p.state \in {"none", "running", "exited", "closed", "done"} /\ p.code \in Nat
    /\ \A i \in DOMAIN p.pipe : p.pipe[i] \in lines
    /\ \A i \in DOMAIN p.output : p.output[i] \in lines
    /\ Len(p.output) <= OutputBuffer
    /\ p.state \in {"closed", "done"} => p.pipe = <<>>

Writes(p, line) == [p EXCEPT !.pipe = Append(@, line)]
Exits(p, code) == [p EXCEPT !.state = "exited", !.code = code]
Taken(p) == [p EXCEPT !.output = Tail(@)]
(* signal and ForceStop: a process that has gone is left alone; one that is *)
(* killed may leave half a line behind.                                     *)
Killed(p, torn) == IF IsRunning(p) THEN {Exits(p, 137), Exits(Writes(p, torn), 137)} ELSE {p}

(* collect: a line goes to the channel, or starts the discarding. *)
Sequenced(p, torn) ==
    LET rest == [p EXCEPT !.pipe = Tail(@)] IN
    CASE p.pipe = <<>> -> {}
      [] p.pipe # <<>> /\ p.discarding -> {rest}
      [] p.pipe # <<>> /\ ~p.discarding /\ Len(p.output) < OutputBuffer -> {[rest EXCEPT !.output = Append(@, Head(p.pipe))]}
      [] OTHER -> Killed([rest EXCEPT !.discarding = TRUE], torn)
(* collect, once both pipes are at their end: the channel is closed, the   *)
(* process reaped and its result published.                                *)
Reaped(p) ==
    CASE p.state = "exited" /\ p.pipe = <<>> -> {[p EXCEPT !.state = "closed"]}
      [] p.state = "closed" -> {[p EXCEPT !.state = "done"]}
      [] OTHER -> {}
Supervised(p, torn) == Sequenced(p, torn) \union Reaped(p)
(* Wait: an output that was cut short makes the result an error. *)
WaitFails(p) == p.discarding
=============================================================================
