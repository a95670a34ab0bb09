----------------------------- MODULE OrderedCopy -----------------------------
(***************************************************************************)
(* What copying worker activity into the coordinator promises: the session *)
(* log holds, for each attempt, a prefix of the events that attempt's      *)
(* worker recorded, each once and in order, and the log turns to a next    *)
(* attempt only, never back.  How the events travel, how often a           *)
(* connection breaks and how many pumps copy them is not said here:        *)
(* EventIngest does.                                                       *)
(***************************************************************************)
EXTENDS Integers, Sequences

CONSTANT MaxAttempt   \* the session's attempts are 1 .. MaxAttempt

VARIABLES latest,  \* latest[a]: events the worker recorded for attempt a
          log,     \* the session's log: entries [attempt, seq], seq 0 is a user message
          cursor   \* [attempt, last]: the attempt being copied, and how far

vars == <<latest, log, cursor>>

Init ==
  /\ latest = [a \in 1 .. MaxAttempt |-> 0]
  /\ log = <<>>
  /\ cursor = [attempt |-> 1, last |-> 0]

(* The worker records one more event of an attempt. *)
Record(a) ==
  /\ latest' = [latest EXCEPT ![a] = @ + 1]
  /\ UNCHANGED <<log, cursor>>

(* The next event of the current attempt is copied, with its cursor. *)
Copy ==
  /\ cursor.last < latest[cursor.attempt]
  /\ cursor' = [cursor EXCEPT !.last = @ + 1]
  /\ log' = Append(log, [attempt |-> cursor.attempt, seq |-> cursor.last + 1])
  /\ UNCHANGED latest

(* The log turns to the next attempt, perhaps with the user's message. *)
Turn ==
  /\ cursor.attempt < MaxAttempt
  /\ cursor' = [attempt |-> cursor.attempt + 1, last |-> 0]
  /\ log' \in {log, Append(log, [attempt |-> cursor.attempt + 1, seq |-> 0])}
  /\ UNCHANGED latest

Next == Copy \/ Turn \/ \E a \in 1 .. MaxAttempt : Record(a)

Spec == Init /\ [][Next]_vars
=============================================================================
