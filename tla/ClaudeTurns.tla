------------------------------- MODULE ClaudeTurns -------------------------------
(***************************************************************************)
(* One attempt of a Claude worker (claudeadapter over processsupervisor):  *)
(* the print process of a turn and the lines it writes, the goroutine that *)
(* translates them into events and one result, the worker that reads the   *)
(* events, and the worker's calls that start, stop and force-stop it.      *)
(***************************************************************************)
EXTENDS AgentProcess, SequencesExt
CONSTANTS
    MaxLines,    \* the lines that the process writes
    MaxOdd,      \* of these, the ones that Claude Code does not write there
    EventBuffer  \* the capacity of the session's channel of events
VARIABLES
    contract, process, session,
    events, heard,  \* the channel of events, and what the worker read of it
    call,           \* one call of Send or of ForceStop
    aborting,       \* abortProcess' goroutine has yet to kill the process
    said, odd, races
claudeVars == <<contract, process, session, events, heard, call, aborting, said, odd, races>>

Contents == {"text", "work", "answer", "failure"}
Odd == {"other init", "foreign", "torn", "bad answer"}
Lines == {"init", "note"} \union Contents \union Odd
NewSession == [at |-> "none", initialized |-> FALSE, terminal |-> "none", failed |-> FALSE,
               stopRequested |-> FALSE, forced |-> FALSE, result |-> "none"]

TypeOKClaude ==
    /\ contract \in BOOLEAN /\ ProcessOK(process, Lines)
    /\ session.at \in {"none", "reading", "waiting", "stopped", "ended", "done"}
    /\ session.result # "none" <=> session.at = "done"
    /\ call.kind \in {"stop", "force"} /\ call.at \in {"idle", "waiting", "obeyed", "gave up", "finished"}
    /\ Len(events) <= EventBuffer

InitClaude ==
    /\ contract \in BOOLEAN /\ process = NotStarted /\ session = NewSession /\ events = <<>> /\ heard = <<>>
    /\ call \in [kind : {"stop", "force"}, at : {"idle"}] /\ aborting = FALSE /\ said = <<>> /\ odd = 0 /\ races = {}

(* launch: the process, and the goroutine that follows it. *)
Launch ==
    /\ session.at = "none" /\ process' = Started /\ session' = [session EXCEPT !.at = "reading"]
    /\ UNCHANGED <<contract, events, heard, call, aborting, said, odd, races>>

(* The print process: init first, then what the turn does, and its result; now and then something else. *)
Ordinary(l) ==
    LET first == \A i \in DOMAIN said : said[i] # "init"
        over == \E i \in DOMAIN said : said[i] \in {"answer", "failure"} IN
    l \in IF over THEN {"note"} ELSE IF first THEN {"init", "note"} ELSE {"note"} \union Contents
Write(l) ==
    /\ IsRunning(process) /\ Len(said) < MaxLines
    /\ IF Ordinary(l) THEN odd' = odd ELSE odd < MaxOdd /\ odd' = odd + 1
    /\ process' = Writes(process, l) /\ said' = Append(said, l)
    /\ UNCHANGED <<contract, session, events, heard, call, aborting, races>>
Exit ==
    /\ IsRunning(process) /\ \E code \in {0, 1} : process' = Exits(process, code)
    /\ UNCHANGED <<contract, session, events, heard, call, aborting, said, odd, races>>
Supervise ==
    /\ process' \in Supervised(process, "torn")
    /\ UNCHANGED <<contract, session, events, heard, call, aborting, said, odd, races>>

Known == session.initialized  \* requireInitialized
(* translate: what is no line of this turn, what a line publishes, and     *)
(* what becomes of the session.  An answer that lacks the structured       *)
(* output it owes is an error.                                             *)
Broken(l) ==
    \/ l \in {"torn", "foreign"}
    \/ ~Known /\ l \in Contents \union {"other init", "bad answer"}
    \/ contract /\ l = "bad answer"
(* assistantEvents: a command is told when it has run, text at once. *)
Published(l) ==
    CASE l = "init" /\ ~Known -> <<"started">> [] l = "text" -> <<"text">>
      [] l \in {"answer", "bad answer"} -> <<"answer">> [] OTHER -> <<>>
Translated(l) ==
    CASE l = "init" -> [session EXCEPT !.initialized = TRUE]
      [] l \in {"answer", "bad answer"} -> [session EXCEPT !.terminal = "completed"]
      [] l = "failure" -> [session EXCEPT !.terminal = "failed"]
      [] OTHER -> session
Trailing(l) == l \in {"note", "init", "other init"}  \* trailingInformationalRecord

(* publish: nothing waits for the worker; a full channel ends the turn. *)
RoomOrDrop(es) == TRUE
Room(es) == Len(events) + Len(es) <= EventBuffer
Publish(es) == events' = IF Len(events \o es) <= EventBuffer THEN events \o es ELSE events
AbortProcess == session' = [session EXCEPT !.failed = TRUE] /\ aborting' = TRUE

(* run, for one line of the output. *)
ReadLine ==
    /\ session.at = "reading" /\ process.output # <<>> /\ process' = Taken(process)
    /\ LET l == Head(process.output) IN
       \/ session.failed /\ UNCHANGED <<session, events, aborting>>
       \/ /\ ~session.failed /\ session.terminal # "none" /\ UNCHANGED events
          /\ IF Trailing(l) THEN UNCHANGED <<session, aborting>> ELSE AbortProcess
       \/ /\ ~session.failed /\ session.terminal = "none" /\ Broken(l) /\ AbortProcess /\ UNCHANGED events
       \/ /\ ~session.failed /\ session.terminal = "none" /\ ~Broken(l) /\ ~Room(Published(l))
          /\ AbortProcess /\ Publish(Published(l))
       \/ /\ ~session.failed /\ session.terminal = "none" /\ ~Broken(l) /\ Room(Published(l))
          /\ session' = Translated(l) /\ Publish(Published(l)) /\ UNCHANGED aborting
    /\ UNCHANGED <<contract, heard, call, said, odd, races>>
ReadEnd ==
    /\ session.at = "reading" /\ OutputEnded(process) /\ session' = [session EXCEPT !.at = "waiting"]
    /\ UNCHANGED <<contract, process, events, heard, call, aborting, said, odd, races>>
Abort ==
    /\ aborting /\ aborting' = FALSE /\ process' \in Killed(process, "torn")
    /\ UNCHANGED <<contract, session, events, heard, call, said, odd, races>>

(* run, once the process is gone: stopState, then complete. *)
StopState ==
    /\ session.at = "waiting" /\ IsDone(process)
    /\ session' = [session EXCEPT !.at = IF session.stopRequested \/ session.forced THEN "stopped" ELSE "ended"]
    /\ UNCHANGED <<contract, process, events, heard, call, aborting, said, odd, races>>
Outcome ==
    CASE session.at = "stopped" -> "stopped"
      [] session.at = "ended" /\ \/ session.failed \/ WaitFails(process) \/ session.terminal = "none"
                                 \/ session.terminal = "completed" /\ process.code # 0 -> "error"
      [] OTHER -> session.terminal
Complete ==
    /\ session.at \in {"stopped", "ended"} /\ session' = [session EXCEPT !.at = "done", !.result = Outcome]
    /\ UNCHANGED <<contract, process, events, heard, call, aborting, said, odd, races>>
Hear ==
    /\ events # <<>> /\ heard' = Append(heard, Head(events)) /\ events' = Tail(events)
    /\ UNCHANGED <<contract, process, session, call, aborting, said, odd, races>>

(* Send and ForceStop: a stop stays asked for when its caller gives up. *)
Asks(kind) == call.kind = kind /\ call.at = "idle" /\ session.at # "none"
IsLate == session.at \in {"stopped", "ended"}
AskFinished ==
    /\ Asks(call.kind) /\ session.at = "done" /\ call' = [call EXCEPT !.at = "finished"]
    /\ UNCHANGED <<contract, process, session, events, heard, aborting, said, odd, races>>
Send ==
    /\ Asks("stop") /\ session.at # "done" /\ call' = [call EXCEPT !.at = "waiting"]
    /\ session' = [session EXCEPT !.stopRequested = TRUE] /\ races' = IF IsLate THEN races \union {"late"} ELSE races
    /\ UNCHANGED <<contract, process, events, heard, aborting, said, odd>>
ForceStop ==
    /\ Asks("force") /\ session.at # "done" /\ call' = [call EXCEPT !.at = "waiting"]
    /\ session' = [session EXCEPT !.forced = TRUE] /\ process' \in Killed(process, "torn")
    /\ races' = IF IsLate THEN races \union {"late"} ELSE races
    /\ UNCHANGED <<contract, events, heard, aborting, said, odd>>
(* Both wait for the process, or for their caller's deadline. *)
Return ==
    /\ call.at = "waiting" /\ \E a \in {"gave up"} \union (IF IsDone(process) THEN {"obeyed"} ELSE {}) : call' = [call EXCEPT !.at = a]
    /\ UNCHANGED <<contract, process, session, events, heard, aborting, said, odd, races>>

NextClaude ==
    \/ Launch \/ (\E l \in Lines : Write(l)) \/ Exit \/ Supervise \/ Abort
    \/ ReadLine \/ ReadEnd \/ StopState \/ Complete \/ Hear
    \/ AskFinished \/ Send \/ ForceStop \/ Return

(* What each line of a turn that goes well tells the worker. *)
Worth(i) ==
    CASE said[i] = "init" /\ \A j \in 1..(i - 1) : said[j] # "init" -> <<"started">>
      [] said[i] = "text" -> <<"text">> [] said[i] \in {"answer", "bad answer"} -> <<"answer">> [] OTHER -> <<>>
Worthy == FlattenSeq([i \in DOMAIN said |-> Worth(i)])

(* The worker is told what Claude said, in that order, and of a turn that  *)
(* completed or failed all of it, whatever channels were full.             *)
NothingIsSkipped ==
    /\ IsPrefix(heard \o events, Worthy)
    /\ session.result \in {"completed", "failed"} => heard \o events = Worthy

(* A result is of a process that is gone; a completed turn answered within *)
(* the conversation it was given, and its process ended well.              *)
ResultsAreEarned ==
    /\ session.at = "done" => IsDone(process)
    /\ session.result = "completed" =>
         process.code = 0 /\ \E i, j \in DOMAIN said : i < j /\ said[i] = "init" /\ said[j] \in {"answer", "bad answer"}

(* A session is stopped only for a caller that asked, and always for one   *)
(* that was told so, unless it asked after the outcome was chosen.         *)
StopsAreKept ==
    /\ session.result = "stopped" => call.at # "idle"
    /\ (session.at = "done" /\ call.at = "obeyed" /\ races = {}) => session.result = "stopped"

ClaudeTurnIsSound == TypeOKClaude /\ NothingIsSkipped /\ ResultsAreEarned /\ StopsAreKept
=============================================================================
