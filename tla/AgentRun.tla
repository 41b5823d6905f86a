------------------------------ MODULE AgentRun ------------------------------
(***************************************************************************)
(* One session of the coding agent: run_agent_with_logger and              *)
(* tail_session_file (src/sandbox/omp.rs).                                 *)
(*                                                                         *)
(* The agent runs in a container and appends lines to a session file.  The *)
(* tailer thread follows the file, counts turns and cost, sends what it    *)
(* reads to the main loop, and raises limit_reached.  The main loop logs   *)
(* what it receives, watches the clock and the limit, and in the end kills *)
(* the container, stops and joins the tailer, and drains the channel.      *)
(*                                                                         *)
(* A session line is a "turn" (an assistant message, of cost 1) or another *)
(* line.  A line may reach the file in two pieces, and the first may end   *)
(* inside a character.  The stdout and stderr readers only feed the        *)
(* channel and are left out.                                               *)
(***************************************************************************)
EXTENDS Naturals, Sequences, SequencesExt, FiniteSetsExt

CONSTANTS
    MaxTurns,      \* limits.max_turns
    MaxBudget,     \* limits.max_budget_usd, in turns
    MaxLines,      \* bound: lines of the session
    TornInChar,    \* BOOLEAN: may a piece of a line end inside a character?
    OpenFails      \* BOOLEAN: may the session file be unreadable?

ASSUME LimitAssumption == MaxTurns \in Nat \ {0} /\ MaxBudget \in Nat \ {0}
ASSUME BoundAssumption == MaxLines \in Nat
ASSUME FileAssumption == TornInChar \in BOOLEAN /\ OpenFails \in BOOLEAN

VARIABLES
    \* the agent
    session,       \* the complete lines of the session file
    torn,          \* the piece after them: "no", "clean" or "inChar"
    exit,          \* how the agent ended: "no", "ok", "fail" or "killed"
    overtime,      \* has the wall clock passed limits.timeout_seconds?
    \* the tailer
    tpc,           \* its next step
    pos,           \* lines read
    headLost,      \* has a failed read swallowed the head of the next line?
    turns, spent,  \* turn_counter and accumulated_cost
    missed,        \* history: the lines a read error kept from it
    \* shared
    running, limit_reached, limit_reason, chan,
    \* the main loop
    mpc,           \* its next step
    status,        \* exit status of the child, or "none"
    logged,        \* what log_fn was given
    result         \* "ok" or "err" in the end

agentVars  == <<session, torn, exit, overtime>>
tailerVars == <<tpc, pos, headLost, turns, spent, missed>>
mainVars   == <<mpc, status, logged, result>>
limitVars  == <<limit_reached, limit_reason>>
vars == <<agentVars, tailerVars, mainVars, limitVars, running, chan>>

Event(n)  == <<"line", n>>
Limit(r)  == <<"limit", r>>

Init ==
    /\ session = <<>> /\ torn = "no" /\ exit = "no" /\ overtime = FALSE
    /\ tpc = "find" /\ pos = 0 /\ headLost = FALSE /\ turns = 0 /\ spent = 0 /\ missed = {}
    /\ running = TRUE /\ chan = <<>>
    /\ limit_reached = FALSE /\ limit_reason = "none"
    /\ mpc = "top" /\ status = "none" /\ logged = <<>> /\ result = "none"

-----------------------------------------------------------------------------
(* The agent and the clock *)

AgentWrites ==
    /\ exit = "no" /\ Len(session) < MaxLines
    /\ \/ \E kind \in {"turn", "other"} : session' = Append(session, kind) /\ torn' = "no"
       \/ /\ torn = "no" /\ session' = session
          /\ torn' \in {"clean"} \cup (IF TornInChar THEN {"inChar"} ELSE {})
    /\ UNCHANGED <<exit, overtime, tailerVars, mainVars, limitVars, running, chan>>

AgentExits ==
    /\ exit = "no"
    /\ exit' \in {"ok", "fail"}
    /\ UNCHANGED <<session, torn, overtime, tailerVars, mainVars, limitVars, running, chan>>

Clock ==
    /\ ~overtime /\ mpc # "done"
    /\ overtime' = TRUE
    /\ UNCHANGED <<session, torn, exit, tailerVars, mainVars, limitVars, running, chan>>

FileExists == session # <<>> \/ torn # "no"

-----------------------------------------------------------------------------
(* The tailer *)

TailGoes(from, to) == tpc = from /\ tpc' = to

\* polls for the file while running, and looks once more after that
TailFind ==
    /\ FileExists
    /\ \/ TailGoes("find", "top") /\ UNCHANGED missed
       \/ OpenFails /\ TailGoes("find", "ended") /\ missed' = 1..MaxLines
    /\ UNCHANGED <<pos, headLost, turns, spent, agentVars, mainVars, limitVars, running, chan>>

TailNoFile ==
    /\ ~FileExists /\ ~running
    /\ TailGoes("find", "ended")
    /\ UNCHANGED <<pos, headLost, turns, spent, missed, agentVars, mainVars, limitVars, running, chan>>

TailTop ==
    /\ TailGoes("top", IF running THEN "read" ELSE "drain")
    /\ UNCHANGED <<pos, headLost, turns, spent, missed, agentVars, mainVars, limitVars, running, chan>>

\* read_line finds a complete line; the rest of a line whose head was lost is
\* not UTF-8 and is lost as well
TailReadLine ==
    /\ pos < Len(session)
    /\ pos' = pos + 1
    /\ headLost' = FALSE
    /\ missed' = IF headLost THEN missed \cup {pos'} ELSE missed
    /\ TailGoes("read", IF headLost THEN "top" ELSE "turns")
    /\ UNCHANGED <<turns, spent, agentVars, mainVars, limitVars, running, chan>>

\* read_line finds nothing, or a piece it seeks back from, or a piece it fails
\* to decode, which is gone for the next read
TailReadPiece ==
    /\ pos = Len(session)
    /\ TailGoes("read", "top")
    /\ headLost' = (headLost \/ torn = "inChar")
    /\ UNCHANGED <<pos, turns, spent, missed, agentVars, mainVars, limitVars, running, chan>>

IsTurn == session[pos] = "turn"

\* Mutant: the turn limit strikes a turn early.
TailTurnsEarly ==
    /\ tpc = "turns"
    /\ turns' = turns + (IF IsTurn THEN 1 ELSE 0)
    /\ LET hit == IsTurn /\ turns' + 1 >= MaxTurns IN
       /\ tpc' = IF hit THEN "turnLimit" ELSE "budget"
       /\ limit_reason' = IF hit THEN "turns" ELSE limit_reason
    /\ UNCHANGED <<pos, headLost, spent, missed, agentVars, mainVars, limit_reached, running, chan>>

\* Mutant: limit_reached is stored before limit_reason.
TailTurnsFlagFirst ==
    /\ tpc = "turns"
    /\ turns' = turns + (IF IsTurn THEN 1 ELSE 0)
    /\ LET hit == IsTurn /\ turns' >= MaxTurns IN
       /\ tpc' = IF hit THEN "turnLimit" ELSE "budget"
       /\ limit_reached' = (hit \/ limit_reached)
    /\ UNCHANGED <<pos, headLost, spent, missed, agentVars, mainVars, limit_reason, running, chan>>

TailTurns ==
    /\ tpc = "turns"
    /\ turns' = turns + (IF IsTurn THEN 1 ELSE 0)
    /\ LET hit == IsTurn /\ turns' >= MaxTurns IN
       /\ tpc' = IF hit THEN "turnLimit" ELSE "budget"
       /\ limit_reason' = IF hit THEN "turns" ELSE limit_reason
    /\ UNCHANGED <<pos, headLost, spent, missed, agentVars, mainVars, limit_reached, running, chan>>

TailTurnLimit ==
    /\ TailGoes("turnLimit", "budget")
    /\ limit_reached' = TRUE
    /\ chan' = Append(chan, Limit("turns"))
    /\ UNCHANGED <<pos, headLost, turns, spent, missed, agentVars, mainVars, limit_reason, running>>

TailBudget ==
    /\ tpc = "budget"
    /\ spent' = spent + (IF IsTurn THEN 1 ELSE 0)
    /\ LET hit == IsTurn /\ spent' >= MaxBudget IN
       /\ tpc' = IF hit THEN "budgetLimit" ELSE "tell"
       /\ limit_reason' = IF hit THEN "budget" ELSE limit_reason
    /\ UNCHANGED <<pos, headLost, turns, missed, agentVars, mainVars, limit_reached, running, chan>>

TailBudgetLimit ==
    /\ TailGoes("budgetLimit", "tell")
    /\ limit_reached' = TRUE
    /\ chan' = Append(chan, Limit("budget"))
    /\ UNCHANGED <<pos, headLost, turns, spent, missed, agentVars, mainVars, limit_reason, running>>

\* the events of the line
TailTell ==
    /\ TailGoes("tell", "top")
    /\ chan' = Append(chan, Event(pos))
    /\ UNCHANGED <<pos, headLost, turns, spent, missed, agentVars, mainVars, limitVars, running>>

\* the exit drain sends events but counts nothing; it ends at the end of the
\* file, at a piece of a line and at a line it cannot decode
TailDrain ==
    \/ /\ pos < Len(session) /\ ~headLost
       /\ TailGoes("drain", "drain")
       /\ pos' = pos + 1
       /\ chan' = Append(chan, Event(pos'))
       /\ UNCHANGED <<headLost, turns, spent, missed, agentVars, mainVars, limitVars, running>>
    \/ /\ pos = Len(session) \/ headLost
       /\ TailGoes("drain", "ended")
       /\ missed' = missed \cup pos + 1..Len(session)
       /\ UNCHANGED <<pos, headLost, turns, spent, agentVars, mainVars, limitVars, running, chan>>

-----------------------------------------------------------------------------
(* The main loop *)

MainGoes(from, to) == mpc = from /\ mpc' = to

\* the watchdog; the flag is stored before the reason, by the thread that reads them
MainWatchdog ==
    /\ overtime
    /\ MainGoes("top", "reason")
    /\ logged' = Append(logged, Limit("time"))
    /\ limit_reached' = TRUE
    /\ UNCHANGED <<status, result, limit_reason, agentVars, tailerVars, running, chan>>

MainReason ==
    /\ MainGoes("reason", "kill")
    /\ limit_reason' = "time"
    /\ UNCHANGED <<status, logged, result, limit_reached, agentVars, tailerVars, running, chan>>

MainLimit ==
    /\ ~overtime /\ limit_reached
    /\ MainGoes("top", "kill")
    /\ logged' = IF limit_reason = "none" THEN logged ELSE Append(logged, Limit(limit_reason))
    /\ UNCHANGED <<status, result, limitVars, agentVars, tailerVars, running, chan>>

MainPoll ==
    /\ ~overtime /\ ~limit_reached
    /\ MainGoes("top", "recv")
    /\ UNCHANGED <<status, logged, result, limitVars, agentVars, tailerVars, running, chan>>

MainReceive ==
    /\ chan # <<>>
    /\ MainGoes("recv", "top")
    /\ logged' = Append(logged, Head(chan))
    /\ chan' = Tail(chan)
    /\ UNCHANGED <<status, result, limitVars, agentVars, tailerVars, running>>

\* nothing for 50 ms, or every sender gone: is the child gone as well?
MainTryWait ==
    /\ chan = <<>>
    /\ MainGoes("recv", IF exit = "no" THEN "top" ELSE "kill")
    /\ status' = IF exit = "no" THEN status ELSE exit
    /\ UNCHANGED <<logged, result, limitVars, agentVars, tailerVars, running, chan>>

\* kill_agent returns when the container is gone
MainKill ==
    /\ MainGoes("kill", "stop")
    /\ exit' = IF exit = "no" THEN "killed" ELSE exit
    /\ UNCHANGED <<session, torn, overtime, status, logged, result, limitVars, tailerVars, running, chan>>

\* Mutant: the tailer is not told to stop.
MainStopSilent ==
    /\ MainGoes("stop", "join")
    /\ UNCHANGED <<running, status, logged, result, limitVars, agentVars, tailerVars, chan>>

MainStop ==
    /\ MainGoes("stop", "join")
    /\ running' = FALSE
    /\ UNCHANGED <<status, logged, result, limitVars, agentVars, tailerVars, chan>>

\* Mutant: the tailer is not waited for.
MainNoJoin ==
    /\ MainGoes("join", "drain")
    /\ UNCHANGED <<status, logged, result, limitVars, agentVars, tailerVars, running, chan>>

MainJoin ==
    /\ tpc = "ended"
    /\ MainGoes("join", "drain")
    /\ UNCHANGED <<status, logged, result, limitVars, agentVars, tailerVars, running, chan>>

MainDrain ==
    /\ chan # <<>>
    /\ MainGoes("drain", "drain")
    /\ logged' = Append(logged, Head(chan))
    /\ chan' = Tail(chan)
    /\ UNCHANGED <<status, result, limitVars, agentVars, tailerVars, running>>

MainReturn ==
    /\ chan = <<>>
    /\ MainGoes("drain", "done")
    /\ result' = IF ~limit_reached /\ status = "fail" THEN "err" ELSE "ok"
    /\ UNCHANGED <<status, logged, limitVars, agentVars, tailerVars, running, chan>>

-----------------------------------------------------------------------------

TailerStep ==
    \/ TailFind \/ TailNoFile \/ TailTop \/ TailReadLine \/ TailReadPiece
    \/ TailTurns \/ TailTurnLimit \/ TailBudget \/ TailBudgetLimit \/ TailTell \/ TailDrain

MainStep ==
    \/ MainWatchdog \/ MainReason \/ MainLimit \/ MainPoll \/ MainReceive \/ MainTryWait
    \/ MainKill \/ MainStop \/ MainJoin \/ MainDrain \/ MainReturn

Next == AgentWrites \/ AgentExits \/ Clock \/ TailerStep \/ MainStep

Spec == Init /\ [][Next]_vars

\* both threads run; the agent and the clock may stand still for ever
FairSpec == Spec /\ WF_vars(TailerStep) /\ WF_vars(MainStep)

-----------------------------------------------------------------------------
(* Properties *)

Done == mpc = "done"

\* The log of a finished session has every complete line of the session file
\* that no read error took away, each once and in order: the kill comes before
\* the exit drain, and the last receive after the join.
IsLine(m)  == m[1] = "line"
LinesOf(S) == {m \in S : IsLine(m)}
InOrder(s) == \A i, j \in DOMAIN s :
                  i < j /\ IsLine(s[i]) /\ IsLine(s[j]) => s[i][2] < s[j][2]
TranscriptComplete ==
    Done => /\ LinesOf(ToSet(logged)) = {Event(n) : n \in 1..Len(session) \ missed}
            /\ InOrder(logged)

\* Whenever the main loop stops an agent it has said which limit did it.
StopExplained ==
    mpc \in {"kill", "stop", "join", "drain", "done"} /\ status = "none" =>
        \E m \in ToSet(logged) : m[1] = "limit"

\* A session is good when the agent succeeded by itself or a limit was really
\* reached, and it is an error only when the agent failed by itself.
VerdictIsEarned ==
    /\ result = "ok" =>
        exit = "ok" \/ overtime
        \/ Quantify(DOMAIN session, LAMBDA n : session[n] = "turn") >= Min({MaxTurns, MaxBudget})
    /\ result = "err" => exit = "fail"

\* Once the agent ended, a limit was reached or the time is up, the session
\* comes to its end: neither thread waits for the other for ever.
Ends == (exit # "no" \/ limit_reached \/ overtime) ~> Done
=============================================================================
