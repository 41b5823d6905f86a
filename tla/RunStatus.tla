----------------------------- MODULE RunStatus -----------------------------
(***************************************************************************)
(* GET /api/status (get_status in src/web/server.rs) beside the run        *)
(* controller.  The handler reads the flag and the two slots one after the *)
(* other, with no lock around the three, while the task's epilogue writes  *)
(* them in its own order; the page decides from one answer whether to show *)
(* the live run or the last one.                                           *)
(***************************************************************************)
EXTENDS RunController, Sequences

VARIABLES
    ppc,     \* the next read of the status handler
    answer,  \* the StatusResponse under construction
    closed,  \* history: the runs whose epilogue has completed, in order
    seen     \* history: how many had when the handler began

statusVars == <<ppc, answer, closed, seen>>

NoAnswer == [is_running |-> FALSE, current_run |-> NoRun, last_run |-> NoRun]

StatusInit ==
    /\ Init
    /\ ppc = "running"
    /\ answer = NoAnswer
    /\ closed = <<>>
    /\ seen = 0

ControllerStep ==
    /\ Next
    /\ closed' = IF \E r \in Runs : tpc[r] = "release" /\ tpc'[r] = "done"
                 THEN Append(closed, CHOOSE r \in Runs : tpc[r] = "release" /\ tpc'[r] = "done")
                 ELSE closed
    /\ UNCHANGED <<ppc, answer, seen>>

ReadFlag ==
    /\ ppc \in {"running", "answered"}
    /\ answer' = [NoAnswer EXCEPT !.is_running = is_running]
    /\ seen' = Len(closed)
    /\ ppc' = "current"
    /\ UNCHANGED <<vars, closed>>

ReadCurrent ==
    /\ ppc = "current"
    /\ answer' = [answer EXCEPT !.current_run = current_run]
    /\ ppc' = "last"
    /\ UNCHANGED <<vars, closed, seen>>

ReadLast ==
    /\ ppc = "last"
    /\ answer' = [answer EXCEPT !.last_run = last_run]
    /\ ppc' = "answered"
    /\ UNCHANGED <<vars, closed, seen>>

StatusNext == ControllerStep \/ ReadFlag \/ ReadCurrent \/ ReadLast

StatusSpec == StatusInit /\ [][StatusNext]_<<vars, statusVars>>

\* the controller's steps are fair; nobody has to ask for a status
FairStatusSpec == StatusSpec /\ Fairness

-----------------------------------------------------------------------------

\* An answer is not older than its request, whatever runs started or ended
\* between its three reads: it shows as the last run none that was superseded
\* before, and as the current one none that was over.  (Without stops; a stop
\* empties the slots early.)
AnswerIsSettled ==
    ppc = "answered" /\ seen > 0 =>
        /\ answer.last_run \notin {closed[i] : i \in 1..seen - 1} \cup {NoRun}
        /\ answer.current_run \notin {closed[i] : i \in 1..seen}
=============================================================================
