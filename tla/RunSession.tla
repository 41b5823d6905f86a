---------------------------- MODULE RunSession ----------------------------
(***************************************************************************)
(* What the web harness promises about runs when nobody stops one and no   *)
(* client hangs up: one session at a time.  A request is admitted when no  *)
(* session is open and refused while one is; an admitted session either    *)
(* fails before it starts, or is recorded as the last run and then closed. *)
(* RunController implements this through its flag, its slots and a         *)
(* background task (see RunController!Session).                            *)
(***************************************************************************)
CONSTANTS
    Runs,     \* the requests
    NoRun     \* no session

VARIABLES
    session,  \* the open session
    last,     \* the session recorded last
    status    \* what has become of each request

vars == <<session, last, status>>

Becomes(r, from, to) == status[r] = from /\ status' = [status EXCEPT ![r] = to]

Init ==
    /\ session = NoRun
    /\ last = NoRun
    /\ status = [r \in Runs |-> "new"]

Admit(r) ==
    /\ session = NoRun
    /\ Becomes(r, "new", "open")
    /\ session' = r
    /\ UNCHANGED last

Refuse(r) ==
    /\ session # NoRun
    /\ Becomes(r, "new", "refused")
    /\ UNCHANGED <<session, last>>

Fail(r) ==
    /\ session = r
    /\ Becomes(r, "open", "failed")
    /\ session' = NoRun
    /\ UNCHANGED last

RecordLast(r) ==
    /\ session = r
    /\ Becomes(r, "open", "recorded")
    /\ last' = r
    /\ UNCHANGED session

Close(r) ==
    /\ session = r
    /\ Becomes(r, "recorded", "closed")
    /\ session' = NoRun
    /\ UNCHANGED last

Proceed(r) == Fail(r) \/ RecordLast(r) \/ Close(r)

Next == \E r \in Runs : Admit(r) \/ Refuse(r) \/ Proceed(r)

Spec == Init /\ [][Next]_vars /\ \A r \in Runs : WF_vars(Proceed(r))
=============================================================================
