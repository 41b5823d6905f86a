--------------------------- MODULE RunController ---------------------------
(***************************************************************************)
(* The run controller of the web harness (src/web/server.rs): the handlers *)
(* start_run and stop_run, and the background task that start_run spawns.  *)
(* They share AppState: two atomic flags, two slots describing a run and   *)
(* the join handle of the task.  Nothing but the compare-exchange on       *)
(* is_running serialises them, so every load and store is a step here.     *)
(*                                                                         *)
(* The task calls BenchmarkPipeline::execute; only its cancel checks and   *)
(* its suspension points are kept.  A tokio abort takes a task away at a   *)
(* suspension point and nowhere else: a task between two of them runs on.  *)
(***************************************************************************)
EXTENDS Naturals, FiniteSets

CONSTANTS
    Runs,        \* POST /api/run requests; a request names the run it starts
    LocalRuns,   \* the requests whose model is served by the local llama-server
    Stops,       \* POST /api/run/stop requests
    Trials,      \* trials of each run (req.trials.max(1))
    ClientsLeave,\* a client may disconnect while its start request is suspended
    NoRun        \* None in the slots, and "nobody" in gate

ASSUME RunsAssumption == NoRun \notin Runs /\ LocalRuns \subseteq Runs
ASSUME TrialsAssumption == Trials \in Nat \ {0}
ASSUME ClientsAssumption == ClientsLeave \in BOOLEAN

VARIABLES
    is_running,        \* AppState.is_running
    cancel_requested,  \* AppState.cancel_requested
    current_run,       \* AppState.current_run
    last_run,          \* AppState.last_run
    task_handle,       \* AppState.task_handle
    hpc,               \* where each start_run handler is
    spc,               \* where each stop_run handler is
    stopping,          \* the run whose containers each stop_run cleans up
    tpc,               \* where each background task is
    trial,             \* the trial each task is at
    aborted,           \* the tasks on whose handle abort() was called
    \* history variables, read by no guard
    gate,              \* the run whose compare-exchange set is_running
    evicted,           \* the runs for which somebody else cleared is_running
    mustStop           \* the tasks that a cancellation has to catch

state  == <<is_running, cancel_requested, current_run, last_run, task_handle>>
ghosts == <<gate, evicted, mustStop>>
vars   == <<state, hpc, spc, stopping, tpc, trial, aborted, ghosts>>

RunOrNone == Runs \cup {NoRun}

HandlerPcs == {"idle", "ensure", "reset", "spawn", "store",
               "started", "conflict", "failed", "dropped"}
StopPcs    == {"idle", "cancel", "take", "look", "clear", "release",
               "stopped", "refused"}

\* the suspension points of the task: not polled yet, waiting for the local
\* server, for a key query, for the agent's thread, for a verifier, for billing
Suspended  == {"spawned", "local", "query", "agent", "verify", "bill"}
Running    == {"top", "publish", "prepare", "launch", "check2", "check3",
               "archive", "record", "forget", "release"}
TaskPcs    == Suspended \cup Running \cup {"none", "done", "aborted"}

\* a handler or a task that acts for run r between the two ends of its hold
HandlerLive(r) == hpc[r] \in {"ensure", "reset", "spawn"}
TaskLive(r)    == tpc[r] \in Suspended \cup Running
Live(r)        == HandlerLive(r) \/ TaskLive(r)

\* the places from which no result is saved without another cancel check
BeforeLastCheck == {"spawned", "top", "publish", "local", "prepare", "query",
                    "launch", "agent", "check2", "verify", "check3"}

Init ==
    /\ is_running = FALSE /\ cancel_requested = FALSE
    /\ current_run = NoRun /\ last_run = NoRun /\ task_handle = NoRun
    /\ hpc = [r \in Runs |-> "idle"]
    /\ spc = [s \in Stops |-> "idle"]
    /\ stopping = [s \in Stops |-> NoRun]
    /\ tpc = [r \in Runs |-> "none"]
    /\ trial = [r \in Runs |-> 1]
    /\ aborted = {}
    /\ gate = NoRun /\ evicted = {} /\ mustStop = {}

-----------------------------------------------------------------------------
(* Steps shared by the three actors *)

HandlerTo(r, p) == hpc' = [hpc EXCEPT ![r] = p]
StopTo(s, p)    == spc' = [spc EXCEPT ![s] = p]
TaskTo(r, S)    == \E p \in S : tpc' = [tpc EXCEPT ![r] = p]

\* is_running.store(false) by run x, or by a stop handler when x = NoRun
ClearFlag(x) ==
    /\ is_running' = FALSE
    /\ gate' = NoRun
    /\ evicted' = evicted \cup ({gate} \ {x, NoRun})

-----------------------------------------------------------------------------
(* start_run *)

\* Mutant: the flag is set without comparing it first.
StartAcceptPlainStore(r) ==
    /\ hpc[r] = "idle"
    /\ is_running' = TRUE
    /\ gate' = r
    /\ HandlerTo(r, IF r \in LocalRuns THEN "ensure" ELSE "reset")
    /\ UNCHANGED <<cancel_requested, current_run, last_run, task_handle, spc,
                   stopping, tpc, trial, aborted, evicted, mustStop>>

StartAccept(r) ==
    /\ hpc[r] = "idle"
    /\ ~is_running
    /\ is_running' = TRUE
    /\ gate' = r
    /\ HandlerTo(r, IF r \in LocalRuns THEN "ensure" ELSE "reset")
    /\ UNCHANGED <<cancel_requested, current_run, last_run, task_handle, spc,
                   stopping, tpc, trial, aborted, evicted, mustStop>>

StartConflict(r) ==
    /\ hpc[r] = "idle"
    /\ is_running
    /\ HandlerTo(r, "conflict")
    /\ UNCHANGED <<state, spc, stopping, tpc, trial, aborted, ghosts>>

\* ensure_running_for_model(..).await
EnsureOk(r) ==
    /\ hpc[r] = "ensure"
    /\ HandlerTo(r, "reset")
    /\ UNCHANGED <<state, spc, stopping, tpc, trial, aborted, ghosts>>

\* Mutants: the early return is lost; the flag stays up on the error path.
EnsureFailGoesOn(r) ==
    /\ hpc[r] = "ensure"
    /\ HandlerTo(r, "reset")
    /\ ClearFlag(r)
    /\ UNCHANGED <<cancel_requested, current_run, last_run, task_handle, spc,
                   stopping, tpc, trial, aborted, mustStop>>
EnsureFailKeepsFlag(r) ==
    /\ hpc[r] = "ensure"
    /\ HandlerTo(r, "failed")
    /\ UNCHANGED <<state, spc, stopping, tpc, trial, aborted, ghosts>>

EnsureFail(r) ==
    /\ hpc[r] = "ensure"
    /\ HandlerTo(r, "failed")
    /\ ClearFlag(r)
    /\ UNCHANGED <<cancel_requested, current_run, last_run, task_handle, spc,
                   stopping, tpc, trial, aborted, mustStop>>

\* the connection closes during that await and axum drops the handler
ClientLeaves(r) ==
    /\ ClientsLeave
    /\ hpc[r] = "ensure"
    /\ HandlerTo(r, "dropped")
    /\ UNCHANGED <<state, spc, stopping, tpc, trial, aborted, ghosts>>

ResetCancel(r) ==
    /\ hpc[r] = "reset"
    /\ cancel_requested' = FALSE
    /\ mustStop' = {}
    /\ HandlerTo(r, "spawn")
    /\ UNCHANGED <<is_running, current_run, last_run, task_handle, spc,
                   stopping, tpc, trial, aborted, gate, evicted>>

Spawn(r) ==
    /\ hpc[r] = "spawn"
    /\ HandlerTo(r, "store")
    /\ TaskTo(r, {"spawned"})
    /\ UNCHANGED <<state, spc, stopping, trial, aborted, ghosts>>

StoreHandle(r) ==
    /\ hpc[r] = "store"
    /\ task_handle' = r
    /\ HandlerTo(r, "started")
    /\ UNCHANGED <<is_running, cancel_requested, current_run, last_run, spc,
                   stopping, tpc, trial, aborted, ghosts>>

-----------------------------------------------------------------------------
(* stop_run: synchronous, never dropped half way *)

StopRefused(s) ==
    /\ spc[s] = "idle"
    /\ ~is_running
    /\ StopTo(s, "refused")
    /\ UNCHANGED <<state, hpc, stopping, tpc, trial, aborted, ghosts>>

StopSeen(s) ==
    /\ spc[s] = "idle"
    /\ is_running
    /\ StopTo(s, "cancel")
    /\ UNCHANGED <<state, hpc, stopping, tpc, trial, aborted, ghosts>>

StopCancel(s) ==
    /\ spc[s] = "cancel"
    /\ cancel_requested' = TRUE
    /\ mustStop' = {r \in Runs : tpc[r] \in BeforeLastCheck}
    /\ StopTo(s, "take")
    /\ UNCHANGED <<is_running, current_run, last_run, task_handle, hpc,
                   stopping, tpc, trial, aborted, gate, evicted>>

StopAbort(s) ==
    /\ spc[s] = "take"
    /\ aborted' = aborted \cup ({task_handle} \ {NoRun})
    /\ task_handle' = NoRun
    /\ StopTo(s, "look")
    /\ UNCHANGED <<is_running, cancel_requested, current_run, last_run, hpc,
                   stopping, tpc, trial, ghosts>>

StopCleanup(s) ==
    /\ spc[s] = "look"
    /\ stopping' = [stopping EXCEPT ![s] = current_run]
    /\ StopTo(s, "clear")
    /\ UNCHANGED <<state, hpc, tpc, trial, aborted, ghosts>>

StopForget(s) ==
    /\ spc[s] = "clear"
    /\ current_run' = NoRun
    /\ StopTo(s, "release")
    /\ UNCHANGED <<is_running, cancel_requested, last_run, task_handle, hpc,
                   stopping, tpc, trial, aborted, ghosts>>

StopRelease(s) ==
    /\ spc[s] = "release"
    /\ ClearFlag(NoRun)
    /\ StopTo(s, "stopped")
    /\ UNCHANGED <<cancel_requested, current_run, last_run, task_handle, hpc,
                   stopping, tpc, trial, aborted, mustStop>>

-----------------------------------------------------------------------------
(* The spawned task *)

TaskOnly(r, S) ==
    /\ TaskTo(r, S)
    /\ UNCHANGED <<state, hpc, spc, stopping, trial, aborted, ghosts>>

\* the runtime polls a suspended task: with an abort pending it is dropped
\* where it stands, with its locals and without its epilogue
Aborted(r) ==
    /\ tpc[r] \in Suspended
    /\ r \in aborted
    /\ TaskOnly(r, {"aborted"})

AfterAwait ==
    [spawned |-> "top", local |-> "prepare", query |-> "launch",
     agent |-> "check2", verify |-> "check3", bill |-> "archive"]

Resume(r) ==
    /\ tpc[r] \in Suspended
    /\ r \notin aborted
    /\ TaskOnly(r, {AfterAwait[tpc[r]]})

\* Mutant: one trial too many.
TrialTopOffByOne(r) ==
    /\ tpc[r] = "top"
    /\ TaskOnly(r, IF cancel_requested \/ trial[r] > Trials + 1
                   THEN {"record"} ELSE {"publish"})

\* the head of the trial loop
TrialTop(r) ==
    /\ tpc[r] = "top"
    /\ TaskOnly(r, IF cancel_requested \/ trial[r] > Trials
                   THEN {"record"} ELSE {"publish"})

Publish(r) ==
    /\ tpc[r] = "publish"
    /\ current_run' = r
    /\ TaskTo(r, IF trial[r] = 1 /\ r \in LocalRuns THEN {"local"} ELSE {"prepare"})
    /\ UNCHANGED <<is_running, cancel_requested, last_run, task_handle, hpc,
                   spc, stopping, trial, aborted, ghosts>>

\* the pipeline up to its first cancel check; creating the workspace may fail,
\* the key query happens only with an API key
Prepare(r) ==
    /\ tpc[r] = "prepare"
    /\ TaskOnly(r, IF cancel_requested THEN {"record"}
                   ELSE {"record", "query", "launch"})

\* reference server and prompt, whose reading may fail; no agent if eval_only
Launch(r) ==
    /\ tpc[r] = "launch"
    /\ TaskOnly(r, {"record", "agent", "check2"})

\* the second check; no verifier for a disqualified or unrunnable candidate
CheckAfterAgent(r) ==
    /\ tpc[r] = "check2"
    /\ TaskOnly(r, IF cancel_requested THEN {"record"} ELSE {"verify", "check3"})

\* the third and last check; pricing suspends unless the model's is built in
\* Mutant: no cancel check before saving.
ArchiveUnchecked(r) ==
    /\ tpc[r] = "check3"
    /\ TaskOnly(r, {"bill", "archive"})

CheckBeforeArchive(r) ==
    /\ tpc[r] = "check3"
    /\ TaskOnly(r, IF cancel_requested THEN {"record"} ELSE {"bill", "archive"})

Archive(r) ==
    /\ tpc[r] = "archive"
    /\ trial' = [trial EXCEPT ![r] = @ + 1]
    /\ TaskTo(r, {"top"})
    /\ UNCHANGED <<state, hpc, spc, stopping, aborted, ghosts>>

\* the epilogue: both slots under current_run's lock, the handle, the flag
\* Mutants: one of the two slots is not written.
RecordKeepsCurrent(r) ==
    /\ tpc[r] = "record"
    /\ last_run' = current_run
    /\ TaskTo(r, {"forget"})
    /\ UNCHANGED <<is_running, cancel_requested, current_run, task_handle, hpc,
                   spc, stopping, trial, aborted, ghosts>>
RecordForgetsLast(r) ==
    /\ tpc[r] = "record"
    /\ current_run' = NoRun
    /\ TaskTo(r, {"forget"})
    /\ UNCHANGED <<is_running, cancel_requested, last_run, task_handle, hpc,
                   spc, stopping, trial, aborted, ghosts>>

Record(r) ==
    /\ tpc[r] = "record"
    /\ last_run' = current_run
    /\ current_run' = NoRun
    /\ TaskTo(r, {"forget"})
    /\ UNCHANGED <<is_running, cancel_requested, task_handle, hpc, spc,
                   stopping, trial, aborted, ghosts>>

ForgetHandle(r) ==
    /\ tpc[r] = "forget"
    /\ task_handle' = NoRun
    /\ TaskTo(r, {"release"})
    /\ UNCHANGED <<is_running, cancel_requested, current_run, last_run, hpc,
                   spc, stopping, trial, aborted, ghosts>>

\* Mutant: the epilogue leaves the flag up.
ReleaseKeepsFlag(r) ==
    /\ tpc[r] = "release"
    /\ TaskOnly(r, {"done"})

Release(r) ==
    /\ tpc[r] = "release"
    /\ ClearFlag(r)
    /\ TaskTo(r, {"done"})
    /\ UNCHANGED <<cancel_requested, current_run, last_run, task_handle, hpc,
                   spc, stopping, trial, aborted, mustStop>>

-----------------------------------------------------------------------------

Request(r) == StartAccept(r) \/ StartConflict(r)

HandlerStep(r) ==
    \/ EnsureOk(r) \/ EnsureFail(r)
    \/ ResetCancel(r) \/ Spawn(r) \/ StoreHandle(r)

StopRequest(s) == StopRefused(s) \/ StopSeen(s)

StopStep(s) ==
    \/ StopCancel(s) \/ StopAbort(s) \/ StopCleanup(s)
    \/ StopForget(s) \/ StopRelease(s)

TaskStep(r) ==
    \/ Aborted(r) \/ Resume(r)
    \/ TrialTop(r) \/ Publish(r)
    \/ Prepare(r) \/ Launch(r) \/ CheckAfterAgent(r) \/ CheckBeforeArchive(r)
    \/ Archive(r)
    \/ Record(r) \/ ForgetHandle(r) \/ Release(r)

Next ==
    \/ \E r \in Runs : Request(r) \/ ClientLeaves(r) \/ HandlerStep(r) \/ TaskStep(r)
    \/ \E s \in Stops : StopRequest(s) \/ StopStep(s)

Spec == Init /\ [][Next]_vars

\* The runtime polls what is ready; every await of the task is bounded by a
\* timeout (25 s for the port, the agent's time limit, 4 s for a query).
\* Nobody is obliged to send a request or to hang up.
Fairness ==
    /\ \A r \in Runs : WF_vars(HandlerStep(r)) /\ WF_vars(TaskStep(r))
    /\ \A s \in Stops : WF_vars(StopStep(s))

FairSpec == Spec /\ Fairness

-----------------------------------------------------------------------------
(* The abstract session this implements when Stops = {} and ~ClientsLeave *)

SessionStatus(r) ==
    IF hpc[r] = "idle" THEN "new"
    ELSE IF hpc[r] = "conflict" THEN "refused"
    ELSE IF hpc[r] = "failed" THEN "failed"
    ELSE IF tpc[r] \in {"forget", "release"} THEN "recorded"
    ELSE IF tpc[r] = "done" THEN "closed"
    ELSE "open"

Session == INSTANCE RunSession WITH
    session <- IF is_running THEN gate ELSE NoRun,
    last    <- last_run,
    status  <- [r \in Runs |-> SessionStatus(r)]

\* One session at a time, each recorded before it is closed.
ImplementsSession == Session!Spec

-----------------------------------------------------------------------------
(* Properties *)

TypeOK ==
    /\ is_running \in BOOLEAN /\ cancel_requested \in BOOLEAN
    /\ current_run \in RunOrNone /\ last_run \in RunOrNone
    /\ task_handle \in RunOrNone
    /\ hpc \in [Runs -> HandlerPcs]
    /\ spc \in [Stops -> StopPcs]
    /\ stopping \in [Stops -> RunOrNone]
    /\ tpc \in [Runs -> TaskPcs]
    /\ trial \in [Runs -> 1..Trials + 1]
    /\ aborted \subseteq Runs
    /\ gate \in RunOrNone
    /\ evicted \subseteq Runs
    /\ mustStop \subseteq Runs

\* Whoever acts for a run, from the accepted request to the last store of the
\* epilogue, holds is_running, unless another actor cleared the flag under it.
HoldUntilDone ==
    \A r \in Runs : Live(r) => (is_running /\ gate = r) \/ r \in evicted

\* Two runs act at the same time only if one of them was evicted, and then a
\* stop request has been answered: starts alone never overlap.
OverlapNeedsStop ==
    /\ \A r, q \in Runs : Live(r) /\ Live(q) /\ r # q => {r, q} \cap evicted # {}
    /\ evicted # {} => \E s \in Stops : spc[s] = "stopped"

\* A run told to stop before the pipeline's last cancel check saves nothing
\* more, as long as no later start has reset the flag.
StopBeatsArchive ==
    \A r \in mustStop : tpc[r] \notin {"bill", "archive"}

\* A status that says "not running" with nobody evicted describes no run in
\* progress, and a run becomes the last one only after it left the other slot.
SlotsFollowFlag ==
    evicted = {} /\ (\A s \in Stops : spc[s] \in {"idle", "refused"}) =>
        /\ ~is_running => current_run = NoRun /\ \A r \in Runs : ~TaskLive(r)
        /\ current_run # NoRun => gate = current_run
        /\ last_run # NoRun => tpc[last_run] \in {"forget", "release", "done"}

\* "Benchmark run stopped": once a stop has cleared the flag under a run, the
\* run publishes no further trial.
StopEndsRun ==
    [][\A r \in Runs : tpc[r] = "publish" /\ tpc'[r] # "publish" => r \notin evicted]_vars

\* Every run that is accepted ends and gives the flag back, unless the client
\* of a start went away while it waited for llama-server.
EventuallyFree == is_running ~> ~is_running \/ \E r \in Runs : hpc[r] = "dropped"
=============================================================================
