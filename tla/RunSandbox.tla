----------------------------- MODULE RunSandbox -----------------------------
(***************************************************************************)
(* The Docker resources of benchmark runs: BenchmarkPipeline::execute      *)
(* (src/pipeline.rs), SandboxManager (src/sandbox/docker.rs), the agent    *)
(* thread of OmpRunner (src/sandbox/omp.rs) and the clean-up of stop_run   *)
(* (src/web/server.rs).                                                    *)
(*                                                                         *)
(* Networks, reference and candidate containers are named after their run, *)
(* the agent container after the process, so all runs share it.  Runs of   *)
(* one task also share the host ports, which Docker gives to the first     *)
(* container that asks.  A failed docker command is ignored by the code.   *)
(*                                                                         *)
(* Who may start while another run is active is RunController's subject:   *)
(* here a run begins when current is free.                                 *)
(***************************************************************************)
EXTENDS Naturals

CONSTANTS
    Runs,
    NoRun,
    MaxStops,       \* bound: stop requests
    MaxCrashes      \* bound: how often the harness process dies and is started again

ASSUME NoRunAssumption == NoRun \notin Runs
ASSUME BoundAssumption == MaxStops \in Nat /\ MaxCrashes \in Nat

VARIABLES
    current,      \* the run that is_running stands for, or NoRun
    pc,           \* where each run's task is
    apc,          \* where each run's agent thread is
    cancel,       \* cancel_requested
    aborted,      \* the runs whose task was aborted: it ends at its next await
    spc, target,  \* the stop handler, and the current_run it read
    \* Docker
    networks,     \* runs whose network exists
    reference,    \* whose reference container holds the reference port
    candidate,    \* whose candidate container holds the candidate port
    agent,        \* whose agent runs in the agent container
    \* history
    stops, crashes,
    verified,     \* whose candidate each verified run talked to
    lost          \* pairs: the agent of the first was removed by the second

taskVars   == <<current, pc, cancel, verified>>
stopVars   == <<aborted, spc, target, stops>>
dockerVars == <<networks, reference, candidate>>
agentVars  == <<agent, lost>>
vars == <<taskVars, stopVars, dockerVars, agentVars, apc, crashes>>

Init ==
    /\ current = NoRun /\ cancel = FALSE
    /\ pc = [r \in Runs |-> "new"] /\ apc = [r \in Runs |-> "none"]
    /\ aborted = {} /\ spc = "idle" /\ target = NoRun
    /\ networks = {} /\ reference = NoRun /\ candidate = NoRun /\ agent = NoRun
    /\ stops = 0 /\ crashes = 0
    /\ verified = [r \in Runs |-> NoRun] /\ lost = {}

-----------------------------------------------------------------------------
(* What the docker commands do *)

Without(r, holder) == IF holder = r THEN NoRun ELSE holder
Taken(r, holder)   == IF holder = NoRun THEN r ELSE holder

\* docker rm -f of the agent container, by r's thread, task or stop
RemoveAgent(r) ==
    /\ agent' = NoRun
    /\ lost' = IF agent \in {r, NoRun} THEN lost ELSE lost \cup {<<agent, r>>}

\* Mutant: the candidate container is not in the list.
RemoveContainersButCandidate(r) ==
    /\ reference' = Without(r, reference)
    /\ UNCHANGED candidate
    /\ RemoveAgent(r)

\* first command of SandboxManager::cleanup
RemoveContainers(r) ==
    /\ reference' = Without(r, reference)
    /\ candidate' = Without(r, candidate)
    /\ RemoveAgent(r)

\* second command: refused while a container is attached
RemoveNetwork(r) ==
    networks' = IF r \in {reference, agent} THEN networks ELSE networks \ {r}

-----------------------------------------------------------------------------
(* The task of a run *)

Goes(r, from, to) == pc[r] = from /\ pc' = [pc EXCEPT ![r] = to]

Begin(r) ==
    /\ current = NoRun
    /\ current' = r
    /\ cancel' = FALSE
    /\ Goes(r, "new", "network")
    /\ UNCHANGED <<verified, stopVars, dockerVars, agentVars, apc, crashes>>

EnsureNetwork(r) ==
    /\ Goes(r, "network", "early")
    /\ networks' = networks \cup {r}
    /\ UNCHANGED <<current, cancel, verified, reference, candidate, stopVars, agentVars, apc, crashes>>

EarlyCheck(r) ==
    /\ Goes(r, "early", IF cancel THEN "cleanup" ELSE "reference")
    /\ UNCHANGED <<current, cancel, verified, stopVars, dockerVars, agentVars, apc, crashes>>

\* the port may be taken
StartReference(r) ==
    /\ r \notin aborted
    /\ Goes(r, "reference", "prompt")
    /\ networks' = networks \cup {r}
    /\ reference' = Taken(r, Without(r, reference))
    /\ UNCHANGED <<current, cancel, verified, candidate, stopVars, agentVars, apc, crashes>>

\* an unreadable prompt file ends the run at once
PromptMissing(r) ==
    /\ Goes(r, "prompt", "failed")
    /\ current' = NoRun
    /\ UNCHANGED <<cancel, verified, stopVars, dockerVars, agentVars, apc, crashes>>

SpawnAgent(r) ==
    /\ Goes(r, "prompt", "agent")
    /\ apc' = [apc EXCEPT ![r] = "preclean"]
    /\ UNCHANGED <<current, cancel, verified, stopVars, dockerVars, agentVars, crashes>>

EvalOnly(r) ==
    /\ Goes(r, "prompt", "check")
    /\ UNCHANGED <<current, cancel, verified, stopVars, dockerVars, agentVars, apc, crashes>>

\* Mutant: the run goes on without its agent thread.
AgentDetached(r) ==
    /\ r \notin aborted
    /\ Goes(r, "agent", "check")
    /\ UNCHANGED <<current, cancel, verified, stopVars, dockerVars, agentVars, apc, crashes>>

AgentDone(r) ==
    /\ apc[r] = "ended" /\ r \notin aborted
    /\ Goes(r, "agent", "check")
    /\ UNCHANGED <<current, cancel, verified, stopVars, dockerVars, agentVars, apc, crashes>>

\* cancelled, disqualified or without a runnable candidate: straight to the clean-up
CheckAfterAgent(r) ==
    /\ \/ Goes(r, "check", "cleanup")
       \/ ~cancel /\ Goes(r, "check", "candidate")
    /\ UNCHANGED <<current, cancel, verified, stopVars, dockerVars, agentVars, apc, crashes>>

\* start_candidate_in_docker, whose result is ignored; the candidate may exit at once
StartCandidate(r) ==
    /\ Goes(r, "candidate", "ready")
    /\ candidate' \in {Taken(r, Without(r, candidate)), Without(r, candidate)}
    /\ UNCHANGED <<current, cancel, verified, networks, reference, stopVars, agentVars, apc, crashes>>

\* whoever holds the port is waited for, verified and measured
Verify(r) ==
    /\ r \notin aborted
    /\ Goes(r, "ready", "cleanup")
    /\ verified' = [verified EXCEPT ![r] = candidate]
    /\ UNCHANGED <<current, cancel, stopVars, dockerVars, agentVars, apc, crashes>>

Cleanup(r) ==
    /\ Goes(r, "cleanup", "unlink")
    /\ RemoveContainers(r)
    /\ UNCHANGED <<current, cancel, verified, networks, stopVars, apc, crashes>>

\* .. and the archive, the result and the epilogue, which frees current
Unlink(r) ==
    /\ Goes(r, "unlink", "ended")
    /\ RemoveNetwork(r)
    /\ current' = NoRun
    /\ UNCHANGED <<cancel, verified, reference, candidate, stopVars, agentVars, apc, crashes>>

\* an aborted task is dropped where it waits: the spend query, the agent, the candidate
Dropped(r) ==
    /\ r \in aborted
    /\ \E from \in {"reference", "agent", "ready"} : Goes(r, from, "dropped")
    /\ UNCHANGED <<current, cancel, verified, stopVars, dockerVars, agentVars, apc, crashes>>

-----------------------------------------------------------------------------
(* The agent thread, which no abort reaches *)

ThreadGoes(r, from, to) == apc[r] = from /\ apc' = [apc EXCEPT ![r] = to]

PreClean(r) ==
    /\ ThreadGoes(r, "preclean", "launch")
    /\ RemoveAgent(r)
    /\ UNCHANGED <<taskVars, stopVars, dockerVars, crashes>>

\* docker run needs the name to be free and the network to exist
Launch(r) ==
    /\ ThreadGoes(r, "launch", "running")
    /\ agent' = IF r \in networks THEN Taken(r, agent) ELSE agent
    /\ UNCHANGED <<taskVars, stopVars, dockerVars, lost, crashes>>

\* Mutant: no watchdog, the agent is waited for until it is gone.
ConcludeUnwatched(r) ==
    /\ agent # r
    /\ ThreadGoes(r, "running", "kill")
    /\ UNCHANGED <<taskVars, stopVars, dockerVars, agentVars, crashes>>

\* the agent ended, is over a limit, never started or was removed
Conclude(r) ==
    /\ ThreadGoes(r, "running", "kill")
    /\ agent' \in {agent, Without(r, agent)}
    /\ UNCHANGED <<taskVars, stopVars, dockerVars, lost, crashes>>

KillAgent(r) ==
    /\ ThreadGoes(r, "kill", "ended")
    /\ RemoveAgent(r)
    /\ UNCHANGED <<taskVars, stopVars, dockerVars, crashes>>

-----------------------------------------------------------------------------
(* stop_run, one at a time *)

StopGoes(from, to) == spc = from /\ spc' = to

StopCancel ==
    /\ current # NoRun /\ stops < MaxStops
    /\ StopGoes("idle", "abort")
    /\ stops' = stops + 1
    /\ cancel' = TRUE
    /\ UNCHANGED <<current, pc, verified, aborted, target, dockerVars, agentVars, apc, crashes>>

\* aborts the task and reads current_run
StopAbort ==
    /\ StopGoes("abort", "clean")
    /\ aborted' = aborted \cup ({current} \ {NoRun})
    /\ target' = current
    /\ UNCHANGED <<taskVars, stops, dockerVars, agentVars, apc, crashes>>

\* without a current_run only the shared names are removed
StopClean ==
    /\ StopGoes("clean", "unlink")
    /\ RemoveContainers(target)
    /\ UNCHANGED <<taskVars, aborted, target, stops, networks, apc, crashes>>

StopUnlink ==
    /\ StopGoes("unlink", "release")
    /\ RemoveNetwork(target)
    /\ UNCHANGED <<taskVars, aborted, target, stops, reference, candidate, agentVars, apc, crashes>>

StopRelease ==
    /\ StopGoes("release", "idle")
    /\ RemoveAgent(target)
    /\ target' = NoRun
    /\ current' = NoRun
    /\ UNCHANGED <<pc, cancel, verified, aborted, stops, dockerVars, apc, crashes>>

-----------------------------------------------------------------------------
(* The harness dies; Docker goes on.  The agent container of the next process *)
(* has another name.                                                          *)

Crash ==
    /\ crashes < MaxCrashes
    /\ crashes' = crashes + 1
    /\ current' = NoRun /\ cancel' = FALSE
    /\ pc' = [r \in Runs |-> IF pc[r] = "new" THEN "new" ELSE "dropped"]
    /\ apc' = [r \in Runs |-> IF apc[r] = "none" THEN "none" ELSE "ended"]
    /\ spc' = "idle" /\ target' = NoRun
    /\ agent' = NoRun
    /\ UNCHANGED <<verified, aborted, stops, dockerVars, lost>>

-----------------------------------------------------------------------------

TaskStep(r) ==
    \/ EnsureNetwork(r) \/ EarlyCheck(r) \/ StartReference(r) \/ PromptMissing(r)
    \/ SpawnAgent(r) \/ EvalOnly(r) \/ AgentDone(r) \/ CheckAfterAgent(r)
    \/ StartCandidate(r) \/ Verify(r) \/ Cleanup(r) \/ Unlink(r) \/ Dropped(r)

ThreadStep(r) == PreClean(r) \/ Launch(r) \/ Conclude(r) \/ KillAgent(r)

StopStep == StopCancel \/ StopAbort \/ StopClean \/ StopUnlink \/ StopRelease

Next ==
    \/ \E r \in Runs : Begin(r) \/ TaskStep(r) \/ ThreadStep(r)
    \/ StopStep
    \/ Crash

Spec == Init /\ [][Next]_vars

\* the process runs on; nobody has to start or stop a run
FairSpec ==
    /\ Spec
    /\ \A r \in Runs : WF_vars(TaskStep(r)) /\ WF_vars(ThreadStep(r))
    /\ WF_vars(StopAbort \/ StopClean \/ StopUnlink \/ StopRelease)

-----------------------------------------------------------------------------
(* Properties *)

\* nobody has stopped a run and the harness has not died so far
Undisturbed == stops = 0 /\ crashes = 0

\* "Candidate Isolation: the generated code is compiled and launched in a
\* clean run-scoped container": a run is judged by its own candidate, never by
\* the one another run left on the port.
OwnCandidateVerified == \A r \in Runs : verified[r] \in {r, NoRun}

\* It takes a stop or a crash to break that: runs that merely follow each
\* other, failed ones included, are each judged by their own candidate.
MixUpNeedsStop == Undisturbed => OwnCandidateVerified

\* A run that comes to its end leaves nothing of its own in Docker.
NothingLeft ==
    Undisturbed => \A r \in Runs : pc[r] = "ended" =>
        r \notin networks \cup {reference, candidate, agent}

\* The shared container name does no harm between runs that follow each other,
\* nor after a restart: unless somebody stopped a run, the agent of one run is
\* never removed by another.
InterferenceNeedsStop == lost # {} => stops > 0

\* Whatever is stopped when, a run that began comes to an end, and its agent
\* thread with it.
RunsEnd ==
    \A r \in Runs :
        pc[r] = "network" ~>
            pc[r] \in {"ended", "failed", "dropped"} /\ apc[r] \in {"none", "ended"}
=============================================================================
