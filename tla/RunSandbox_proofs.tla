-------------------------- MODULE RunSandbox_proofs --------------------------
(***************************************************************************)
(* For any number of runs: as long as nobody stops one and the harness     *)
(* does not die, each run is judged by its own candidate, and one that     *)
(* comes to its end leaves nothing of its own in Docker.                   *)
(***************************************************************************)
EXTENDS RunSandbox, TLAPS

Resting == {"new", "ended", "failed"}
Acting  == {"network", "early", "reference", "prompt", "agent", "check", "candidate",
            "ready", "cleanup", "unlink", "dropped"}

\* Without stops and crashes at most one task acts, and the candidate's port
\* is held only by the run that is between its start and its clean-up.
TypeInv ==
    /\ pc \in [Runs -> Resting \cup Acting]
    /\ verified \in [Runs -> Runs \cup {NoRun}]
    /\ candidate \in Runs \cup {NoRun}
Quiet == stops = 0 /\ crashes = 0 /\ spc = "idle" /\ aborted = {}
OneTask == \A r \in Runs : pc[r] \in Acting => current = r
CandidateInUse == \A r \in Runs : candidate = r => pc[r] \in {"ready", "cleanup"}

QuietInv == TypeInv /\ Quiet /\ OneTask /\ CandidateInUse /\ OwnCandidateVerified

Same == UNCHANGED <<current, verified, candidate, stops, crashes, spc, aborted>>

\* A step that moves one task between two places where it acts, neither of
\* them one that holds the port, and leaves the rest of the invariant alone.
LEMMA MoveKeepsInv ==
    ASSUME QuietInv, NEW r \in Runs, NEW to \in Acting,
           pc[r] \in Acting \ {"ready", "cleanup"},
           pc' = [pc EXCEPT ![r] = to],
           Same
    PROVE  QuietInv'
<1> USE NoRunAssumption DEF QuietInv
<1>1. TypeInv' /\ Quiet'
  BY DEF TypeInv, Quiet, Same
<1>2. \A q \in Runs : pc'[q] = IF q = r THEN to ELSE pc[q]
  BY DEF TypeInv
<1>3. current' = current /\ candidate' = candidate /\ verified' = verified
  BY DEF Same
<1>4. OneTask'
  BY <1>2, <1>3 DEF OneTask
<1>5. CandidateInUse'
  BY <1>2, <1>3 DEF CandidateInUse
<1>6. OwnCandidateVerified'
  BY <1>3 DEF OwnCandidateVerified
<1> QED
  BY <1>1, <1>4, <1>5, <1>6

StopSame == UNCHANGED <<stops, crashes, spc, aborted>>

\* What moving one task does to the typing part.
LEMMA MoveTyped ==
    ASSUME TypeInv, Quiet, NEW r \in Runs, NEW to \in Resting \cup Acting,
           pc' = [pc EXCEPT ![r] = to],
           candidate' \in Runs \cup {NoRun},
           verified' \in [Runs -> Runs \cup {NoRun}],
           StopSame
    PROVE  /\ TypeInv' /\ Quiet'
           /\ \A q \in Runs : pc'[q] = IF q = r THEN to ELSE pc[q]
<1>1. TypeInv'
  BY DEF TypeInv
<1>2. Quiet'
  BY DEF Quiet, StopSame
<1>3. \A q \in Runs : pc'[q] = IF q = r THEN to ELSE pc[q]
  BY DEF TypeInv
<1> QED
  BY <1>1, <1>2, <1>3

\* What is invariant when stops and crashes do happen: they leave a count.
Counts == stops \in Nat /\ crashes \in Nat
MixUpInv == Counts /\ (Undisturbed => QuietInv)

LEMMA CountsGrow ==
    ASSUME Counts, [Next]_vars
    PROVE  Counts' /\ (Undisturbed' => Undisturbed)
<1> USE DEF Counts, Undisturbed
<1>1. CASE UNCHANGED <<stops, crashes>>
  BY <1>1
<1>2. CASE StopCancel
  BY <1>2 DEF StopCancel
<1>3. CASE Crash
  BY <1>3 DEF Crash
<1>4. ASSUME NEW r \in Runs, Begin(r) PROVE UNCHANGED <<stops, crashes>>
  BY <1>4 DEF Begin, stopVars
<1>5. ASSUME NEW r \in Runs, TaskStep(r) PROVE UNCHANGED <<stops, crashes>>
  BY <1>5 DEF TaskStep, EnsureNetwork, EarlyCheck, StartReference, PromptMissing, SpawnAgent,
              EvalOnly, AgentDone, CheckAfterAgent, StartCandidate, Verify, Cleanup, Unlink,
              Dropped, stopVars
<1>6. ASSUME NEW r \in Runs, ThreadStep(r) PROVE UNCHANGED <<stops, crashes>>
  BY <1>6 DEF ThreadStep, PreClean, Launch, Conclude, KillAgent, stopVars
<1>7. CASE StopAbort \/ StopClean \/ StopUnlink \/ StopRelease
  BY <1>1, <1>7 DEF StopAbort, StopClean, StopUnlink, StopRelease
<1>8. CASE UNCHANGED vars
  BY <1>1, <1>8 DEF vars, stopVars
<1> QED
  BY <1>1, <1>2, <1>3, <1>4, <1>5, <1>6, <1>7, <1>8 DEF Next, StopStep

LEMMA MixUpInit == Init => MixUpInv
<1> USE NoRunAssumption
<1>0. Init => Counts
  BY DEF Init, Counts
<1> SUFFICES ASSUME Init PROVE QuietInv
  BY <1>0 DEF MixUpInv
<1>1. \A r \in Runs : pc[r] = "new" /\ verified[r] = NoRun
  BY DEF Init
<1>2. TypeInv /\ Quiet
  BY DEF Init, TypeInv, Quiet, Resting
<1>3. candidate = NoRun
  BY DEF Init
<1> QED
  BY <1>1, <1>2, <1>3 DEF QuietInv, OneTask, Acting, CandidateInUse, OwnCandidateVerified

LEMMA MixUpStep == MixUpInv /\ [Next]_vars => MixUpInv'
<1> USE NoRunAssumption
<1> SUFFICES ASSUME QuietInv, [Next]_vars, Undisturbed' PROVE QuietInv'
  BY CountsGrow DEF MixUpInv
<1>1. CASE \E r \in Runs : Begin(r) \/ TaskStep(r) \/ ThreadStep(r)
  <2>1. PICK r \in Runs : Begin(r) \/ TaskStep(r) \/ ThreadStep(r)
    BY <1>1
  <2>2. CASE Begin(r)
    <3>0. /\ current = NoRun /\ current' = r /\ pc[r] = "new"
          /\ pc' = [pc EXCEPT ![r] = "network"]
          /\ candidate' = candidate /\ verified' = verified /\ StopSame
      BY <2>2 DEF Begin, Goes, stopVars, dockerVars, StopSame
    <3>1. TypeInv' /\ Quiet' /\ \A q \in Runs : pc'[q] = IF q = r THEN "network" ELSE pc[q]
      BY <3>0, MoveTyped DEF QuietInv, TypeInv, Acting
    <3>2. OwnCandidateVerified'
      BY <3>0 DEF QuietInv, OwnCandidateVerified
    <3>3. \A q \in Runs : pc[q] \notin Acting
      BY <3>0 DEF QuietInv, OneTask
    <3>4. OneTask'
      BY <3>0, <3>1, <3>3 DEF OneTask
    <3>5. CandidateInUse'
      BY <3>0, <3>1, <3>3 DEF CandidateInUse, QuietInv, Acting
    <3> QED
      BY <3>1, <3>2, <3>4, <3>5 DEF QuietInv
  <2>3. CASE TaskStep(r)
    <3>1. CASE EnsureNetwork(r)
      <4>1. pc[r] = "network" /\ pc' = [pc EXCEPT ![r] = "early"] /\ Same
        BY <3>1 DEF EnsureNetwork, Goes, Same, stopVars
      <4> QED
        BY <4>1, MoveKeepsInv DEF Acting
    <3>2. CASE EarlyCheck(r)
      <4>1. PICK to \in {"cleanup", "reference"} : pc[r] = "early" /\ pc' = [pc EXCEPT ![r] = to]
        BY <3>2 DEF EarlyCheck, Goes
      <4>2. Same
        BY <3>2 DEF EarlyCheck, Same, stopVars, dockerVars
      <4> QED
        BY <4>1, <4>2, MoveKeepsInv DEF Acting
    <3>3. CASE StartReference(r)
      <4>1. pc[r] = "reference" /\ pc' = [pc EXCEPT ![r] = "prompt"] /\ Same
        BY <3>3 DEF StartReference, Goes, Same, stopVars
      <4> QED
        BY <4>1, MoveKeepsInv DEF Acting
    <3>4. CASE PromptMissing(r)
      <4>1. /\ pc[r] = "prompt" /\ pc' = [pc EXCEPT ![r] = "failed"]
            /\ current' = NoRun /\ candidate' = candidate /\ verified' = verified /\ StopSame
        BY <3>4 DEF PromptMissing, Goes, stopVars, dockerVars, StopSame
      <4>2. TypeInv' /\ Quiet' /\ \A q \in Runs : pc'[q] = IF q = r THEN "failed" ELSE pc[q]
        BY <4>1, MoveTyped DEF QuietInv, TypeInv, Resting
      <4>3. OwnCandidateVerified'
        BY <4>1 DEF QuietInv, OwnCandidateVerified
      <4>4. current = r
        BY <4>1 DEF QuietInv, OneTask, Acting
      <4>5. \A q \in Runs : pc'[q] \notin Acting
        BY <4>2, <4>4 DEF QuietInv, OneTask, Acting
      <4>6. OneTask'
        BY <4>5 DEF OneTask
      <4>7. CandidateInUse'
        BY <4>1, <4>2 DEF CandidateInUse, QuietInv
      <4> QED
        BY <4>2, <4>3, <4>6, <4>7 DEF QuietInv
    <3>5. CASE SpawnAgent(r)
      <4>1. pc[r] = "prompt" /\ pc' = [pc EXCEPT ![r] = "agent"] /\ Same
        BY <3>5 DEF SpawnAgent, Goes, Same, stopVars, dockerVars
      <4> QED
        BY <4>1, MoveKeepsInv DEF Acting
    <3>6. CASE EvalOnly(r)
      <4>1. pc[r] = "prompt" /\ pc' = [pc EXCEPT ![r] = "check"] /\ Same
        BY <3>6 DEF EvalOnly, Goes, Same, stopVars, dockerVars
      <4> QED
        BY <4>1, MoveKeepsInv DEF Acting
    <3>7. CASE AgentDone(r)
      <4>1. pc[r] = "agent" /\ pc' = [pc EXCEPT ![r] = "check"] /\ Same
        BY <3>7 DEF AgentDone, Goes, Same, stopVars, dockerVars
      <4> QED
        BY <4>1, MoveKeepsInv DEF Acting
    <3>8. CASE CheckAfterAgent(r)
      <4>1. PICK to \in {"cleanup", "candidate"} : pc[r] = "check" /\ pc' = [pc EXCEPT ![r] = to]
        BY <3>8 DEF CheckAfterAgent, Goes
      <4>2. Same
        BY <3>8 DEF CheckAfterAgent, Same, stopVars, dockerVars
      <4> QED
        BY <4>1, <4>2, MoveKeepsInv DEF Acting
    <3>9. CASE StartCandidate(r)
      <4>1. /\ pc[r] = "candidate" /\ pc' = [pc EXCEPT ![r] = "ready"]
            /\ current' = current /\ StopSame
            /\ candidate' \in {Taken(r, Without(r, candidate)), Without(r, candidate)} /\ verified' = verified
        BY <3>9 DEF StartCandidate, Goes, StopSame, stopVars, dockerVars
      <4>2. current = r
        BY <4>1 DEF QuietInv, OneTask, Acting
      <4>3. candidate = NoRun /\ candidate' \in {r, NoRun}
        BY <4>1, <4>2 DEF QuietInv, CandidateInUse, TypeInv, OneTask, Acting, Taken, Without
      <4>4. TypeInv' /\ Quiet' /\ \A q \in Runs : pc'[q] = IF q = r THEN "ready" ELSE pc[q]
        BY <4>1, <4>3, MoveTyped DEF QuietInv, TypeInv, Acting
      <4>5. OwnCandidateVerified'
        BY <4>1, <4>3 DEF QuietInv, TypeInv, OwnCandidateVerified
      <4>6. OneTask'
        BY <4>1, <4>2, <4>4 DEF QuietInv, OneTask
      <4>7. CandidateInUse'
        BY <4>1, <4>3, <4>4 DEF QuietInv, CandidateInUse, Without
      <4> QED
        BY <4>4, <4>5, <4>6, <4>7 DEF QuietInv
    <3>10. CASE Verify(r)
      <4>1. /\ pc[r] = "ready" /\ pc' = [pc EXCEPT ![r] = "cleanup"]
            /\ current' = current /\ StopSame
            /\ candidate' = candidate /\ verified' = [verified EXCEPT ![r] = candidate]
        BY <3>10 DEF Verify, Goes, StopSame, stopVars, dockerVars
      <4>2. current = r
        BY <4>1 DEF QuietInv, OneTask, Acting
      <4>3. candidate \in {r, NoRun}
        BY <4>1, <4>2 DEF QuietInv, CandidateInUse, TypeInv, OneTask, Acting
      <4>4. TypeInv' /\ Quiet' /\ \A q \in Runs : pc'[q] = IF q = r THEN "cleanup" ELSE pc[q]
        BY <4>1, <4>3, MoveTyped DEF QuietInv, TypeInv, Acting
      <4>5. OwnCandidateVerified'
        BY <4>1, <4>3 DEF QuietInv, TypeInv, OwnCandidateVerified
      <4>6. OneTask'
        BY <4>1, <4>2, <4>4 DEF QuietInv, OneTask
      <4>7. CandidateInUse'
        BY <4>1, <4>3, <4>4 DEF QuietInv, CandidateInUse, Without
      <4> QED
        BY <4>4, <4>5, <4>6, <4>7 DEF QuietInv
    <3>11. CASE Cleanup(r)
      <4>1. /\ pc[r] = "cleanup" /\ pc' = [pc EXCEPT ![r] = "unlink"]
            /\ current' = current /\ StopSame
            /\ candidate' = Without(r, candidate) /\ verified' = verified
        BY <3>11 DEF Cleanup, Goes, RemoveContainers, StopSame, stopVars, dockerVars
      <4>2. current = r
        BY <4>1 DEF QuietInv, OneTask, Acting
      <4>3. candidate' \in {candidate, NoRun} /\ candidate' # r
        BY <4>1, <4>2 DEF Without
      <4>4. TypeInv' /\ Quiet' /\ \A q \in Runs : pc'[q] = IF q = r THEN "unlink" ELSE pc[q]
        BY <4>1, <4>3, MoveTyped DEF QuietInv, TypeInv, Acting
      <4>5. OwnCandidateVerified'
        BY <4>1, <4>3 DEF QuietInv, TypeInv, OwnCandidateVerified
      <4>6. OneTask'
        BY <4>1, <4>2, <4>4 DEF QuietInv, OneTask
      <4>7. CandidateInUse'
        BY <4>1, <4>3, <4>4 DEF QuietInv, CandidateInUse, Without
      <4> QED
        BY <4>4, <4>5, <4>6, <4>7 DEF QuietInv
    <3>12. CASE Unlink(r)
      <4>1. /\ pc[r] = "unlink" /\ pc' = [pc EXCEPT ![r] = "ended"]
            /\ current' = NoRun /\ candidate' = candidate /\ verified' = verified /\ StopSame
        BY <3>12 DEF Unlink, Goes, stopVars, dockerVars, StopSame
      <4>2. TypeInv' /\ Quiet' /\ \A q \in Runs : pc'[q] = IF q = r THEN "ended" ELSE pc[q]
        BY <4>1, MoveTyped DEF QuietInv, TypeInv, Resting
      <4>3. OwnCandidateVerified'
        BY <4>1 DEF QuietInv, OwnCandidateVerified
      <4>4. current = r
        BY <4>1 DEF QuietInv, OneTask, Acting
      <4>5. \A q \in Runs : pc'[q] \notin Acting
        BY <4>2, <4>4 DEF QuietInv, OneTask, Acting
      <4>6. OneTask'
        BY <4>5 DEF OneTask
      <4>7. CandidateInUse'
        BY <4>1, <4>2 DEF CandidateInUse, QuietInv
      <4> QED
        BY <4>2, <4>3, <4>6, <4>7 DEF QuietInv
    <3>13. CASE Dropped(r)
      BY <3>13 DEF Dropped, QuietInv, Quiet
    <3> QED
      BY <2>3, <3>1, <3>2, <3>3, <3>4, <3>5, <3>6, <3>7, <3>8, <3>9, <3>10, <3>11, <3>12, <3>13
         DEF TaskStep
  <2>4. CASE ThreadStep(r)
    BY <2>4 DEF ThreadStep, PreClean, Launch, Conclude, KillAgent, taskVars, stopVars, dockerVars,
                QuietInv, TypeInv, Quiet, OneTask, CandidateInUse, OwnCandidateVerified
  <2> QED
    BY <2>1, <2>2, <2>3, <2>4
<1>2. CASE StopStep
  <2>1. ~StopCancel
    BY DEF StopCancel, QuietInv, Quiet, Undisturbed
  <2> QED
    BY <1>2, <2>1 DEF StopStep, StopAbort, StopClean, StopUnlink, StopRelease, StopGoes,
                      QuietInv, Quiet
<1>3. CASE Crash
  BY <1>3 DEF Crash, QuietInv, Quiet, Undisturbed
<1>4. CASE UNCHANGED vars
  BY <1>4 DEF vars, taskVars, stopVars, dockerVars,
              QuietInv, TypeInv, Quiet, OneTask, CandidateInUse, OwnCandidateVerified
<1> QED
  BY <1>1, <1>2, <1>3, <1>4 DEF Next

\* For any number of runs, and as long as there was neither a stop nor a
\* crash, no run is verified against the candidate of another, although all
\* share the port and every docker command may fail unnoticed.
THEOREM OwnCandidate == Spec => []MixUpNeedsStop
<1>1. MixUpInv => MixUpNeedsStop
  BY DEF MixUpInv, MixUpNeedsStop, QuietInv
<1> QED
  BY <1>1, MixUpInit, MixUpStep, PTL DEF Spec

----------------------------------------------------------------------------
(* What a run leaves behind: the agent container is held only while its    *)
(* thread watches it, which is while the task waits for the thread; the    *)
(* reference container goes with the clean-up and the network after it.    *)

Threads == {"none", "preclean", "launch", "running", "kill", "ended"}
Working == {"preclean", "launch", "running", "kill"}

Cleared ==
    /\ apc \in [Runs -> Threads]
    /\ \A r \in Runs :
        /\ apc[r] \in Working => pc[r] = "agent"
        /\ agent = r => apc[r] \in {"running", "kill"}
        /\ pc[r] \in {"unlink", "ended"} => reference # r
        /\ pc[r] = "ended" => r \notin networks

LeftInv == MixUpInv /\ (Undisturbed => Cleared)

\* A step of a task that leaves its thread alone.
LEMMA TaskKeepsCleared ==
    ASSUME TypeInv, Cleared, NEW r \in Runs, NEW to \in Resting \cup Acting,
           pc[r] # "agent" \/ apc[r] \notin Working,
           pc' = [pc EXCEPT ![r] = to],
           apc' = apc, agent' \in {agent, NoRun},
           reference' \in {reference, NoRun, r}, networks' \subseteq networks \cup {r},
           to \in {"unlink", "ended"} => reference' # r,
           to = "ended" => r \notin networks'
    PROVE  Cleared'
<1>1. \A q \in Runs : pc'[q] = IF q = r THEN to ELSE pc[q]
  BY DEF TypeInv
<1> QED
  BY <1>1, NoRunAssumption DEF Cleared, Working, Threads

\* A step of a thread while its task waits for it.
LEMMA ThreadKeepsCleared ==
    ASSUME Cleared, NEW r \in Runs, ThreadStep(r)
    PROVE  Cleared'
<1>1. UNCHANGED <<pc, reference, networks>>
  BY DEF ThreadStep, PreClean, Launch, Conclude, KillAgent, taskVars, dockerVars
<1>2. PICK to \in Threads :
        /\ apc[r] \in Working /\ apc' = [apc EXCEPT ![r] = to]
        /\ agent' \in {agent, NoRun} \/ agent' = r
        /\ to \notin {"running", "kill"} => agent' = NoRun
        /\ to \in Working \cup {"ended"}
        /\ agent' = r => to \in {"running", "kill"}
  BY NoRunAssumption DEF ThreadStep, PreClean, Launch, Conclude, KillAgent, ThreadGoes, RemoveAgent,
         Taken, Without, Working, Threads, Cleared
<1>3. \A q \in Runs : apc'[q] = IF q = r THEN to ELSE apc[q]
  BY <1>2 DEF Cleared
<1>4. apc' \in [Runs -> Threads]
  BY <1>2 DEF Cleared
<1> QED
  BY <1>1, <1>2, <1>3, <1>4, NoRunAssumption DEF Cleared, Working

LEMMA LeftInit == Init => LeftInv
<1> SUFFICES ASSUME Init PROVE Cleared
  BY MixUpInit DEF LeftInv
<1> QED
  BY NoRunAssumption DEF Init, Cleared, Threads, Working

LEMMA LeftStep == LeftInv /\ [Next]_vars => LeftInv'
<1> SUFFICES ASSUME QuietInv, Cleared, [Next]_vars, Undisturbed, Undisturbed' PROVE Cleared'
  BY CountsGrow, MixUpStep DEF LeftInv, MixUpInv
<1> USE DEF QuietInv
<1>1. ASSUME NEW r \in Runs, Begin(r) PROVE Cleared'
  BY <1>1, TaskKeepsCleared DEF Begin, Goes, Acting, dockerVars, agentVars
<1>2. ASSUME NEW r \in Runs, TaskStep(r) PROVE Cleared'
  <2>1. CASE EnsureNetwork(r)
    BY <2>1, TaskKeepsCleared DEF EnsureNetwork, Goes, Acting, agentVars
  <2>2. CASE EarlyCheck(r)
    BY <2>2, TaskKeepsCleared DEF EarlyCheck, Goes, Acting, dockerVars, agentVars
  <2>3. CASE StartReference(r)
    BY <2>3, TaskKeepsCleared DEF StartReference, Goes, Acting, agentVars, Taken, Without
  <2>4. CASE PromptMissing(r)
    BY <2>4, TaskKeepsCleared DEF PromptMissing, Goes, Resting, dockerVars, agentVars
  <2>5. CASE SpawnAgent(r)
    <3>1. /\ pc[r] = "prompt" /\ UNCHANGED <<reference, networks, agent>>
          /\ \A q \in Runs : pc'[q] = IF q = r THEN "agent" ELSE pc[q]
          /\ \A q \in Runs : apc'[q] = IF q = r THEN "preclean" ELSE apc[q]
          /\ apc' \in [Runs -> Threads]
      BY <2>5 DEF SpawnAgent, Goes, dockerVars, agentVars, TypeInv, Cleared, Threads
    <3> QED
      BY <3>1 DEF Cleared, Working
  <2>6. CASE EvalOnly(r)
    BY <2>6, TaskKeepsCleared DEF EvalOnly, Goes, Acting, dockerVars, agentVars
  <2>7. CASE AgentDone(r)
    BY <2>7, TaskKeepsCleared DEF AgentDone, Goes, Acting, dockerVars, agentVars, Working
  <2>8. CASE CheckAfterAgent(r)
    <3>1. PICK to \in {"cleanup", "candidate"} : Goes(r, "check", to)
      BY <2>8 DEF CheckAfterAgent
    <3> QED
      BY <2>8, <3>1, TaskKeepsCleared DEF CheckAfterAgent, Goes, Acting, dockerVars, agentVars
  <2>9. CASE StartCandidate(r)
    BY <2>9, TaskKeepsCleared DEF StartCandidate, Goes, Acting, agentVars
  <2>10. CASE Verify(r)
    BY <2>10, TaskKeepsCleared DEF Verify, Goes, Acting, dockerVars, agentVars
  <2>11. CASE Cleanup(r)
    <3>1. reference' \in {reference, NoRun} /\ reference' # r /\ agent' = NoRun
      BY <2>11, NoRunAssumption DEF Cleanup, RemoveContainers, RemoveAgent, Without
    <3> QED
      BY <2>11, <3>1, TaskKeepsCleared DEF Cleanup, Goes, Acting
  <2>12. CASE Unlink(r)
    <3>1. pc[r] = "unlink" /\ reference # r /\ agent # r
      BY <2>12 DEF Unlink, Goes, Cleared, Working
    <3>2. networks' = networks \ {r} /\ UNCHANGED <<reference, agent, apc>>
      BY <2>12, <3>1 DEF Unlink, RemoveNetwork, agentVars
    <3> QED
      BY <2>12, <3>1, <3>2, TaskKeepsCleared DEF Unlink, Goes, Resting
  <2>13. CASE Dropped(r)
    BY <2>13 DEF Dropped, Quiet
  <2> QED
    BY <1>2, <2>1, <2>2, <2>3, <2>4, <2>5, <2>6, <2>7, <2>8, <2>9, <2>10, <2>11, <2>12, <2>13
       DEF TaskStep
<1>3. ASSUME NEW r \in Runs, ThreadStep(r) PROVE Cleared'
  BY <1>3, ThreadKeepsCleared
<1>4. CASE StopStep
  <2>1. ~StopCancel
    BY DEF StopCancel, Undisturbed
  <2> QED
    BY <1>4, <2>1 DEF StopStep, StopAbort, StopClean, StopUnlink, StopRelease, StopGoes, Quiet
<1>5. CASE Crash
  BY <1>5 DEF Crash, Undisturbed
<1>6. CASE UNCHANGED vars
  BY <1>6 DEF vars, taskVars, dockerVars, agentVars, Cleared
<1> QED
  BY <1>1, <1>2, <1>3, <1>4, <1>5, <1>6 DEF Next

(* A run that came to its end has removed its network and its containers,  *)
(* whatever agent, candidate and reference did, if nobody has stopped a    *)
(* run and the harness has not died.                                       *)
THEOREM NothingLeftTheorem == Spec => []NothingLeft
<1>1. LeftInv => NothingLeft
  <2> SUFFICES ASSUME QuietInv, Cleared, NEW r \in Runs, pc[r] = "ended"
               PROVE  r \notin networks \cup {reference, candidate, agent}
    BY DEF LeftInv, MixUpInv, NothingLeft
  <2> QED
    BY DEF QuietInv, CandidateInUse, Cleared, Working
<1> QED
  BY <1>1, LeftInit, LeftStep, PTL DEF Spec

----------------------------------------------------------------------------
(* The shared agent container, crashes included.                           *)

Active == Acting \ {"dropped"}

AgentInv ==
    stops = 0 =>
        /\ spc = "idle" /\ aborted = {} /\ lost = {}
        /\ pc \in [Runs -> Resting \cup Acting] /\ apc \in [Runs -> Threads]
        /\ \A r \in Runs :
            /\ pc[r] \in Active => current = r
            /\ apc[r] \in Working => pc[r] = "agent"
        /\ agent # NoRun => agent \in Runs /\ apc[agent] \in {"running", "kill"}

\* Whose agent runs is the run at hand, so that nobody else's is removed by it.
LEMMA OwnAgent ==
    ASSUME AgentInv, stops = 0, NEW r \in Runs, pc[r] \in Active
    PROVE  agent \in {r, NoRun}
<1>1. agent # NoRun => agent \in Runs /\ pc[agent] = "agent"
  BY DEF AgentInv, Working
<1> QED
  BY <1>1 DEF AgentInv, Active, Acting

\* A step of the task of r that leaves its thread alone.
LEMMA TaskKeepsAgent ==
    ASSUME AgentInv, stops = 0, NEW r \in Runs, NEW to \in Resting \cup Acting,
           pc[r] # "agent" \/ apc[r] \notin Working,
           pc' = [pc EXCEPT ![r] = to],
           UNCHANGED <<apc, lost, stops, spc, aborted>>, agent' \in {agent, NoRun},
           \/ current' = current /\ pc[r] \in Active
           \/ current = NoRun /\ current' = r
           \/ current' = NoRun /\ pc[r] \in Active /\ to \notin Active
    PROVE  AgentInv'
<1>1. \A q \in Runs : pc'[q] = IF q = r THEN to ELSE pc[q]
  BY DEF AgentInv
<1>2. \A q \in Runs : pc'[q] \in Active => current' = q
  BY <1>1, NoRunAssumption DEF AgentInv
<1>3. \A q \in Runs : apc[q] \in Working => pc'[q] = "agent"
  BY <1>1 DEF AgentInv
<1> QED
  BY <1>2, <1>3 DEF AgentInv

LEMMA AgentStep == Counts /\ AgentInv /\ [Next]_vars => AgentInv'
<1> SUFFICES ASSUME AgentInv, [Next]_vars, stops = 0, stops' = 0 PROVE AgentInv'
  <2>1. Counts /\ [Next]_vars /\ stops' = 0 => stops = 0
    <3> SUFFICES ASSUME Counts, [Next]_vars, stops' = 0 PROVE stops = 0
      OBVIOUS
    <3>1. CASE StopCancel
      BY <3>1 DEF StopCancel, Counts
    <3>2. ASSUME NEW r \in Runs, Begin(r) \/ TaskStep(r) \/ ThreadStep(r) PROVE stops' = stops
      BY <3>2 DEF Begin, TaskStep, EnsureNetwork, EarlyCheck, StartReference, PromptMissing, SpawnAgent,
              EvalOnly, AgentDone, CheckAfterAgent, StartCandidate, Verify, Cleanup, Unlink,
              Dropped, ThreadStep, PreClean, Launch, Conclude, KillAgent, stopVars
    <3>3. CASE StopAbort \/ StopClean \/ StopUnlink \/ StopRelease \/ Crash \/ UNCHANGED vars
      BY <3>3 DEF StopAbort, StopClean, StopUnlink, StopRelease, Crash, vars, stopVars
    <3> QED
      BY <3>1, <3>2, <3>3 DEF Next, StopStep
  <2>2. CASE stops' = 0
    BY <2>1, <2>2
  <2>3. CASE stops' # 0
    BY <2>3 DEF AgentInv
  <2> QED
    BY <2>2, <2>3
<1> USE NoRunAssumption
<1>1. ASSUME NEW r \in Runs, Begin(r) PROVE AgentInv'
  BY <1>1, TaskKeepsAgent DEF Begin, Goes, Acting, stopVars, agentVars
<1>2. ASSUME NEW r \in Runs, TaskStep(r) PROVE AgentInv'
  <2>1. CASE Dropped(r)
    BY <2>1 DEF Dropped, AgentInv
  <2>2. CASE SpawnAgent(r)
    <3>1. /\ pc[r] = "prompt" /\ UNCHANGED <<current, agent, lost, stops, spc, aborted>>
          /\ pc' = [pc EXCEPT ![r] = "agent"] /\ apc' = [apc EXCEPT ![r] = "preclean"]
      BY <2>2 DEF SpawnAgent, Goes, stopVars, agentVars
    <3>2. /\ pc' \in [Runs -> Resting \cup Acting] /\ apc' \in [Runs -> Threads]
          /\ \A q \in Runs : pc'[q] = (IF q = r THEN "agent" ELSE pc[q])
                            /\ apc'[q] = (IF q = r THEN "preclean" ELSE apc[q])
      BY <3>1 DEF AgentInv, Threads, Acting
    <3>3. apc[r] \notin Working
      BY <3>1 DEF AgentInv
    <3> QED
      BY <3>1, <3>2, <3>3 DEF AgentInv, Working, Active, Acting
  <2>3. CASE EnsureNetwork(r) \/ EarlyCheck(r)
    BY <2>3, TaskKeepsAgent DEF EnsureNetwork, EarlyCheck, Goes, Active, Acting, stopVars, agentVars
  <2>4. CASE StartReference(r) \/ EvalOnly(r)
    BY <2>4, TaskKeepsAgent DEF StartReference, EvalOnly, Goes, Active, Acting, stopVars, agentVars
  <2>5. CASE PromptMissing(r)
    BY <2>5, TaskKeepsAgent DEF PromptMissing, Goes, Active, Acting, Resting, stopVars, agentVars
  <2>6. CASE AgentDone(r)
    BY <2>6, TaskKeepsAgent DEF AgentDone, Goes, Active, Acting, Working, stopVars, agentVars
  <2>7. CASE CheckAfterAgent(r)
    <3>1. PICK to \in {"cleanup", "candidate"} : Goes(r, "check", to)
      BY <2>7 DEF CheckAfterAgent
    <3> QED
      BY <2>7, <3>1, TaskKeepsAgent DEF CheckAfterAgent, Goes, Active, Acting, stopVars, agentVars
  <2>8. CASE StartCandidate(r) \/ Verify(r)
    BY <2>8, TaskKeepsAgent DEF StartCandidate, Verify, Goes, Active, Acting, stopVars, agentVars
  <2>9. CASE Cleanup(r)
    <3>1. pc[r] \in Active
      BY <2>9 DEF Cleanup, Goes, Active, Acting
    <3>2. agent' = NoRun /\ lost' = lost
      BY <2>9, <3>1, OwnAgent DEF Cleanup, RemoveContainers, RemoveAgent
    <3> QED
      BY <2>9, <3>1, <3>2, TaskKeepsAgent DEF Cleanup, Goes, Acting, stopVars
  <2>10. CASE Unlink(r)
    BY <2>10, TaskKeepsAgent DEF Unlink, Goes, Active, Acting, Resting, stopVars, agentVars
  <2> QED
    BY <1>2, <2>1, <2>2, <2>3, <2>4, <2>5, <2>6, <2>7, <2>8, <2>9, <2>10 DEF TaskStep
<1>3. ASSUME NEW r \in Runs, ThreadStep(r) PROVE AgentInv'
  <2>1. /\ UNCHANGED <<pc, current, stops, spc, aborted>> /\ apc[r] \in Working
    BY <1>3 DEF ThreadStep, PreClean, Launch, Conclude, KillAgent, ThreadGoes, Working, taskVars, stopVars
  <2>2. pc[r] = "agent" /\ agent \in {r, NoRun}
    BY <2>1, OwnAgent DEF AgentInv, Active, Acting
  <2>3. lost' = lost
    BY <1>3, <2>2 DEF ThreadStep, PreClean, Launch, Conclude, KillAgent, RemoveAgent, agentVars
  <2>4. PICK to \in Working \cup {"ended"} :
          /\ apc' = [apc EXCEPT ![r] = to] /\ agent' \in {r, NoRun}
          /\ agent' = r => to \in {"running", "kill"}
    BY <1>3, <2>2 DEF ThreadStep, PreClean, Launch, Conclude, KillAgent, ThreadGoes, RemoveAgent,
       Taken, Without, Working
  <2>5. /\ apc' \in [Runs -> Threads]
        /\ \A q \in Runs : apc'[q] = IF q = r THEN to ELSE apc[q]
    BY <2>4 DEF AgentInv, Threads, Working
  <2> QED
    BY <2>1, <2>2, <2>3, <2>4, <2>5 DEF AgentInv
<1>4. CASE StopStep
  <2>1. ~StopCancel
    BY DEF StopCancel
  <2> QED
    BY <1>4, <2>1 DEF StopStep, StopAbort, StopClean, StopUnlink, StopRelease, StopGoes, AgentInv
<1>5. CASE Crash
  <2>1. /\ UNCHANGED <<aborted, lost>> /\ spc' = "idle" /\ agent' = NoRun
        /\ pc' \in [Runs -> Resting \cup Acting] /\ apc' \in [Runs -> Threads]
    BY <1>5 DEF Crash, Resting, Acting, Threads
  <2>2. \A r \in Runs : pc'[r] \notin Active /\ apc'[r] \notin Working
    BY <1>5 DEF Crash, Active, Acting, Working
  <2> QED
    BY <2>1, <2>2 DEF AgentInv
<1>6. CASE UNCHANGED vars
  BY <1>6 DEF vars, taskVars, stopVars, agentVars, AgentInv
<1> QED
  BY <1>1, <1>2, <1>3, <1>4, <1>5, <1>6 DEF Next

(* All runs share the name of the agent container, yet unless somebody     *)
(* stopped a run, no run removes another's agent, however often the        *)
(* harness dies and is started again.                                      *)
THEOREM InterferenceTheorem == Spec => []InterferenceNeedsStop
<1>1. Init => AgentInv
  BY NoRunAssumption DEF Init, AgentInv, Resting, Threads, Active, Acting, Working
<1>2. Counts /\ AgentInv => InterferenceNeedsStop
  BY DEF Counts, AgentInv, InterferenceNeedsStop
<1>3. Init => Counts
  BY DEF Init, Counts
<1>4. Counts /\ [Next]_vars => Counts'
  BY CountsGrow
<1> QED
  BY <1>1, <1>2, <1>3, <1>4, AgentStep, PTL DEF Spec
=============================================================================
