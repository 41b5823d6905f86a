------------------------ MODULE WebServer_proofs ---------------------------
(***************************************************************************)
(* Proofs about the web server: RunController and RunStatus, for every set *)
(* of start and stop requests, every number of trials, and clients that    *)
(* may leave; LogStream, for every set of writers and clients, every       *)
(* capacity of the channel and every number of lines.                      *)
(***************************************************************************)
EXTENDS RunStatus, LogStream, TLAPS

\* From the head of the loop to the saving of a result the task is in a trial
\* that exists; only then does the counter move on.
InTrial == {"publish", "local", "prepare", "query", "launch", "agent", "check2",
            "verify", "check3", "bill", "archive"}

TypeInv == TypeOK /\ \A r \in Runs : tpc[r] \in InTrial => trial[r] <= Trials

\* A task exists exactly when its handler got as far as spawning it.
SpawnedOnce ==
    \A r \in Runs : tpc[r] # "none" <=> hpc[r] \in {"store", "started"}

\* The inductive invariant behind mutual exclusion.
HoldInv == SpawnedOnce /\ HoldUntilDone
           /\ (evicted # {} => \E s \in Stops : spc[s] = "stopped")

\* While a cancellation has somebody to catch, the flag that carries it is up.
CancelInv == (mustStop # {} => cancel_requested) /\ StopBeatsArchive

-----------------------------------------------------------------------------
(* Types *)

LEMMA TypeInvariant == Spec => []TypeInv
<1>1. Init => TypeInv
  <2> SUFFICES ASSUME Init PROVE TypeInv
    OBVIOUS
  <2> USE DEF Init
  <2>1. 1 \in 1..Trials + 1
    BY TrialsAssumption
  <2>2. trial \in [Runs -> 1..Trials + 1]
    BY <2>1
  <2>3. hpc \in [Runs -> HandlerPcs] /\ spc \in [Stops -> StopPcs]
    BY DEF HandlerPcs, StopPcs
  <2>4. tpc \in [Runs -> TaskPcs] /\ \A r \in Runs : tpc[r] \notin InTrial
    BY DEF TaskPcs, InTrial
  <2>5. stopping \in [Stops -> RunOrNone] /\ NoRun \in RunOrNone
    BY DEF RunOrNone
  <2> QED
    BY <2>2, <2>3, <2>4, <2>5 DEF TypeOK, TypeInv
<1>2. TypeInv /\ [Next]_vars => TypeInv'
  <2> SUFFICES ASSUME TypeInv, [Next]_vars PROVE TypeInv'
    OBVIOUS
  <2> USE DEF TypeInv, TypeOK, RunOrNone
  <2>1. ASSUME NEW r \in Runs, Request(r) \/ ClientLeaves(r) PROVE TypeInv'
    BY <2>1 DEF Request, StartAccept, StartConflict, ClientLeaves, HandlerTo,
                HandlerPcs, state, ghosts
  <2>2. ASSUME NEW r \in Runs, HandlerStep(r) PROVE TypeInv'
    <3>1. CASE EnsureOk(r)
      BY <3>1 DEF EnsureOk, HandlerTo, HandlerPcs, state, ghosts
    <3>2. CASE EnsureFail(r)
      BY <3>2 DEF EnsureFail, ClearFlag, HandlerTo, HandlerPcs
    <3>3. CASE ResetCancel(r)
      BY <3>3 DEF ResetCancel, HandlerTo, HandlerPcs
    <3>4. CASE Spawn(r)
      BY <3>4 DEF Spawn, HandlerTo, TaskTo, HandlerPcs, TaskPcs, Suspended, InTrial, state, ghosts
    <3>5. CASE StoreHandle(r)
      BY <3>5 DEF StoreHandle, HandlerTo, HandlerPcs, ghosts
    <3> QED
      BY <2>2, <3>1, <3>2, <3>3, <3>4, <3>5 DEF HandlerStep
  <2>3. ASSUME NEW s \in Stops, StopRequest(s) \/ StopStep(s) PROVE TypeInv'
    <3>1. CASE StopRequest(s)
      BY <3>1 DEF StopRequest, StopRefused, StopSeen, StopTo, StopPcs, state, ghosts
    <3>2. CASE StopCancel(s)
      BY <3>2 DEF StopCancel, StopTo, StopPcs
    <3>3. CASE StopAbort(s)
      BY <3>3 DEF StopAbort, StopTo, StopPcs, ghosts
    <3>4. CASE StopCleanup(s)
      BY <3>4 DEF StopCleanup, StopTo, StopPcs, state, ghosts
    <3>5. CASE StopForget(s)
      BY <3>5 DEF StopForget, StopTo, StopPcs, ghosts
    <3>6. CASE StopRelease(s)
      BY <3>6 DEF StopRelease, ClearFlag, StopTo, StopPcs
    <3> QED
      BY <2>3, <3>1, <3>2, <3>3, <3>4, <3>5, <3>6 DEF StopStep
  <2>4. ASSUME NEW r \in Runs, TaskStep(r) PROVE TypeInv'
    <3> USE DEF TaskPcs, Suspended, Running, InTrial
    <3>1. CASE Aborted(r)
      BY <3>1 DEF Aborted, TaskOnly, TaskTo, state, ghosts
    <3>2. CASE Resume(r)
      BY <3>2 DEF Resume, AfterAwait, TaskOnly, TaskTo, state, ghosts
    <3>3. CASE TrialTop(r)
      <4>1. tpc[r] = "top" /\ trial[r] \in Nat
        BY <3>3 DEF TrialTop
      <4>2. tpc' = [tpc EXCEPT ![r] = "record"]
            \/ (trial[r] <= Trials /\ tpc' = [tpc EXCEPT ![r] = "publish"])
        <5>1. CASE trial[r] > Trials
          BY <3>3, <4>1, <5>1 DEF TrialTop, TaskOnly, TaskTo
        <5>2. CASE ~(trial[r] > Trials)
          <6>1. trial[r] <= Trials
            BY <4>1, <5>2, TrialsAssumption
          <6> QED
            BY <3>3, <6>1 DEF TrialTop, TaskOnly, TaskTo
        <5> QED
          BY <5>1, <5>2
      <4> QED
        BY <3>3, <4>2 DEF TrialTop, TaskOnly, state, ghosts
    <3>4. CASE Publish(r)
      BY <3>4 DEF Publish, TaskTo, ghosts
    <3>5. CASE Prepare(r) \/ Launch(r)
      BY <3>5 DEF Prepare, Launch, TaskOnly, TaskTo, state, ghosts
    <3>6. CASE CheckAfterAgent(r) \/ CheckBeforeArchive(r)
      BY <3>6 DEF CheckAfterAgent, CheckBeforeArchive, TaskOnly, TaskTo, state, ghosts
    <3>7. CASE Archive(r)
      <4>1. trial[r] \in 1..Trials + 1 /\ trial[r] <= Trials
        BY <3>7 DEF Archive
      <4>2. trial[r] + 1 \in 1..Trials + 1
        BY <4>1, TrialsAssumption
      <4>3. trial' = [trial EXCEPT ![r] = trial[r] + 1]
            /\ tpc' = [tpc EXCEPT ![r] = "top"]
        BY <3>7 DEF Archive, TaskTo
      <4> QED
        BY <3>7, <4>2, <4>3 DEF Archive, state, ghosts
    <3>8. CASE Record(r)
      BY <3>8 DEF Record, TaskTo, ghosts
    <3>9. CASE ForgetHandle(r)
      BY <3>9 DEF ForgetHandle, TaskTo, ghosts
    <3>10. CASE Release(r)
      BY <3>10 DEF Release, ClearFlag, TaskTo
    <3> QED
      BY <2>4, <3>1, <3>2, <3>3, <3>4, <3>5, <3>6, <3>7, <3>8, <3>9, <3>10
      DEF TaskStep
  <2>5. CASE UNCHANGED vars
    BY <2>5 DEF vars, state, ghosts
  <2> QED
    BY <2>1, <2>2, <2>3, <2>4, <2>5 DEF Next
<1> QED
  BY <1>1, <1>2, PTL DEF Spec

\* Every variable keeps its type: no handler, stop or task step leaves the
\* range the code gives it, and no trial beyond the last one is started.
THEOREM TypeCorrect == Spec => []TypeOK
<1>1. TypeInv => TypeOK
  BY DEF TypeInv
<1> QED
  BY <1>1, TypeInvariant, PTL

-----------------------------------------------------------------------------
(* Mutual exclusion *)

\* A task step between two places of the task moves nothing that HoldInv reads.
LEMMA TaskMove ==
    ASSUME TypeOK, HoldInv, NEW r \in Runs, TaskLive(r),
           NEW p \in TaskPcs \ {"none"}, tpc' = [tpc EXCEPT ![r] = p],
           UNCHANGED <<hpc, spc, is_running, gate, evicted>>
    PROVE  HoldInv'
<1> USE DEF TypeOK
<1>1. tpc[r] # "none"
  BY DEF TaskLive, Suspended, Running
<1>2. SpawnedOnce'
  BY <1>1 DEF HoldInv, SpawnedOnce
<1>3. \A q \in Runs : Live(q)' => Live(q)
  BY DEF Live, HandlerLive, TaskLive
<1>4. HoldUntilDone'
  BY <1>3 DEF HoldInv, HoldUntilDone
<1> QED
  BY <1>2, <1>4 DEF HoldInv

\* A store of FALSE by somebody whose run is then over evicts the holder, if
\* there is another one.
LEMMA ClearKeepsHold ==
    ASSUME TypeOK, HoldInv, NEW x, ClearFlag(x),
           \A q \in Runs : Live(q)' => Live(q) /\ q # x
    PROVE  HoldUntilDone'
<1> SUFFICES ASSUME NEW q \in Runs, Live(q)' PROVE q \in evicted'
  BY DEF HoldUntilDone
<1>1. Live(q) /\ q # x
  OBVIOUS
<1>2. gate = q \/ q \in evicted
  BY <1>1 DEF HoldInv, HoldUntilDone
<1>3. q # NoRun
  BY RunsAssumption
<1> QED
  BY <1>1, <1>2, <1>3 DEF ClearFlag

LEMMA HoldInvariant == Spec => []HoldInv
<1>1. Init => HoldInv
  BY DEF Init, HoldInv, SpawnedOnce, HoldUntilDone, Live, HandlerLive, TaskLive,
         Suspended, Running
<1>2. TypeInv /\ HoldInv /\ [Next]_vars => HoldInv'
  <2> SUFFICES ASSUME TypeOK, HoldInv, [Next]_vars PROVE HoldInv'
    BY DEF TypeInv
  <2>1. ASSUME NEW r \in Runs, Request(r) PROVE HoldInv'
    <3>1. CASE StartAccept(r)
      BY <3>1 DEF StartAccept, HandlerTo, TypeOK, HoldInv, SpawnedOnce,
                  HoldUntilDone, Live, HandlerLive, TaskLive
    <3>2. CASE StartConflict(r)
      BY <3>2 DEF StartConflict, HandlerTo, state, ghosts, TypeOK, HoldInv,
                  SpawnedOnce, HoldUntilDone, Live, HandlerLive, TaskLive
    <3> QED
      BY <2>1, <3>1, <3>2 DEF Request
  <2>2. ASSUME NEW r \in Runs, HandlerStep(r) \/ ClientLeaves(r) PROVE HoldInv'
    <3> USE DEF HandlerTo, state, ghosts, TypeOK
    <3>1. CASE EnsureOk(r) \/ ClientLeaves(r)
      BY <3>1 DEF EnsureOk, ClientLeaves, HoldInv, SpawnedOnce, HoldUntilDone,
                  Live, HandlerLive, TaskLive
    <3>2. CASE EnsureFail(r)
      <4>1. SpawnedOnce'
        BY <3>2 DEF EnsureFail, HoldInv, SpawnedOnce
      <4>2. tpc[r] = "none" /\ Live(r)
        BY <3>2 DEF EnsureFail, HoldInv, SpawnedOnce, Live, HandlerLive
      <4>3. \A q \in Runs : Live(q)' => Live(q) /\ q # r
        BY <3>2, <4>2 DEF EnsureFail, Live, HandlerLive, TaskLive, Suspended, Running
      <4>4. HoldUntilDone'
        BY <3>2, <4>3, ClearKeepsHold DEF EnsureFail
      <4>5. gate = r \/ evicted # {}
        BY <4>2 DEF HoldInv, HoldUntilDone
      <4> QED
        BY <3>2, <4>1, <4>4, <4>5 DEF EnsureFail, ClearFlag, HoldInv
    <3>3. CASE ResetCancel(r)
      BY <3>3 DEF ResetCancel, HoldInv, SpawnedOnce, HoldUntilDone,
                  Live, HandlerLive, TaskLive
    <3>4. CASE Spawn(r)
      BY <3>4 DEF Spawn, TaskTo, HoldInv, SpawnedOnce, HoldUntilDone,
                  Live, HandlerLive, TaskLive, Suspended, Running
    <3>5. CASE StoreHandle(r)
      BY <3>5 DEF StoreHandle, HoldInv, SpawnedOnce, HoldUntilDone,
                  Live, HandlerLive, TaskLive
    <3> QED
      BY <2>2, <3>1, <3>2, <3>3, <3>4, <3>5 DEF HandlerStep
  <2>3. ASSUME NEW s \in Stops, StopRequest(s) \/ StopStep(s) PROVE HoldInv'
    <3>1. UNCHANGED <<hpc, tpc>>
      BY <2>3 DEF StopRequest, StopRefused, StopSeen, StopStep, StopCancel,
                  StopAbort, StopCleanup, StopForget, StopRelease
    <3>2. SpawnedOnce' /\ \A q \in Runs : Live(q)' => Live(q)
      BY <3>1 DEF HoldInv, SpawnedOnce, Live, HandlerLive, TaskLive
    <3>3. CASE StopRelease(s)
      <4>1. spc' [s] = "stopped"
        BY <3>3 DEF StopRelease, StopTo, TypeOK
      <4>2. HoldUntilDone'
        BY <3>2, <3>3, ClearKeepsHold, RunsAssumption DEF StopRelease
      <4> QED
        BY <3>2, <4>1, <4>2 DEF HoldInv
    <3>4. CASE StopRequest(s) \/ (StopStep(s) /\ ~StopRelease(s))
      <4>1. UNCHANGED <<is_running, gate, evicted>>
        BY <3>4 DEF StopRequest, StopRefused, StopSeen, StopStep, StopCancel,
                    StopAbort, StopCleanup, StopForget, state, ghosts
      <4>2. \A t \in Stops : spc[t] = "stopped" => spc'[t] = "stopped"
        BY <3>4 DEF StopRequest, StopRefused, StopSeen, StopStep, StopCancel,
                    StopAbort, StopCleanup, StopForget, StopTo, TypeOK
      <4> QED
        BY <3>2, <4>1, <4>2 DEF HoldInv, HoldUntilDone
    <3> QED
      BY <2>3, <3>3, <3>4
  <2>4. ASSUME NEW r \in Runs, TaskStep(r) PROVE HoldInv'
    <3> USE DEF TaskTo, TaskOnly, state, ghosts
    <3>1. CASE Release(r)
      <4>1. TaskLive(r) /\ Live(r) /\ tpc' = [tpc EXCEPT ![r] = "done"] /\ hpc' = hpc
        BY <3>1 DEF Release, Live, TaskLive, Running
      <4>2. SpawnedOnce'
        BY <4>1 DEF HoldInv, SpawnedOnce, TypeOK, TaskLive, Running, Suspended
      <4>3. hpc[r] \in {"store", "started"}
        BY <4>1 DEF HoldInv, SpawnedOnce, TaskLive, Running, Suspended
      <4>4. \A q \in Runs : Live(q)' => Live(q) /\ q # r
        BY <4>1, <4>3 DEF TypeOK, Live, HandlerLive, TaskLive, Running, Suspended
      <4>5. HoldUntilDone'
        BY <3>1, <4>4, ClearKeepsHold DEF Release
      <4>6. gate = r \/ evicted # {}
        BY <4>1 DEF HoldInv, HoldUntilDone
      <4> QED
        BY <3>1, <4>2, <4>5, <4>6 DEF Release, ClearFlag, HoldInv
    <3>2. CASE TaskStep(r) /\ ~Release(r)
      <4>1. TaskLive(r) /\ UNCHANGED <<hpc, spc, is_running, gate, evicted>>
        BY <3>2 DEF TaskStep, Aborted, Resume, TrialTop, Publish, Prepare, Launch,
                    CheckAfterAgent, CheckBeforeArchive, Archive, Record,
                    ForgetHandle, TaskLive, Running
      <4>2. PICK p \in TaskPcs \ {"none"} : tpc' = [tpc EXCEPT ![r] = p]
        BY <3>2 DEF TaskStep, Aborted, Resume, TrialTop, Publish, Prepare, Launch,
                    CheckAfterAgent, CheckBeforeArchive, Archive, Record,
                    ForgetHandle, AfterAwait, TaskPcs, Running, Suspended
      <4> QED
        BY <4>1, <4>2, TaskMove
    <3> QED
      BY <2>4, <3>1, <3>2
  <2>5. CASE UNCHANGED vars
    BY <2>5 DEF vars, state, ghosts, HoldInv, SpawnedOnce, HoldUntilDone, Live,
                HandlerLive, TaskLive
  <2> QED
    BY <2>1, <2>2, <2>3, <2>4, <2>5 DEF Next
<1> QED
  BY <1>1, <1>2, TypeInvariant, PTL DEF Spec

\* From its compare-exchange to its last store a run holds is_running, unless
\* somebody else cleared the flag under it.
THEOREM HoldTheorem == Spec => []HoldUntilDone
<1>1. HoldInv => HoldUntilDone
  BY DEF HoldInv
<1> QED
  BY <1>1, HoldInvariant, PTL

\* Starts alone never overlap: two runs act at once only after a stop request
\* has cleared the flag under one of them.
THEOREM OverlapTheorem == Spec => []OverlapNeedsStop
<1>1. HoldInv => OverlapNeedsStop
  BY DEF HoldInv, HoldUntilDone, OverlapNeedsStop
<1> QED
  BY <1>1, HoldInvariant, PTL

\* Where nobody stops a run, at most one acts at any time.
THEOREM MutualExclusion ==
    ASSUME Stops = {}
    PROVE  Spec => [](\A r, q \in Runs : Live(r) /\ Live(q) => r = q)
<1>1. HoldInv => \A r, q \in Runs : Live(r) /\ Live(q) => r = q
  BY DEF HoldInv, HoldUntilDone
<1> QED
  BY <1>1, HoldInvariant, PTL

-----------------------------------------------------------------------------
(* Cancellation *)

\* where a task goes on after it has been suspended
LEMMA Awaited ==
    ASSUME NEW p \in Suspended
    PROVE  AfterAwait[p] # "bill" /\ (AfterAwait[p] = "archive" => p = "bill")
<1>1. AfterAwait["spawned"] = "top" /\ AfterAwait["local"] = "prepare" /\ AfterAwait["query"] = "launch"
  BY DEF AfterAwait
<1>2. AfterAwait["agent"] = "check2" /\ AfterAwait["verify"] = "check3" /\ AfterAwait["bill"] = "archive"
  BY DEF AfterAwait
<1> QED
  BY <1>1, <1>2 DEF Suspended

\* A run told to stop before the last cancel check saves nothing more.
THEOREM CancelTheorem == Spec => []StopBeatsArchive
<1>1. Init => CancelInv
  BY DEF Init, CancelInv, StopBeatsArchive
<1>2. TypeInv /\ CancelInv /\ [Next]_vars => CancelInv'
  <2> SUFFICES ASSUME TypeOK, CancelInv, [Next]_vars PROVE CancelInv'
    BY DEF TypeInv
  <2> USE DEF CancelInv, StopBeatsArchive
  <2>1. ASSUME NEW r \in Runs, Request(r) \/ ClientLeaves(r) \/ HandlerStep(r)
        PROVE  CancelInv'
    BY <2>1 DEF Request, StartAccept, StartConflict, ClientLeaves, HandlerStep,
                EnsureOk, EnsureFail, ResetCancel, Spawn, StoreHandle, TaskTo,
                TypeOK, state, ghosts
  <2>2. ASSUME NEW s \in Stops, StopRequest(s) \/ StopStep(s) PROVE CancelInv'
    <3>1. CASE StopCancel(s)
      BY <3>1 DEF StopCancel, BeforeLastCheck
    <3>2. CASE ~StopCancel(s)
      BY <2>2, <3>2 DEF StopRequest, StopRefused, StopSeen, StopStep, StopAbort,
                        StopCleanup, StopForget, StopRelease, state, ghosts
    <3> QED
      BY <3>1, <3>2
  <2>3. ASSUME NEW r \in Runs, TaskStep(r) PROVE CancelInv'
    <3>1. UNCHANGED <<cancel_requested, mustStop>>
      BY <2>3 DEF TaskStep, Aborted, Resume, TrialTop, Publish, Prepare, Launch,
                  CheckAfterAgent, CheckBeforeArchive, Archive, Record,
                  ForgetHandle, Release, TaskOnly, state, ghosts
    <3>2. PICK p : tpc' = [tpc EXCEPT ![r] = p]
      BY <2>3 DEF TaskStep, Aborted, Resume, TrialTop, Publish, Prepare, Launch,
                  CheckAfterAgent, CheckBeforeArchive, Archive, Record,
                  ForgetHandle, Release, TaskOnly, TaskTo
    <3>3. r \in mustStop => tpc'[r] \notin {"bill", "archive"}
      <4> SUFFICES ASSUME r \in mustStop, cancel_requested,
                          tpc[r] \notin {"bill", "archive"}
                   PROVE  tpc'[r] \notin {"bill", "archive"}
        OBVIOUS
      <4>1. CASE Resume(r)
        <5>1. tpc[r] \in Suspended /\ tpc'[r] = AfterAwait[tpc[r]]
          BY <4>1 DEF Resume, TaskOnly, TaskTo, TypeOK
        <5> QED
          BY <5>1, Awaited
      <4>2. CASE ~Resume(r)
        BY <2>3, <4>2 DEF TaskStep, Aborted, TrialTop, Publish, Prepare, Launch,
                    CheckAfterAgent, CheckBeforeArchive, Archive, Record,
                    ForgetHandle, Release, TaskOnly, TaskTo, TypeOK
      <4> QED
        BY <4>1, <4>2
    <3> QED
      BY <3>1, <3>2, <3>3 DEF TypeOK
  <2>4. CASE UNCHANGED vars
    BY <2>4 DEF vars, state, ghosts
  <2> QED
    BY <2>1, <2>2, <2>3, <2>4 DEF Next
<1>3. CancelInv => StopBeatsArchive
  BY DEF CancelInv
<1> QED
  BY <1>1, <1>2, <1>3, TypeInvariant, PTL DEF Spec

-----------------------------------------------------------------------------
(* The slots *)

\* where a task is while it may be the one that current_run describes
InSlot == (Suspended \cup Running) \ {"forget", "release"}
Past   == {"forget", "release", "done"}

\* no flag was cleared by somebody else, and no stop has got further than its check
QuietNow == evicted = {} /\ \A s \in Stops : spc[s] \in {"idle", "refused"}

Slots ==
    /\ aborted = {}
    /\ current_run # NoRun => tpc[current_run] \in InSlot
    /\ last_run # NoRun => tpc[last_run] \in Past

SlotInv == QuietNow => Slots

LEMMA QuietBefore ==
    ASSUME TypeOK, [Next]_vars, QuietNow'
    PROVE  QuietNow
<1> USE DEF QuietNow, TypeOK, state, ghosts
<1>1. ASSUME NEW r \in Runs, Request(r) \/ ClientLeaves(r) \/ HandlerStep(r) PROVE QuietNow
  BY <1>1 DEF Request, StartAccept, StartConflict, ClientLeaves, HandlerStep,
              EnsureOk, EnsureFail, ResetCancel, Spawn, StoreHandle, ClearFlag
<1>2. ASSUME NEW s \in Stops, StopRequest(s) \/ StopStep(s) PROVE QuietNow
  BY <1>2 DEF StopRequest, StopRefused, StopSeen, StopStep, StopCancel, StopAbort,
              StopCleanup, StopForget, StopRelease, StopTo, ClearFlag
<1>3. ASSUME NEW r \in Runs, TaskStep(r) PROVE QuietNow
  BY <1>3 DEF TaskStep, Aborted, Resume, TrialTop, Publish, Prepare, Launch,
              CheckAfterAgent, CheckBeforeArchive, Archive, Record,
              ForgetHandle, Release, TaskOnly, ClearFlag
<1>4. CASE UNCHANGED vars
  BY <1>4 DEF vars
<1> QED
  BY <1>1, <1>2, <1>3, <1>4 DEF Next

\* a task that lives is the only one, as nobody was evicted
LEMMA OnlyOne ==
    ASSUME HoldInv, QuietNow, NEW r \in Runs, NEW q \in Runs, Live(r)
    PROVE  /\ is_running /\ gate = r
           /\ Live(q) => q = r
  BY DEF HoldInv, HoldUntilDone, QuietNow

LEMMA SlotStep == TypeInv /\ HoldInv /\ SlotInv /\ [Next]_vars => SlotInv'
<1> SUFFICES ASSUME TypeOK, HoldInv, QuietNow, Slots, [Next]_vars PROVE Slots'
  BY QuietBefore DEF SlotInv, TypeInv
<1> USE RunsAssumption DEF TypeOK, RunOrNone, state, ghosts
<1>1. ASSUME NEW r \in Runs, Request(r) \/ ClientLeaves(r) \/ HandlerStep(r) PROVE Slots'
  <2>1. CASE Spawn(r)
    <3>1. tpc[r] = "none"
      BY <2>1 DEF Spawn, HoldInv, SpawnedOnce
    <3> QED
      BY <2>1, <3>1 DEF Spawn, TaskTo, Slots, InSlot, Past, Suspended, Running
  <2>2. CASE ~Spawn(r)
    BY <1>1, <2>2 DEF Request, StartAccept, StartConflict, ClientLeaves, HandlerStep,
              EnsureOk, EnsureFail, ResetCancel, StoreHandle, Slots
  <2> QED
    BY <2>1, <2>2
<1>2. ASSUME NEW s \in Stops, StopRequest(s) \/ StopStep(s) PROVE Slots'
  BY <1>2 DEF StopRequest, StopRefused, StopSeen, StopStep, StopCancel, StopAbort,
              StopCleanup, StopForget, StopRelease, QuietNow, Slots
<1>3. ASSUME NEW r \in Runs, TaskStep(r) PROVE Slots'
  <2>1. TaskLive(r) /\ UNCHANGED aborted
    BY <1>3 DEF TaskStep, Aborted, Resume, TrialTop, Publish, Prepare, Launch,
                CheckAfterAgent, CheckBeforeArchive, Archive, Record,
                ForgetHandle, Release, TaskOnly, TaskLive, Running
  <2>2. current_run \in {NoRun, r}
    <3>1. current_run # NoRun => current_run \in Runs /\ TaskLive(current_run)
      BY DEF Slots, InSlot, TaskLive
    <3> QED
      BY <2>1, <3>1, OnlyOne DEF Live
  <2>3. CASE Record(r)
    BY <2>1, <2>2, <2>3 DEF Record, TaskTo, Slots, Past, InSlot
  <2>4. CASE ForgetHandle(r) \/ Release(r)
    <3>1. current_run = NoRun
      BY <2>2, <2>4 DEF ForgetHandle, Release, Slots, InSlot
    <3>2. UNCHANGED <<current_run, last_run>> /\ tpc' \in {[tpc EXCEPT ![r] = p] : p \in Past}
      BY <2>4 DEF ForgetHandle, Release, TaskTo, Past
    <3> QED
      BY <2>1, <3>1, <3>2 DEF Slots
  <2>5. CASE ~(Record(r) \/ ForgetHandle(r) \/ Release(r))
    <3>1. PICK p \in InSlot : tpc' = [tpc EXCEPT ![r] = p]
      BY <1>3, <2>5 DEF TaskStep, Aborted, Resume, TrialTop, Publish, Prepare, Launch,
                  CheckAfterAgent, CheckBeforeArchive, Archive, TaskOnly, TaskTo,
                  AfterAwait, InSlot, Suspended, Running, Slots
    <3>2. current_run' \in {current_run, r} /\ last_run' = last_run /\ tpc[r] \notin Past
      BY <1>3, <2>5 DEF TaskStep, Aborted, Resume, TrialTop, Publish, Prepare, Launch,
                  CheckAfterAgent, CheckBeforeArchive, Archive, TaskOnly, Suspended, Past
    <3> QED
      BY <2>1, <2>2, <3>1, <3>2 DEF Slots
  <2> QED
    BY <2>3, <2>4, <2>5
<1>4. CASE UNCHANGED vars
  BY <1>4 DEF vars, Slots
<1> QED
  BY <1>1, <1>2, <1>3, <1>4 DEF Next

LEMMA SlotInvariant == Spec => []SlotInv
<1>1. Init => SlotInv
  BY DEF Init, SlotInv, Slots
<1> QED
  BY <1>1, SlotStep, TypeInvariant, HoldInvariant, PTL DEF Spec

\* As long as no stop has passed its check: with the flag down no run is in
\* progress or described as one, with it up the slot describes its holder, and
\* the last run is one that has left the slot.
THEOREM SlotTheorem == Spec => []SlotsFollowFlag
<1>1. TypeInv /\ HoldInv /\ SlotInv => SlotsFollowFlag
  <2> SUFFICES ASSUME TypeOK, HoldInv, QuietNow, Slots
               PROVE  /\ ~is_running => current_run = NoRun /\ \A r \in Runs : ~TaskLive(r)
                      /\ current_run # NoRun => gate = current_run
                      /\ last_run # NoRun => tpc[last_run] \in Past
    BY DEF SlotInv, SlotsFollowFlag, QuietNow, TypeInv, Past
  <2>1. current_run # NoRun => current_run \in Runs /\ TaskLive(current_run)
    BY DEF Slots, InSlot, TaskLive, TypeOK, RunOrNone
  <2> QED
    BY <2>1, OnlyOne DEF Live, Slots
<1> QED
  BY <1>1, SlotInvariant, TypeInvariant, HoldInvariant, PTL

-----------------------------------------------------------------------------
(* Where nobody stops a run *)

Unstopped == Stops = {}

\* where the run at hand has been published
Shown == (InTrial \ {"publish"}) \cup {"record"}

SessionInv ==
    /\ cancel_requested = FALSE /\ aborted = {}
    /\ is_running <=> gate # NoRun
    /\ \A r \in Runs :
        /\ tpc[r] \in {"none", "spawned"} => trial[r] = 1
        /\ tpc[r] \in Shown => current_run = r
        /\ tpc[r] = "top" /\ trial[r] # 1 => current_run = r

LEMMA NobodyEvicted ==
    ASSUME Unstopped, HoldInv
    PROVE  QuietNow
  BY DEF Unstopped, HoldInv, QuietNow

\* A step of the handler of r, before there is a task.
LEMMA HandlerKeepsSession ==
    ASSUME Unstopped, TypeOK, HoldInv, SessionInv, NEW r \in Runs,
           Request(r) \/ ClientLeaves(r) \/ HandlerStep(r)
    PROVE  SessionInv'
<1> USE RunsAssumption DEF SessionInv, TypeOK, state, ghosts
<1>1. CASE Request(r) \/ ClientLeaves(r)
  BY <1>1 DEF Request, StartAccept, StartConflict, ClientLeaves
<1>2. CASE Spawn(r)
  <2>1. tpc[r] = "none"
    BY <1>2 DEF Spawn, HoldInv, SpawnedOnce
  <2> QED
    BY <1>2, <2>1 DEF Spawn, TaskTo, Shown, InTrial
<1>3. CASE HandlerStep(r) /\ ~Spawn(r)
  BY <1>3 DEF HandlerStep, EnsureOk, EnsureFail, ResetCancel, StoreHandle, ClearFlag
<1> QED
  BY <1>1, <1>2, <1>3

LEMMA TaskKeepsSession ==
    ASSUME Unstopped, TypeInv, HoldInv, SessionInv, NEW r \in Runs, TaskStep(r)
    PROVE  SessionInv'
<1> USE DEF TypeOK, TypeInv, state, ghosts
<1>1. TaskLive(r)
  BY DEF TaskStep, Aborted, Resume, TrialTop, Publish, Prepare, Launch,
         CheckAfterAgent, CheckBeforeArchive, Archive, Record,
         ForgetHandle, Release, TaskOnly, TaskLive, Running
<1>2. \A q \in Runs : TaskLive(q) => q = r
  BY <1>1, NobodyEvicted, OnlyOne DEF Live
<1>3. \A q \in Runs : q # r => tpc[q] \notin Shown \cup {"top"}
  BY <1>2 DEF Shown, InTrial, TaskLive, Running, Suspended
<1>4. \A q \in Runs : q # r => tpc'[q] = tpc[q] /\ trial'[q] = trial[q]
  BY DEF TaskStep, Aborted, Resume, TrialTop, Publish, Prepare, Launch,
         CheckAfterAgent, CheckBeforeArchive, Archive, Record,
         ForgetHandle, Release, TaskOnly, TaskTo
<1>5. UNCHANGED <<cancel_requested, aborted>> /\ (is_running <=> gate # NoRun)'
  BY DEF TaskStep, Aborted, Resume, TrialTop, Publish, Prepare, Launch,
         CheckAfterAgent, CheckBeforeArchive, Archive, Record,
         ForgetHandle, Release, TaskOnly, ClearFlag, SessionInv
<1>6. /\ tpc'[r] \notin {"none", "spawned"}
      /\ tpc'[r] \in Shown => current_run' = r
      /\ tpc'[r] = "top" /\ trial'[r] # 1 => current_run' = r
  <2>1. CASE Aborted(r) \/ Resume(r)
    BY <2>1 DEF Aborted, Resume, TaskOnly, TaskTo, AfterAwait, Suspended, Shown, InTrial, SessionInv
  <2>2. CASE TrialTop(r)
    BY <2>2, TrialsAssumption DEF TrialTop, TaskOnly, TaskTo, Shown, InTrial, SessionInv
  <2>3. CASE Publish(r)
    BY <2>3 DEF Publish, TaskTo, Shown, InTrial
  <2>4. CASE Prepare(r) \/ Launch(r) \/ CheckAfterAgent(r) \/ CheckBeforeArchive(r)
    BY <2>4 DEF Prepare, Launch, CheckAfterAgent, CheckBeforeArchive, TaskOnly, TaskTo,
                Shown, InTrial, SessionInv
  <2>5. CASE Archive(r)
    BY <2>5 DEF Archive, TaskTo, Shown, InTrial, SessionInv
  <2>6. CASE Record(r) \/ ForgetHandle(r) \/ Release(r)
    BY <2>6 DEF Record, ForgetHandle, Release, TaskTo, Shown, InTrial
  <2> QED
    BY <2>1, <2>2, <2>3, <2>4, <2>5, <2>6 DEF TaskStep
<1> QED
  BY <1>3, <1>4, <1>5, <1>6 DEF SessionInv

LEMMA SessionInvariant == ASSUME Unstopped PROVE Spec => []SessionInv
<1>1. Init => SessionInv
  BY DEF Init, SessionInv, Shown, InTrial
<1>2. TypeInv /\ HoldInv /\ SessionInv /\ [Next]_vars => SessionInv'
  <2> SUFFICES ASSUME TypeInv, HoldInv, SessionInv, [Next]_vars PROVE SessionInv'
    OBVIOUS
  <2>1. ASSUME NEW r \in Runs, Request(r) \/ ClientLeaves(r) \/ HandlerStep(r) PROVE SessionInv'
    BY <2>1, HandlerKeepsSession DEF TypeInv
  <2>2. ASSUME NEW r \in Runs, TaskStep(r) PROVE SessionInv'
    BY <2>2, TaskKeepsSession
  <2>3. CASE UNCHANGED vars
    BY <2>3 DEF vars, state, ghosts, SessionInv
  <2> QED
    BY <2>1, <2>2, <2>3 DEF Next, Unstopped
<1> QED
  BY <1>1, <1>2, TypeInvariant, HoldInvariant, PTL DEF Spec

-----------------------------------------------------------------------------
(* The abstract session: besides, no client leaves *)

Alone == Unstopped /\ ClientsLeave = FALSE

\* What has become of a request, by the places of its handler and its task.
StatusOf(h, t) ==
    IF h = "idle" THEN "new"
    ELSE IF h = "conflict" THEN "refused"
    ELSE IF h = "failed" THEN "failed"
    ELSE IF t \in {"forget", "release"} THEN "recorded"
    ELSE IF t = "done" THEN "closed"
    ELSE "open"

LEMMA StatusIs ==
    ASSUME NEW h, NEW t, h \in {"idle", "conflict", "failed"} => t = "none"
    PROVE  /\ h = "idle" => StatusOf(h, t) = "new"
           /\ h = "conflict" => StatusOf(h, t) = "refused"
           /\ h = "failed" => StatusOf(h, t) = "failed"
           /\ h \notin {"idle", "conflict", "failed"} =>
                /\ t \in {"forget", "release"} => StatusOf(h, t) = "recorded"
                /\ t = "done" => StatusOf(h, t) = "closed"
                /\ t \notin Past => StatusOf(h, t) = "open"
<1>1. h = "idle" => StatusOf(h, t) = "new"
  BY DEF StatusOf
<1>2. h = "conflict" => StatusOf(h, t) = "refused"
  BY DEF StatusOf
<1>3. h = "failed" => StatusOf(h, t) = "failed"
  BY DEF StatusOf
<1>4. h \notin {"idle", "conflict", "failed"} =>
         /\ t \in {"forget", "release"} => StatusOf(h, t) = "recorded"
         /\ t = "done" => StatusOf(h, t) = "closed"
         /\ t \notin Past => StatusOf(h, t) = "open"
  BY DEF StatusOf, Past
<1> QED
  BY <1>1, <1>2, <1>3, <1>4

\* the variables of the abstract session
SessionHeld == IF is_running THEN gate ELSE NoRun
Status      == [r \in Runs |-> StatusOf(hpc[r], tpc[r])]

\* A step that moves r from one status to another, or from one to the same.
LEMMA OneMoves ==
    ASSUME NEW r \in Runs, \A q \in Runs : q # r => hpc'[q] = hpc[q] /\ tpc'[q] = tpc[q]
    PROVE  /\ Status' = [Status EXCEPT ![r] = StatusOf(hpc'[r], tpc'[r])]
           /\ Status[r] = StatusOf(hpc[r], tpc[r])
           /\ StatusOf(hpc'[r], tpc'[r]) = StatusOf(hpc[r], tpc[r]) => Status' = Status
  BY DEF Status

\* What a handler and a task do to the session.
AdmitStep(r) ==
    /\ SessionHeld = NoRun /\ SessionHeld' = r /\ last_run' = last_run
    /\ Status[r] = "new" /\ Status' = [Status EXCEPT ![r] = "open"]
RefuseStep(r) ==
    /\ SessionHeld # NoRun /\ SessionHeld' = SessionHeld /\ last_run' = last_run
    /\ Status[r] = "new" /\ Status' = [Status EXCEPT ![r] = "refused"]
FailStep(r) ==
    /\ SessionHeld = r /\ SessionHeld' = NoRun /\ last_run' = last_run
    /\ Status[r] = "open" /\ Status' = [Status EXCEPT ![r] = "failed"]
RecordStep(r) ==
    /\ SessionHeld = r /\ SessionHeld' = SessionHeld /\ last_run' = r
    /\ Status[r] = "open" /\ Status' = [Status EXCEPT ![r] = "recorded"]
CloseStep(r) ==
    /\ SessionHeld = r /\ SessionHeld' = NoRun /\ last_run' = last_run
    /\ Status[r] = "recorded" /\ Status' = [Status EXCEPT ![r] = "closed"]
Stutter == UNCHANGED <<SessionHeld, last_run, Status>>

LEMMA HandlerMaps ==
    ASSUME Alone, TypeOK, HoldInv, HoldInv', SessionInv, NEW r \in Runs, Request(r) \/ HandlerStep(r)
    PROVE  AdmitStep(r) \/ RefuseStep(r) \/ FailStep(r) \/ Stutter
<1> USE RunsAssumption DEF TypeOK, state, ghosts, Alone
<1>1. \A q \in Runs : q # r => hpc'[q] = hpc[q] /\ tpc'[q] = tpc[q]
  BY DEF Request, StartAccept, StartConflict, HandlerStep, EnsureOk, EnsureFail,
         ResetCancel, Spawn, StoreHandle, HandlerTo, TaskTo
<1>2. /\ tpc[r] # "none" <=> hpc[r] \in {"store", "started"}
      /\ tpc'[r] # "none" <=> hpc'[r] \in {"store", "started"}
  BY DEF HoldInv, SpawnedOnce
<1>3. CASE StartAccept(r)
  <2>1. hpc[r] = "idle" /\ tpc'[r] = tpc[r] /\ hpc'[r] \in {"ensure", "reset"}
    BY <1>3 DEF StartAccept, HandlerTo
  <2>2. StatusOf(hpc[r], tpc[r]) = "new" /\ StatusOf(hpc'[r], tpc'[r]) = "open"
    BY <1>2, <2>1, StatusIs DEF Past
  <2>3. SessionHeld = NoRun /\ SessionHeld' = r /\ last_run' = last_run
    BY <1>3 DEF StartAccept, SessionHeld
  <2> QED
    BY <1>1, <2>2, <2>3, OneMoves DEF AdmitStep
<1>4. CASE StartConflict(r)
  <2>1. hpc[r] = "idle" /\ tpc'[r] = tpc[r] /\ hpc'[r] = "conflict"
    BY <1>4 DEF StartConflict, HandlerTo
  <2>2. StatusOf(hpc[r], tpc[r]) = "new" /\ StatusOf(hpc'[r], tpc'[r]) = "refused"
    BY <1>2, <2>1, StatusIs
  <2>3. SessionHeld # NoRun /\ SessionHeld' = SessionHeld /\ last_run' = last_run
    BY <1>4 DEF StartConflict, SessionHeld, SessionInv
  <2> QED
    BY <1>1, <2>2, <2>3, OneMoves DEF RefuseStep
<1>5. CASE EnsureFail(r)
  <2>1. hpc[r] = "ensure" /\ tpc'[r] = tpc[r] /\ hpc'[r] = "failed"
    BY <1>5 DEF EnsureFail, HandlerTo
  <2>2. StatusOf(hpc[r], tpc[r]) = "open" /\ StatusOf(hpc'[r], tpc'[r]) = "failed"
    BY <1>2, <2>1, StatusIs DEF Past
  <2>3. SessionHeld = r
    BY <2>1, NobodyEvicted, OnlyOne DEF SessionHeld, Live, HandlerLive
  <2>4. SessionHeld' = NoRun /\ last_run' = last_run
    BY <1>5 DEF EnsureFail, ClearFlag, SessionHeld
  <2> QED
    BY <1>1, <2>2, <2>3, <2>4, OneMoves DEF FailStep
<1>6. CASE EnsureOk(r) \/ ResetCancel(r) \/ Spawn(r) \/ StoreHandle(r)
  <2>1. /\ hpc[r] \notin {"idle", "conflict", "failed"} /\ hpc'[r] \notin {"idle", "conflict", "failed"}
        /\ tpc'[r] = tpc[r] \/ (tpc[r] \notin Past /\ tpc'[r] \notin Past)
        /\ UNCHANGED <<is_running, gate, last_run>>
    BY <1>2, <1>6 DEF EnsureOk, ResetCancel, Spawn, StoreHandle, HandlerTo, TaskTo, Past
  <2>2. StatusOf(hpc'[r], tpc'[r]) = StatusOf(hpc[r], tpc[r])
    BY <2>1, StatusIs DEF Past
  <2> QED
    BY <1>1, <2>1, <2>2, OneMoves DEF Stutter, SessionHeld
<1> QED
  BY <1>3, <1>4, <1>5, <1>6 DEF Request, HandlerStep

LEMMA TaskMaps ==
    ASSUME Alone, TypeOK, HoldInv, HoldInv', SessionInv, NEW r \in Runs, TaskStep(r)
    PROVE  RecordStep(r) \/ CloseStep(r) \/ Stutter
<1> USE RunsAssumption DEF TypeOK, state, ghosts, Alone
<1>1. /\ TaskLive(r) /\ hpc' = hpc
      /\ \A q \in Runs : q # r => tpc'[q] = tpc[q]
  BY DEF TaskStep, Aborted, Resume, TrialTop, Publish, Prepare, Launch,
         CheckAfterAgent, CheckBeforeArchive, Archive, Record, ForgetHandle, Release,
         TaskOnly, TaskTo, TaskLive, Running
<1>2. hpc[r] \in {"store", "started"}
  BY <1>1 DEF HoldInv, SpawnedOnce, TaskLive, Running, Suspended
<1>3. SessionHeld = r
  BY <1>1, NobodyEvicted, OnlyOne DEF SessionHeld, Live
<1>4. CASE Record(r)
  <2>1. tpc[r] = "record" /\ tpc'[r] = "forget" /\ UNCHANGED <<is_running, gate>>
    BY <1>4 DEF Record, TaskTo
  <2>2. last_run' = r
    BY <1>4, <2>1 DEF Record, SessionInv, Shown
  <2>3. StatusOf(hpc[r], tpc[r]) = "open" /\ StatusOf(hpc'[r], tpc'[r]) = "recorded"
    BY <1>1, <1>2, <2>1, StatusIs DEF Past
  <2> QED
    BY <1>1, <1>3, <2>1, <2>2, <2>3, OneMoves DEF RecordStep, SessionHeld
<1>5. CASE Release(r)
  <2>1. tpc[r] = "release" /\ tpc'[r] = "done" /\ is_running' = FALSE /\ last_run' = last_run
    BY <1>5 DEF Release, TaskTo, ClearFlag
  <2>2. StatusOf(hpc[r], tpc[r]) = "recorded" /\ StatusOf(hpc'[r], tpc'[r]) = "closed"
    BY <1>1, <1>2, <2>1, StatusIs
  <2> QED
    BY <1>1, <1>3, <2>1, <2>2, OneMoves DEF CloseStep, SessionHeld
<1>6. CASE ~(Record(r) \/ Release(r))
  <2>1. UNCHANGED <<is_running, gate, last_run>>
    BY <1>6 DEF TaskStep, Aborted, Resume, TrialTop, Publish, Prepare, Launch,
         CheckAfterAgent, CheckBeforeArchive, Archive, ForgetHandle, TaskOnly
  <2>2. \/ tpc[r] = "forget" /\ tpc'[r] = "release"
        \/ tpc[r] \notin Past /\ tpc'[r] \notin Past
    BY <1>6 DEF TaskStep, Aborted, Resume, TrialTop, Publish, Prepare, Launch,
         CheckAfterAgent, CheckBeforeArchive, Archive, ForgetHandle, TaskOnly, TaskTo,
         AfterAwait, Suspended, Past, SessionInv
  <2>3. StatusOf(hpc'[r], tpc'[r]) = StatusOf(hpc[r], tpc[r])
    BY <1>1, <1>2, <2>2, StatusIs DEF Past
  <2> QED
    BY <1>1, <2>1, <2>3, OneMoves DEF Stutter, SessionHeld
<1> QED
  BY <1>4, <1>5, <1>6

\* Without stops and leaving clients, what the harness does is what the abstract
\* session allows: one session at a time, recorded before it is closed.
THEOREM SessionTheorem ==
    ASSUME Alone
    PROVE  Spec => Session!Init /\ [][Session!Next]_(Session!vars)
<1> USE RunsAssumption
<1>1. Init => Session!Init
  <2> SUFFICES ASSUME Init PROVE Session!Init
    OBVIOUS
  <2>1. \A r \in Runs : SessionStatus(r) = "new"
    BY DEF Init, SessionStatus
  <2> QED
    BY <2>1 DEF Init, Session!Init
<1>2. TypeInv /\ HoldInv /\ HoldInv' /\ SessionInv /\ [Next]_vars => [Session!Next]_(Session!vars)
  <2> SUFFICES ASSUME TypeInv, HoldInv, HoldInv', SessionInv, [Next]_vars
               PROVE  [Session!Next]_(Session!vars)
    OBVIOUS
  <2>1. \/ \E r \in Runs : \/ AdmitStep(r) \/ RefuseStep(r) \/ FailStep(r)
                          \/ RecordStep(r) \/ CloseStep(r)
        \/ Stutter
    <3>1. CASE UNCHANGED vars
      BY <3>1 DEF vars, state, ghosts, Stutter, SessionHeld, Status
    <3>2. CASE Next
      BY <3>2, HandlerMaps, TaskMaps DEF Next, Alone, Unstopped, TypeInv, ClientLeaves
    <3> QED
      BY <3>1, <3>2
  <2>2. /\ Status = [r \in Runs |-> SessionStatus(r)]
        /\ Status' = [r \in Runs |-> SessionStatus(r)]'
    BY DEF Status, StatusOf, SessionStatus
  <2>3. CASE Stutter
    BY <2>2, <2>3 DEF Stutter, SessionHeld, Session!vars
  <2>4. ASSUME NEW r \in Runs, \/ AdmitStep(r) \/ RefuseStep(r) \/ FailStep(r)
                               \/ RecordStep(r) \/ CloseStep(r)
        PROVE  Session!Next
    BY <2>2, <2>4 DEF AdmitStep, RefuseStep, FailStep, RecordStep, CloseStep, SessionHeld,
       Session!Next, Session!Admit, Session!Refuse, Session!Proceed, Session!Fail,
       Session!RecordLast, Session!Close, Session!Becomes
  <2> QED
    BY <2>1, <2>3, <2>4
<1> QED
  BY <1>1, <1>2, TypeInvariant, HoldInvariant, SessionInvariant, PTL DEF Spec, Alone

-----------------------------------------------------------------------------
(* The status API beside the controller, where nobody stops a run *)

\* A run whose task has filled the slot and not yet given the flag back is the
\* last run: no other can be recorded in between.
LastInv == \A r \in Runs : tpc[r] \in {"forget", "release"} => last_run = r

\* Who is no longer in the slot when another run takes it.
LEMMA LastStep ==
    ASSUME Unstopped, TypeInv, HoldInv, SessionInv, LastInv, [Next]_vars
    PROVE  LastInv'
<1> USE RunsAssumption DEF LastInv, TypeOK, TypeInv, RunOrNone, state, ghosts
<1>1. ASSUME NEW r \in Runs, Request(r) \/ ClientLeaves(r) \/ HandlerStep(r) PROVE LastInv'
  BY <1>1 DEF Request, StartAccept, StartConflict, ClientLeaves, HandlerStep,
              EnsureOk, EnsureFail, ResetCancel, Spawn, StoreHandle, TaskTo
<1>2. ASSUME NEW r \in Runs, TaskStep(r) PROVE LastInv'
  <2>1. CASE Record(r)
    <3>1. \A q \in Runs : TaskLive(q) => q = r
      BY <2>1, NobodyEvicted, OnlyOne DEF Record, Live, TaskLive, Running
    <3>2. last_run' = r /\ \A q \in Runs : q # r => tpc'[q] = tpc[q]
      BY <2>1 DEF Record, TaskTo, SessionInv, Shown
    <3> QED
      BY <3>1, <3>2 DEF TaskLive, Running
  <2>2. CASE ~Record(r)
    <3>1. last_run' = last_run /\ \A q \in Runs : q # r => tpc'[q] = tpc[q]
      BY <1>2, <2>2 DEF TaskStep, Aborted, Resume, TrialTop, Publish, Prepare, Launch,
              CheckAfterAgent, CheckBeforeArchive, Archive, ForgetHandle, Release,
              TaskOnly, TaskTo
    <3>2. tpc'[r] \in {"forget", "release"} => tpc[r] = "forget"
      BY <1>2, <2>2 DEF TaskStep, Aborted, Resume, TrialTop, Publish, Prepare, Launch,
              CheckAfterAgent, CheckBeforeArchive, Archive, ForgetHandle, Release,
              TaskOnly, TaskTo, AfterAwait, Suspended
    <3> QED
      BY <3>1, <3>2
  <2> QED
    BY <2>1, <2>2
<1>3. CASE UNCHANGED vars
  BY <1>3 DEF vars
<1> QED
  BY <1>1, <1>2, <1>3 DEF Next, Unstopped

LEMMA LastInvariant == ASSUME Unstopped PROVE Spec => []LastInv
<1>1. Init => LastInv
  BY DEF Init, LastInv
<1> QED
  BY <1>1, LastStep, TypeInvariant, HoldInvariant, SessionInvariant, PTL DEF Spec

\* The task that ends in this step.
Ends(r) == tpc[r] = "release" /\ tpc'[r] = "done"

\* What the three reads of the status handler rely on: a step that ends no task
\* keeps the last run or puts one in its place that is not over, and ..
LEMMA LastMoves ==
    ASSUME Unstopped, TypeInv, HoldInv, SessionInv, Next, \A r \in Runs : ~Ends(r)
    PROVE  /\ \A r \in Runs : tpc'[r] = "done" <=> tpc[r] = "done"
           /\ last_run' # last_run => last_run' \in Runs /\ tpc[last_run'] # "done"
<1> USE RunsAssumption DEF TypeOK, TypeInv, RunOrNone, state, ghosts
<1>1. ASSUME NEW r \in Runs, Request(r) \/ ClientLeaves(r) \/ HandlerStep(r)
      PROVE  last_run' = last_run /\ \A q \in Runs : tpc'[q] = "done" <=> tpc[q] = "done"
  <2>1. CASE Spawn(r)
    BY <2>1 DEF Spawn, TaskTo, HoldInv, SpawnedOnce
  <2>2. CASE ~Spawn(r)
    BY <1>1, <2>2 DEF Request, StartAccept, StartConflict, ClientLeaves, HandlerStep,
              EnsureOk, EnsureFail, ResetCancel, StoreHandle
  <2> QED
    BY <2>1, <2>2
<1>2. ASSUME NEW r \in Runs, TaskStep(r)
      PROVE  /\ \A q \in Runs : tpc'[q] = "done" <=> tpc[q] = "done"
             /\ last_run' # last_run => last_run' \in Runs /\ tpc[last_run'] # "done"
  <2>1. tpc[r] # "done" /\ \A q \in Runs : q # r => tpc'[q] = tpc[q]
    BY <1>2 DEF TaskStep, Aborted, Resume, TrialTop, Publish, Prepare, Launch,
              CheckAfterAgent, CheckBeforeArchive, Archive, Record, ForgetHandle,
              Release, TaskOnly, TaskTo, Suspended
  <2>2. ~Release(r)
    BY DEF Release, TaskTo, Ends
  <2>3. tpc'[r] # "done"
    BY <1>2, <2>2 DEF TaskStep, Aborted, Resume, TrialTop, Publish, Prepare, Launch,
              CheckAfterAgent, CheckBeforeArchive, Archive, Record, ForgetHandle,
              TaskOnly, TaskTo, AfterAwait, Suspended
  <2>4. CASE Record(r)
    BY <2>1, <2>3, <2>4 DEF Record, SessionInv, Shown
  <2>5. CASE ~Record(r)
    <3>1. last_run' = last_run
      BY <1>2, <2>2, <2>5 DEF TaskStep, Aborted, Resume, TrialTop, Publish, Prepare,
              Launch, CheckAfterAgent, CheckBeforeArchive, Archive, ForgetHandle, TaskOnly
    <3> QED
      BY <2>1, <2>3, <3>1
  <2> QED
    BY <2>4, <2>5
<1> QED
  BY <1>1, <1>2 DEF Next, Unstopped

\* .. a step that ends the task of r does nothing else that they see.
LEMMA EndIs ==
    ASSUME Unstopped, TypeInv, Next, NEW r \in Runs, Ends(r)
    PROVE  tpc' = [tpc EXCEPT ![r] = "done"] /\ UNCHANGED last_run
<1> USE DEF TypeOK, TypeInv, Ends, state, ghosts
<1>1. ~(\E q \in Runs : Request(q) \/ ClientLeaves(q) \/ HandlerStep(q))
  BY DEF Request, StartAccept, StartConflict, ClientLeaves, HandlerStep, EnsureOk,
         EnsureFail, ResetCancel, Spawn, StoreHandle, TaskTo
<1>2. PICK q \in Runs : TaskStep(q)
  BY <1>1 DEF Next, Unstopped
<1>3. q = r
  BY <1>2 DEF TaskStep, Aborted, Resume, TrialTop, Publish, Prepare, Launch,
              CheckAfterAgent, CheckBeforeArchive, Archive, Record, ForgetHandle,
              Release, TaskOnly, TaskTo
<1> QED
  BY <1>2, <1>3 DEF TaskStep, Aborted, Resume, TrialTop, Publish, Prepare, Launch,
              CheckAfterAgent, CheckBeforeArchive, Archive, Record, ForgetHandle,
              Release, TaskOnly, TaskTo, Suspended

\* the runs that were over when n epilogues had completed
Over(n) == {closed[i] : i \in 1..n}

\* The runs in closed are over, the last run is none of them but the newest, and
\* what a status handler has read so far is not older than its first read.
StatusInv ==
    /\ closed \in Seq(Runs)
    /\ \A i \in 1..Len(closed) : tpc[closed[i]] = "done"
    /\ Len(closed) > 0 => last_run \in Runs \ Over(Len(closed) - 1)
    /\ seen \in 0..Len(closed)
    /\ answer \in [is_running : BOOLEAN, current_run : RunOrNone, last_run : RunOrNone]
    /\ ppc \in {"last", "answered"} => answer.current_run \notin Over(seen)
    /\ ppc = "answered" /\ seen > 0 => answer.last_run \in Runs \ Over(seen - 1)

\* Appending a run leaves the runs that were over before as they were.
LEMMA OverKept ==
    ASSUME closed \in Seq(Runs), NEW r \in Runs, closed' = Append(closed, r)
    PROVE  /\ Len(closed') = Len(closed) + 1 /\ Len(closed) \in Nat
           /\ \A n \in 0..Len(closed) : {closed'[i] : i \in 1..n} = Over(n)
<1>1. /\ Len(closed') = Len(closed) + 1 /\ Len(closed) \in Nat
      /\ \A i \in 1..Len(closed) : closed'[i] = closed[i]
  OBVIOUS
<1>2. ASSUME NEW n \in 0..Len(closed) PROVE {closed'[i] : i \in 1..n} = Over(n)
  <2>1. \A i \in 1..n : i \in 1..Len(closed)
    BY <1>1
  <2> QED
    BY <1>1, <2>1 DEF Over
<1> QED
  BY <1>1, <1>2

LEMMA ControllerKeepsStatus ==
    ASSUME Unstopped, TypeInv, HoldInv, SessionInv, LastInv, StatusInv, ControllerStep
    PROVE  StatusInv'
<1> USE RunsAssumption DEF StatusInv, TypeOK, TypeInv, RunOrNone
<1>1. ASSUME NEW r \in Runs, Ends(r) PROVE StatusInv'
  <2>1. tpc' = [tpc EXCEPT ![r] = "done"] /\ last_run' = last_run /\ tpc[r] = "release"
    BY <1>1, EndIs DEF ControllerStep, Ends
  <2>2. \A q \in Runs : tpc[q] = "release" /\ tpc'[q] = "done" <=> q = r
    BY <2>1
  <2>3. closed' = Append(closed, r)
    BY <2>2 DEF ControllerStep
  <2>4. \A i \in 1..Len(closed) : closed[i] # r
    BY <2>1
  <2>5. last_run = r
    BY <2>1 DEF LastInv
  <2>6. closed' \in Seq(Runs) /\ \A i \in 1..Len(closed') : tpc'[closed'[i]] = "done"
    BY <2>1, <2>3
  <2>7. last_run' \notin {closed'[i] : i \in 1..Len(closed)}
    BY <2>1, <2>3, <2>4, <2>5
  <2>8. UNCHANGED <<ppc, answer, seen>>
    BY DEF ControllerStep
  <2>9. /\ Len(closed') = Len(closed) + 1 /\ Len(closed) \in Nat
        /\ \A n \in 0..Len(closed) : {closed'[i] : i \in 1..n} = {closed[i] : i \in 1..n}
    BY <2>3, OverKept DEF Over
  <2>10. Len(closed') > 0 => last_run' \in Runs \ Over(Len(closed) - 1)'
    BY <2>1, <2>5, <2>7, <2>9 DEF Over
  <2>11. seen' \in 0..Len(closed')
    BY <2>8, <2>9
  <2>12. ppc' \in {"last", "answered"} => answer'.current_run \notin Over(seen)'
    BY <2>8, <2>9 DEF Over
  <2>13. ppc' = "answered" /\ seen' > 0 => answer'.last_run \in Runs \ Over(seen - 1)'
    <3>1. seen > 0 => seen - 1 \in 0..Len(closed)
      BY <2>9
    <3> QED
      BY <2>8, <2>9, <3>1 DEF Over
  <2> QED
    BY <2>6, <2>8, <2>10, <2>11, <2>12, <2>13
<1>2. CASE \A r \in Runs : ~Ends(r)
  <2>1. UNCHANGED <<closed, ppc, answer, seen>> /\ Next
    BY <1>2 DEF ControllerStep, Ends
  <2>2. \A r \in Runs : tpc'[r] = "done" <=> tpc[r] = "done"
    BY <1>2, <2>1, LastMoves
  <2>3. last_run' # last_run => last_run' \in Runs /\ tpc[last_run'] # "done"
    BY <1>2, <2>1, LastMoves
  <2>4. \A i \in 1..Len(closed) : closed[i] \in Runs /\ tpc'[closed[i]] = "done"
    BY <2>2
  <2>5. Len(closed) > 0 => last_run' \in Runs \ Over(Len(closed) - 1)
    <3>1. \A q \in Over(Len(closed) - 1) : tpc[q] = "done"
      BY DEF Over
    <3> QED
      BY <2>3, <3>1
  <2> QED
    BY <2>1, <2>4, <2>5 DEF Over
<1> QED
  BY <1>1, <1>2

LEMMA ReadsKeepStatus ==
    ASSUME TypeInv, HoldInv, Unstopped, SlotInv, StatusInv, ReadFlag \/ ReadCurrent \/ ReadLast
    PROVE  StatusInv'
<1> USE RunsAssumption DEF StatusInv, TypeOK, TypeInv, RunOrNone
<1>1. UNCHANGED <<tpc, current_run, last_run, closed>>
  BY DEF ReadFlag, ReadCurrent, ReadLast, vars, state
<1>2. CASE ReadFlag
  BY <1>1, <1>2 DEF ReadFlag, NoAnswer, Over
<1>3. CASE ReadCurrent
  <2>1. \A i \in 1..Len(closed) : current_run # closed[i]
    BY NobodyEvicted DEF SlotInv, Slots, InSlot, Suspended, Running
  <2>2. answer' = [answer EXCEPT !.current_run = current_run] /\ ppc' = "last" /\ seen' = seen
    BY <1>3 DEF ReadCurrent
  <2>3. answer'.current_run \notin Over(seen)'
    BY <1>1, <2>1, <2>2 DEF Over
  <2> QED
    BY <1>1, <2>2, <2>3 DEF Over
<1>4. CASE ReadLast
  <2>1. answer' = [answer EXCEPT !.last_run = last_run] /\ ppc' = "answered" /\ seen' = seen
        /\ ppc = "last"
    BY <1>4 DEF ReadLast
  <2>2. seen > 0 => Over(seen - 1) \subseteq Over(Len(closed) - 1) /\ Len(closed) > 0
    BY DEF Over
  <2>3. seen' > 0 => answer'.last_run \in Runs \ Over(seen - 1)'
    BY <1>1, <2>1, <2>2 DEF Over
  <2> QED
    BY <1>1, <2>1, <2>3 DEF Over
<1> QED
  BY <1>2, <1>3, <1>4

\* Whatever runs start and end while GET /api/status reads the flag and the two
\* slots, its answer shows no last run that was superseded, and no current run
\* that was over, before it was asked.
THEOREM AnswerTheorem == ASSUME Unstopped PROVE StatusSpec => []AnswerIsSettled
<1>1. StatusSpec => Spec
  <2>1. [StatusNext]_<<vars, statusVars>> => [Next]_vars
    BY DEF StatusNext, ControllerStep, ReadFlag, ReadCurrent, ReadLast, vars
  <2> QED
    BY <2>1, PTL DEF StatusSpec, Spec, StatusInit
<1>2. StatusInit => StatusInv
  BY RunsAssumption DEF StatusInit, Init, StatusInv, NoAnswer, RunOrNone
<1>3. TypeInv /\ HoldInv /\ SessionInv /\ SlotInv /\ LastInv
      /\ StatusInv /\ [StatusNext]_<<vars, statusVars>>
      => StatusInv'
  <2> SUFFICES ASSUME TypeInv, HoldInv, SessionInv, SlotInv, LastInv, StatusInv,
                      [StatusNext]_<<vars, statusVars>>
               PROVE  StatusInv'
    OBVIOUS
  <2>1. CASE ControllerStep
    BY <2>1, ControllerKeepsStatus
  <2>2. CASE ReadFlag \/ ReadCurrent \/ ReadLast
    BY <2>2, ReadsKeepStatus
  <2>3. CASE UNCHANGED <<vars, statusVars>>
    BY <2>3 DEF vars, state, statusVars, StatusInv, Over, RunOrNone
  <2> QED
    BY <2>1, <2>2, <2>3 DEF StatusNext
<1>4. StatusInv => AnswerIsSettled
  BY RunsAssumption DEF StatusInv, AnswerIsSettled, Over
<1> QED
  BY <1>1, <1>2, <1>3, <1>4, TypeInvariant, HoldInvariant, SessionInvariant,
     SlotInvariant, LastInvariant, PTL DEF StatusSpec
-----------------------------------------------------------------------------
(* The log stream: messages and their ways *)

Messages == Writers \X (1..MaxLines) \X {"logged", "direct"}

LogTypeInv ==
    /\ log_buffer \in Seq(Lines) /\ sent \in Seq(Messages)
    /\ wpc \in [Writers -> {"fresh", "ready", "pushed"}]
    /\ count \in [Writers -> 0..MaxLines]
    /\ \A w \in Writers : wpc[w] = "pushed" => count[w] # 0
    /\ cpc \in [Clients -> {"away", "subscribed", "streaming"}]
    /\ next \in [Clients -> 1..Len(sent) + 1]
    /\ shown \in [Clients -> Seq(Messages \cup {Notice})]
    /\ missed \in [Clients -> SUBSET Messages] /\ cleared \subseteq Lines

\* What a subscription has not delivered yet.
Owed(c) == {sent[i] : i \in next[c]..Len(sent)}

\* Each line of the buffer has been shown to a streaming client, is owed to it,
\* or is still to be sent, unless the client knows that it fell behind.
Delivered(c) ==
    \A x \in ToSet(log_buffer) :
        x \in ToSet(shown[c]) \cup Owed(c) \/ InFlight(x) \/ Notice \in ToSet(shown[c])

DeliveryInv == \A c \in Clients : cpc[c] = "streaming" => Delivered(c)

\* A logged line enters the buffer before it is sent, and leaves it only when a
\* run clears it; a client is moved past nothing that was not sent.
StoredInv ==
    /\ \A x \in Lines :
          x \in ToSet(sent) \/ InFlight(x) => x \in ToSet(log_buffer) \cup cleared
    /\ \A c \in Clients : missed[c] \subseteq ToSet(sent)

-----------------------------------------------------------------------------
(* Sequences that grow at their end *)

LEMMA AppendSet ==
    ASSUME NEW S, NEW s \in Seq(S), NEW x
    PROVE  ToSet(Append(s, x)) = ToSet(s) \cup {x}
<1>1. /\ DOMAIN s = 1..Len(s) /\ DOMAIN Append(s, x) = 1..Len(s) + 1
      /\ \A i \in 1..Len(s) : Append(s, x)[i] = s[i]
      /\ Append(s, x)[Len(s) + 1] = x /\ Len(s) \in Nat
  OBVIOUS
<1>2. 1..Len(s) + 1 = (1..Len(s)) \cup {Len(s) + 1}
  BY <1>1
<1> QED
  BY <1>1, <1>2 DEF ToSet

\* What is read from a position on grows by the same message.
LEMMA AppendTail ==
    ASSUME NEW S, NEW s \in Seq(S), NEW x, NEW n \in 1..Len(s) + 1
    PROVE  {Append(s, x)[i] : i \in n..Len(s) + 1} = {s[i] : i \in n..Len(s)} \cup {x}
<1>1. /\ \A i \in 1..Len(s) : Append(s, x)[i] = s[i]
      /\ Append(s, x)[Len(s) + 1] = x /\ Len(s) \in Nat
  OBVIOUS
<1>2. n..Len(s) + 1 = (n..Len(s)) \cup {Len(s) + 1} /\ n..Len(s) \subseteq 1..Len(s)
  BY <1>1
<1>3. \A i \in n..Len(s) : Append(s, x)[i] = s[i]
  BY <1>1, <1>2
<1> QED
  BY <1>1, <1>2, <1>3

-----------------------------------------------------------------------------
(* Types *)

LEMMA LogTypeInvariant == LogSpec => []LogTypeInv
<1>1. LogInit => LogTypeInv
  <2> SUFFICES ASSUME LogInit PROVE LogTypeInv
    OBVIOUS
  <2> QED
    BY BoundAssumption DEF LogInit, LogTypeInv
<1>2. LogTypeInv /\ [LogNext]_logVars => LogTypeInv'
  <2> SUFFICES ASSUME LogTypeInv, [LogNext]_logVars PROVE LogTypeInv'
    OBVIOUS
  <2> USE BoundAssumption DEF LogTypeInv
  <2>1. ASSUME NEW w \in Writers, Clear(w) PROVE LogTypeInv'
    BY <2>1 DEF Clear, ToSet
  <2>2. ASSUME NEW w \in Writers, Push(w) PROVE LogTypeInv'
    <3>1. count[w] + 1 \in 1..MaxLines
      BY <2>2 DEF Push
    <3>2. <<w, count'[w], "logged">> \in Lines
      BY <2>2, <3>1 DEF Push, Lines
    <3> QED
      BY <2>2, <3>1, <3>2 DEF Push
  <2>3. ASSUME NEW w \in Writers, Send(w) PROVE LogTypeInv'
    <3>1. <<w, count[w], "logged">> \in Messages
      BY <2>3 DEF Send, Messages
    <3>2. sent' \in Seq(Messages) /\ Len(sent') = Len(sent) + 1
      BY <2>3, <3>1 DEF Send
    <3>3. next' \in [Clients -> 1..Len(sent') + 1]
      BY <2>3, <3>2 DEF Send
    <3> QED
      BY <2>3, <3>2, <3>3 DEF Send
  <2>4. ASSUME NEW w \in Writers, SendDirect(w) PROVE LogTypeInv'
    <3>1. count[w] + 1 \in 1..MaxLines
      BY <2>4 DEF SendDirect
    <3>2. <<w, count'[w], "direct">> \in Messages
      BY <2>4, <3>1 DEF SendDirect, Messages
    <3>3. sent' \in Seq(Messages) /\ Len(sent') = Len(sent) + 1
      BY <2>4, <3>2 DEF SendDirect
    <3>4. next' \in [Clients -> 1..Len(sent') + 1]
      BY <2>4, <3>3 DEF SendDirect
    <3> QED
      BY <2>4, <3>1, <3>3, <3>4 DEF SendDirect
  <2>5. ASSUME NEW c \in Clients, Subscribe(c) PROVE LogTypeInv'
    BY <2>5 DEF Subscribe
  <2>6. ASSUME NEW c \in Clients, Snapshot(c) PROVE LogTypeInv'
    <3>1. Lines \subseteq Messages
      BY DEF Lines, Messages
    <3> QED
      BY <2>6, <3>1 DEF Snapshot
  <2>7. ASSUME NEW c \in Clients, Receive(c) PROVE LogTypeInv'
    <3>1. next[c] \in 1..Len(sent) /\ sent[next[c]] \in Messages
      BY <2>7, CapacityAssumption DEF Receive, Oldest
    <3> QED
      BY <2>7, <3>1 DEF Receive
  <2>8. ASSUME NEW c \in Clients, Lagged(c) PROVE LogTypeInv'
    <3>1. Oldest \in 1..Len(sent)
      BY CapacityAssumption, <2>8 DEF Lagged, Oldest
    <3>2. \A i \in next[c]..Oldest - 1 : sent[i] \in Messages
      BY <3>1
    <3> QED
      BY <2>8, <3>1, <3>2 DEF Lagged
  <2>9. ASSUME UNCHANGED logVars PROVE LogTypeInv'
    BY <2>9 DEF logVars
  <2> QED
    BY <2>1, <2>2, <2>3, <2>4, <2>5, <2>6, <2>7, <2>8, <2>9
       DEF LogNext, WriterStep, ClientStep
<1> QED
  BY <1>1, <1>2, PTL DEF LogSpec

-----------------------------------------------------------------------------
(* What one step does to the parts that the two invariants relate *)

\* The lines in flight are those of writers between push and send.
LEMMA FlightKept ==
    ASSUME UNCHANGED <<wpc, count>>, NEW x
    PROVE  InFlight(x)' <=> InFlight(x)
BY DEF InFlight

\* Sending appends to what every subscription is owed.
LEMMA SendOwes ==
    ASSUME LogTypeInv, NEW m \in Messages, sent' = Append(sent, m), UNCHANGED next,
           NEW c \in Clients
    PROVE  Owed(c)' = Owed(c) \cup {m}
<1>1. sent \in Seq(Messages) /\ next[c] \in 1..Len(sent) + 1 /\ Len(sent') = Len(sent) + 1
  BY DEF LogTypeInv
<1> QED
  BY <1>1, AppendTail DEF Owed

\* A push adds its line to the buffer, and the line is in flight.
LEMMA PushAdds ==
    ASSUME LogTypeInv, NEW w \in Writers, Push(w)
    PROVE  /\ ToSet(log_buffer') = ToSet(log_buffer) \cup {<<w, count'[w], "logged">>}
           /\ \A x : InFlight(x)' <=> InFlight(x) \/ x = <<w, count'[w], "logged">>
<1> USE DEF Push, LogTypeInv
<1>1. ToSet(log_buffer') = ToSet(log_buffer) \cup {<<w, count'[w], "logged">>}
  BY AppendSet
<1>2. wpc'[w] = "pushed" /\ wpc[w] = "ready"
  OBVIOUS
<1>3. \A v \in Writers \ {w} : wpc'[v] = wpc[v] /\ count'[v] = count[v]
  OBVIOUS
<1>4. \A x : InFlight(x)' <=> InFlight(x) \/ x = <<w, count'[w], "logged">>
  BY <1>2, <1>3 DEF InFlight
<1> QED
  BY <1>1, <1>4

\* A line stops being in flight only because it is sent.
LEMMA SendLands ==
    ASSUME LogTypeInv, NEW w \in Writers, Send(w)
    PROVE  \A x : InFlight(x) <=> InFlight(x)' \/ x = <<w, count[w], "logged">>
<1> USE DEF Send, LogTypeInv
<1>1. wpc[w] = "pushed" /\ wpc'[w] = "ready"
  OBVIOUS
<1>2. \A v \in Writers \ {w} : wpc'[v] = wpc[v] /\ count'[v] = count[v]
  OBVIOUS
<1> QED
  BY <1>1, <1>2 DEF InFlight

\* Nothing is in flight from a writer that clears the buffer or sends directly.
LEMMA OthersFlight ==
    ASSUME LogTypeInv, NEW w \in Writers, Clear(w) \/ SendDirect(w)
    PROVE  \A x : InFlight(x)' <=> InFlight(x)
<1> USE DEF LogTypeInv, Clear, SendDirect
<1>1. wpc[w] # "pushed" /\ wpc'[w] # "pushed"
  OBVIOUS
<1>2. \A v \in Writers \ {w} : wpc'[v] = wpc[v] /\ count'[v] = count[v]
  OBVIOUS
<1> QED
  BY <1>1, <1>2 DEF InFlight

-----------------------------------------------------------------------------
(* Nothing slips between the copy and the subscription *)

LEMMA DeliveryInvariant == LogSpec => []DeliveryInv
<1>1. LogInit => DeliveryInv
  BY DEF LogInit, DeliveryInv
<1>2. LogTypeInv /\ DeliveryInv /\ [LogNext]_logVars => DeliveryInv'
  <2> SUFFICES ASSUME LogTypeInv, DeliveryInv, [LogNext]_logVars,
                      NEW c \in Clients, cpc'[c] = "streaming"
               PROVE  Delivered(c)'
    BY DEF DeliveryInv
  <2>1. ASSUME NEW w \in Writers, Clear(w) PROVE Delivered(c)'
    BY <2>1 DEF Clear, Delivered, ToSet
  <2>2. ASSUME NEW w \in Writers, Push(w) PROVE Delivered(c)'
    <3>1. Owed(c)' = Owed(c) /\ shown' = shown /\ Delivered(c)
      BY <2>2 DEF Push, Owed, DeliveryInv
    <3> QED
      BY <2>2, <3>1, PushAdds DEF Delivered
  <2>3. ASSUME NEW w \in Writers, Send(w) PROVE Delivered(c)'
    <3>1. <<w, count[w], "logged">> \in Messages
      BY <2>3 DEF Send, LogTypeInv, Messages
    <3>2. Owed(c)' = Owed(c) \cup {<<w, count[w], "logged">>}
      BY <2>3, <3>1, SendOwes DEF Send
    <3>3. shown' = shown /\ log_buffer' = log_buffer /\ Delivered(c)
      BY <2>3 DEF Send, DeliveryInv
    <3> QED
      BY <2>3, <3>2, <3>3, SendLands DEF Delivered
  <2>4. ASSUME NEW w \in Writers, SendDirect(w) PROVE Delivered(c)'
    <3>1. <<w, count'[w], "direct">> \in Messages
      BY <2>4, BoundAssumption DEF SendDirect, LogTypeInv, Messages
    <3>2. Owed(c)' = Owed(c) \cup {<<w, count'[w], "direct">>}
      BY <2>4, <3>1, SendOwes DEF SendDirect
    <3>3. shown' = shown /\ log_buffer' = log_buffer /\ Delivered(c)
      BY <2>4 DEF SendDirect, DeliveryInv
    <3> QED
      BY <2>4, <3>2, <3>3, OthersFlight DEF Delivered
  <2>5. ASSUME NEW d \in Clients, Subscribe(d) PROVE Delivered(c)'
    <3>1. c # d /\ cpc[c] = "streaming"
      BY <2>5 DEF Subscribe, LogTypeInv
    <3>2. Owed(c)' = Owed(c) /\ shown' = shown /\ log_buffer' = log_buffer /\ Delivered(c)
      BY <2>5, <3>1 DEF Subscribe, LogTypeInv, Owed, DeliveryInv
    <3> QED
      BY <2>5, <3>2, FlightKept DEF Subscribe, Delivered
  <2>6. ASSUME NEW d \in Clients, Snapshot(d) PROVE Delivered(c)'
    <3>1. CASE c = d
      BY <2>6, <3>1 DEF Snapshot, LogTypeInv, Delivered
    <3>2. CASE c # d
      <4>1. cpc[c] = "streaming" /\ shown'[c] = shown[c] /\ log_buffer' = log_buffer
        BY <2>6, <3>2 DEF Snapshot, LogTypeInv
      <4>2. Owed(c)' = Owed(c) /\ Delivered(c)
        BY <2>6, <4>1 DEF Snapshot, Owed, DeliveryInv
      <4> QED
        BY <2>6, <4>1, <4>2, FlightKept DEF Snapshot, Delivered
    <3> QED
      BY <3>1, <3>2
  <2>7. ASSUME NEW d \in Clients, Receive(d) PROVE Delivered(c)'
    <3>1. Delivered(c) /\ log_buffer' = log_buffer
      BY <2>7 DEF Receive, DeliveryInv
    <3>2. \A x \in Owed(c) : x \in Owed(c)' \/ x \in ToSet(shown'[c])
      <4>1. CASE c = d
        <5>1. next[c] \in 1..Len(sent) /\ next'[c] = next[c] + 1 /\ sent' = sent
          BY <2>7, <4>1, CapacityAssumption DEF Receive, Oldest, LogTypeInv
        <5>2. ToSet(shown'[c]) = ToSet(shown[c]) \cup {sent[next[c]]}
          BY <2>7, <4>1, AppendSet DEF Receive, LogTypeInv
        <5> QED
          BY <5>1, <5>2 DEF Owed
      <4>2. CASE c # d
        BY <2>7, <4>2 DEF Receive, LogTypeInv, Owed
      <4> QED
        BY <4>1, <4>2
    <3>3. ToSet(shown[c]) \subseteq ToSet(shown'[c])
      BY <2>7, AppendSet DEF Receive, LogTypeInv
    <3> QED
      BY <2>7, <3>1, <3>2, <3>3, FlightKept DEF Receive, Delivered
  <2>8. ASSUME NEW d \in Clients, Lagged(d) PROVE Delivered(c)'
    <3>1. Delivered(c) /\ log_buffer' = log_buffer
      BY <2>8 DEF Lagged, DeliveryInv
    <3>2. CASE c = d
      <4>1. Notice \in ToSet(shown'[c])
        BY <2>8, <3>2, AppendSet DEF Lagged, LogTypeInv
      <4> QED
        BY <4>1 DEF Delivered
    <3>3. CASE c # d
      <4>1. Owed(c)' = Owed(c) /\ shown'[c] = shown[c]
        BY <2>8, <3>3 DEF Lagged, LogTypeInv, Owed
      <4> QED
        BY <2>8, <3>1, <4>1, FlightKept DEF Lagged, Delivered
    <3> QED
      BY <3>2, <3>3
  <2>9. ASSUME UNCHANGED logVars PROVE Delivered(c)'
    <3>1. Delivered(c) /\ Owed(c)' = Owed(c)
      BY <2>9 DEF logVars, DeliveryInv, Owed
    <3> QED
      BY <2>9, <3>1, FlightKept DEF logVars, Delivered
  <2> QED
    BY <2>1, <2>2, <2>3, <2>4, <2>5, <2>6, <2>7, <2>8, <2>9
       DEF LogNext, WriterStep, ClientStep
<1> QED
  BY <1>1, <1>2, LogTypeInvariant, PTL DEF LogSpec

\* A client that has read everything its subscription holds has been shown
\* every line of the buffer that was sent, or has been told that it fell
\* behind: subscribing before copying loses nothing, however many runs log.
THEOREM NoLossTheorem == LogSpec => []NoSilentLoss
<1>1. LogTypeInv /\ DeliveryInv => NoSilentLoss
  <2> SUFFICES ASSUME LogTypeInv, DeliveryInv, NEW c \in Clients, CaughtUp(c),
                      NEW x \in ToSet(log_buffer)
               PROVE  x \in ToSet(shown[c]) \/ InFlight(x) \/ Notice \in ToSet(shown[c])
    BY DEF NoSilentLoss
  <2>1. Len(sent) \in Nat /\ next[c] = Len(sent) + 1 /\ Delivered(c)
    BY DEF LogTypeInv, DeliveryInv, CaughtUp
  <2>2. Owed(c) = {}
    BY <2>1 DEF Owed
  <2> QED
    BY <2>1, <2>2 DEF Delivered
<1> QED
  BY <1>1, LogTypeInvariant, DeliveryInvariant, PTL

-----------------------------------------------------------------------------
(* The buffer keeps what a lagging client missed *)

LEMMA StoredInvariant == LogSpec => []StoredInv
<1>1. LogInit => StoredInv
  BY DEF LogInit, StoredInv, InFlight, ToSet
<1>2. LogTypeInv /\ StoredInv /\ [LogNext]_logVars => StoredInv'
  <2> SUFFICES ASSUME LogTypeInv, StoredInv, [LogNext]_logVars PROVE StoredInv'
    OBVIOUS
  <2>1. ASSUME NEW w \in Writers, Clear(w) PROVE StoredInv'
    <3>1. sent' = sent /\ missed' = missed
          /\ ToSet(log_buffer) \cup cleared \subseteq cleared'
      BY <2>1 DEF Clear
    <3> QED
      BY <2>1, <3>1, OthersFlight DEF StoredInv
  <2>2. ASSUME NEW w \in Writers, Push(w) PROVE StoredInv'
    <3>1. sent' = sent /\ missed' = missed /\ cleared' = cleared
      BY <2>2 DEF Push
    <3> QED
      BY <2>2, <3>1, PushAdds DEF StoredInv
  <2>3. ASSUME NEW w \in Writers, Send(w) PROVE StoredInv'
    <3>1. log_buffer' = log_buffer /\ missed' = missed /\ cleared' = cleared
          /\ ToSet(sent') = ToSet(sent) \cup {<<w, count[w], "logged">>}
      BY <2>3, AppendSet DEF Send, LogTypeInv
    <3> QED
      BY <2>3, <3>1, SendLands DEF StoredInv
  <2>4. ASSUME NEW w \in Writers, SendDirect(w) PROVE StoredInv'
    <3>1. log_buffer' = log_buffer /\ missed' = missed /\ cleared' = cleared
          /\ ToSet(sent') = ToSet(sent) \cup {<<w, count'[w], "direct">>}
      BY <2>4, AppendSet DEF SendDirect, LogTypeInv
    <3>2. <<w, count'[w], "direct">> \notin Lines
      BY DEF Lines
    <3> QED
      BY <2>4, <3>1, <3>2, OthersFlight DEF StoredInv
  <2>5. ASSUME NEW c \in Clients, Subscribe(c) \/ Snapshot(c) \/ Receive(c)
        PROVE StoredInv'
    <3>1. UNCHANGED <<log_buffer, sent, wpc, count, missed, cleared>>
      BY <2>5 DEF Subscribe, Snapshot, Receive
    <3> QED
      BY <3>1, FlightKept DEF StoredInv
  <2>6. ASSUME NEW c \in Clients, Lagged(c) PROVE StoredInv'
    <3>1. UNCHANGED <<log_buffer, sent, wpc, count, cleared>>
      BY <2>6 DEF Lagged
    <3>2. next[c]..Oldest - 1 \subseteq DOMAIN sent
      BY <2>6, CapacityAssumption DEF Lagged, Oldest, LogTypeInv
    <3>3. \A d \in Clients : missed'[d] \subseteq ToSet(sent)
      BY <2>6, <3>2 DEF Lagged, LogTypeInv, StoredInv, ToSet
    <3> QED
      BY <3>1, <3>3, FlightKept DEF StoredInv
  <2>7. ASSUME UNCHANGED logVars PROVE StoredInv'
    BY <2>7, FlightKept DEF logVars, StoredInv
  <2> QED
    BY <2>1, <2>2, <2>3, <2>4, <2>5, <2>6, <2>7 DEF LogNext, WriterStep, ClientStep
<1> QED
  BY <1>1, <1>2, LogTypeInvariant, PTL DEF LogSpec

\* The buffer behind GET /api/console still holds each logged line that a
\* lagging client was moved past, until a run clears it.
THEOREM ConsoleTheorem == LogSpec => []MissedLinesInConsole
<1>1. StoredInv => MissedLinesInConsole
  BY DEF StoredInv, MissedLinesInConsole
<1> QED
  BY <1>1, StoredInvariant, PTL
=============================================================================
