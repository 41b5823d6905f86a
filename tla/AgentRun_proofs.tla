--------------------------- MODULE AgentRun_proofs ---------------------------
(***************************************************************************)
(* For sessions of any length, any limits, torn lines and unreadable       *)
(* files: an agent is never stopped without the reason in the log, the log *)
(* has what could be read of the session, and the verdict is earned.       *)
(***************************************************************************)
EXTENDS AgentRun, FiniteSetTheorems, TLAPS

Reasons  == {"turns", "budget", "time"}
Messages == ({"line"} \X Nat) \cup ({"limit"} \X Reasons)

LogTypeOK ==
    /\ logged \in Seq(Messages)
    /\ chan \in Seq(Messages)
    /\ pos \in Nat
    /\ exit \in {"no", "ok", "fail", "killed"}
    /\ limit_reason \in Reasons \cup {"none"}

\* The reason is stored before the flag can be seen, so that the main loop,
\* which reads the flag first, finds it.
ReasonFirst ==
    /\ limit_reached => limit_reason # "none" \/ mpc = "reason"
    /\ tpc \in {"turnLimit", "budgetLimit"} => limit_reason # "none"

LimitLogged == \E n \in 1..Len(logged) : logged[n][1] = "limit"

Concluding == {"kill", "stop", "join", "drain", "done"}
Explained ==
    mpc = "reason" \/ (mpc \in Concluding /\ status = "none") => LimitLogged

LimitInv == LogTypeOK /\ ReasonFirst /\ Explained

LEMMA AppendMessage ==
    ASSUME NEW s \in Seq(Messages), NEW m \in Messages
    PROVE  /\ Append(s, m) \in Seq(Messages)
           /\ Len(s) \in Nat /\ Len(Append(s, m)) = Len(s) + 1
           /\ \A n \in 1..Len(s) : Append(s, m)[n] = s[n]
           /\ Append(s, m)[Len(s) + 1] = m
OBVIOUS

LEMMA TakeMessage ==
    ASSUME NEW s \in Seq(Messages), s # <<>>
    PROVE  Head(s) \in Messages /\ Tail(s) \in Seq(Messages)
OBVIOUS

\* Logging keeps what was explained, and logging a limit explains.
LEMMA LogOne ==
    ASSUME LogTypeOK, NEW m \in Messages, logged' = Append(logged, m)
    PROVE  /\ logged' \in Seq(Messages)
           /\ LimitLogged => LimitLogged'
           /\ m[1] = "limit" => LimitLogged'
<1>1. /\ logged' \in Seq(Messages)
      /\ Len(logged) \in Nat /\ Len(logged') = Len(logged) + 1
      /\ \A n \in 1..Len(logged) : logged'[n] = logged[n]
      /\ logged'[Len(logged) + 1] = m
  BY AppendMessage DEF LogTypeOK
<1>2. LimitLogged => LimitLogged'
  <2> SUFFICES ASSUME NEW n \in 1..Len(logged), logged[n][1] = "limit" PROVE LimitLogged'
    BY DEF LimitLogged
  <2>1. n \in 1..Len(logged') /\ logged'[n][1] = "limit"
    BY <1>1
  <2> QED
    BY <2>1 DEF LimitLogged
<1>3. m[1] = "limit" => LimitLogged'
  <2>1. Len(logged) + 1 \in 1..Len(logged')
    BY <1>1
  <2> QED
    BY <1>1, <2>1 DEF LimitLogged
<1> QED
  BY <1>1, <1>2, <1>3

LEMMA LimitMessage ==
    ASSUME NEW r \in Reasons
    PROVE  Limit(r) \in Messages /\ Limit(r)[1] = "limit"
BY DEF Limit, Messages

LEMMA EventMessage ==
    ASSUME NEW n \in Nat
    PROVE  Event(n) \in Messages
BY DEF Event, Messages

\* Every step of the tailer.
LEMMA TailerInv ==
    ASSUME LimitInv, TailerStep
    PROVE  LimitInv'
<1> USE DEF LimitInv
<1>m. UNCHANGED mainVars
  BY DEF TailerStep, TailFind, TailNoFile, TailTop, TailReadLine, TailReadPiece, TailTurns,
         TailTurnLimit, TailBudget, TailBudgetLimit, TailTell, TailDrain
<1>a. UNCHANGED agentVars
  BY DEF TailerStep, TailFind, TailNoFile, TailTop, TailReadLine, TailReadPiece, TailTurns,
         TailTurnLimit, TailBudget, TailBudgetLimit, TailTell, TailDrain
<1>f. logged' = logged /\ mpc' = mpc /\ status' = status /\ exit' = exit
  BY <1>m, <1>a DEF mainVars, agentVars
<1>e. Explained'
  BY <1>f DEF Explained, LimitLogged
<1>1. CASE TailFind \/ TailNoFile \/ TailTop \/ TailReadLine \/ TailReadPiece
  <2>1. /\ chan' = chan /\ pos' \in {pos, pos + 1}
        /\ limit_reached' = limit_reached /\ limit_reason' = limit_reason
        /\ tpc' \notin {"turnLimit", "budgetLimit"}
    BY <1>1 DEF TailFind, TailNoFile, TailTop, TailReadLine, TailReadPiece, TailGoes, limitVars
  <2> QED
    BY <1>e, <1>f, <2>1 DEF LogTypeOK, ReasonFirst
<1>2. CASE TailTurns \/ TailBudget
  <2>1. /\ chan' = chan /\ pos' = pos /\ limit_reached' = limit_reached
        /\ limit_reason' \in {limit_reason, "turns", "budget"}
        /\ tpc' \in {"turnLimit", "budgetLimit"} => limit_reason' \in {"turns", "budget"}
    BY <1>2 DEF TailTurns, TailBudget
  <2> QED
    BY <1>e, <1>f, <2>1 DEF LogTypeOK, ReasonFirst, Reasons
<1>3. CASE TailTurnLimit \/ TailBudgetLimit
  <2>1. PICK r \in {"turns", "budget"} : chan' = Append(chan, Limit(r))
    BY <1>3 DEF TailTurnLimit, TailBudgetLimit
  <2>2. chan' \in Seq(Messages)
    BY <2>1, LimitMessage, AppendMessage DEF LogTypeOK, Reasons
  <2>3. /\ tpc \in {"turnLimit", "budgetLimit"} /\ tpc' \notin {"turnLimit", "budgetLimit"}
        /\ pos' = pos /\ limit_reason' = limit_reason
    BY <1>3 DEF TailTurnLimit, TailBudgetLimit, TailGoes
  <2> QED
    BY <1>e, <1>f, <2>2, <2>3 DEF LogTypeOK, ReasonFirst
<1>4. CASE TailTell \/ TailDrain
  <2>1. \/ chan' = chan /\ pos' = pos
        \/ chan' = Append(chan, Event(pos')) /\ pos' \in {pos, pos + 1}
    BY <1>4 DEF TailTell, TailDrain
  <2>2. pos' \in Nat
    BY <2>1 DEF LogTypeOK
  <2>3. chan' \in Seq(Messages)
    BY <2>1, <2>2, EventMessage, AppendMessage DEF LogTypeOK
  <2>4. /\ limit_reached' = limit_reached /\ limit_reason' = limit_reason
        /\ tpc' \notin {"turnLimit", "budgetLimit"}
    BY <1>4 DEF TailTell, TailDrain, TailGoes, limitVars
  <2> QED
    BY <1>e, <1>f, <2>2, <2>3, <2>4 DEF LogTypeOK, ReasonFirst
<1> QED
  BY <1>1, <1>2, <1>3, <1>4 DEF TailerStep

\* Every step of the main loop.
LEMMA MainInv ==
    ASSUME LimitInv, MainStep
    PROVE  LimitInv'
<1> USE DEF LimitInv
<1>t. tpc' = tpc /\ pos' = pos
  BY DEF MainStep, MainWatchdog, MainReason, MainLimit, MainPoll, MainReceive, MainTryWait,
         MainKill, MainStop, MainJoin, MainDrain, MainReturn, tailerVars
<1>1. CASE MainWatchdog
  <2>1. /\ logged' = Append(logged, Limit("time")) /\ mpc' = "reason"
        /\ chan' = chan /\ exit' = exit /\ limit_reason' = limit_reason
    BY <1>1 DEF MainWatchdog, MainGoes, agentVars
  <2>2. logged' \in Seq(Messages) /\ LimitLogged'
    BY <2>1, LogOne, LimitMessage DEF Reasons
  <2> QED
    BY <1>t, <2>1, <2>2 DEF LogTypeOK, ReasonFirst, Explained
<1>2. CASE MainReason
  <2>1. /\ logged' = logged /\ mpc = "reason"
        /\ chan' = chan /\ exit' = exit /\ limit_reason' = "time"
    BY <1>2 DEF MainReason, MainGoes, agentVars
  <2>2. LimitLogged'
    BY <2>1 DEF Explained, LimitLogged
  <2> QED
    BY <1>t, <2>1, <2>2 DEF LogTypeOK, ReasonFirst, Explained, Reasons
<1>3. CASE MainLimit
  <2>1. /\ limit_reached /\ mpc = "top" /\ mpc' = "kill"
        /\ logged' = IF limit_reason = "none" THEN logged ELSE Append(logged, Limit(limit_reason))
        /\ chan' = chan /\ exit' = exit /\ limit_reason' = limit_reason /\ limit_reached' = limit_reached
    BY <1>3 DEF MainLimit, MainGoes, agentVars, limitVars
  <2>2. limit_reason \in Reasons
    BY <2>1 DEF ReasonFirst, LogTypeOK
  <2>3. logged' = Append(logged, Limit(limit_reason))
    BY <2>1, <2>2 DEF Reasons
  <2>4. logged' \in Seq(Messages) /\ LimitLogged'
    BY <2>2, <2>3, LogOne, LimitMessage
  <2> QED
    BY <1>t, <2>1, <2>2, <2>4 DEF LogTypeOK, ReasonFirst, Explained
<1>4. CASE MainPoll
  BY <1>t, <1>4 DEF MainPoll, MainGoes, agentVars, limitVars, LogTypeOK, ReasonFirst, Explained, Concluding
<1>5. CASE MainReceive \/ MainDrain
  <2>1. /\ chan # <<>> /\ logged' = Append(logged, Head(chan)) /\ chan' = Tail(chan)
        /\ exit' = exit /\ limit_reason' = limit_reason /\ limit_reached' = limit_reached
        /\ status' = status /\ mpc # "reason"
        /\ mpc' = "top" \/ (mpc = "drain" /\ mpc' = "drain")
    BY <1>5 DEF MainReceive, MainDrain, MainGoes, agentVars, limitVars
  <2>2. Head(chan) \in Messages /\ chan' \in Seq(Messages)
    BY <2>1, TakeMessage DEF LogTypeOK
  <2>3. logged' \in Seq(Messages) /\ (LimitLogged => LimitLogged')
    BY <2>1, <2>2, LogOne
  <2> QED
    BY <1>t, <2>1, <2>2, <2>3 DEF LogTypeOK, ReasonFirst, Explained, Concluding
<1>6. CASE MainTryWait
  <2>1. /\ logged' = logged /\ chan' = chan /\ exit' = exit /\ mpc = "recv"
        /\ limit_reason' = limit_reason /\ limit_reached' = limit_reached
        /\ mpc' = "top" \/ (mpc' = "kill" /\ status' = exit /\ exit # "no")
    BY <1>6 DEF MainTryWait, MainGoes, agentVars, limitVars
  <2>2. exit \in {"no", "ok", "fail", "killed"}
    BY DEF LogTypeOK
  <2>3. Explained'
    BY <2>1, <2>2 DEF Explained, Concluding
  <2> QED
    BY <1>t, <2>1, <2>3 DEF LogTypeOK, ReasonFirst
<1>7. CASE MainKill \/ MainStop \/ MainJoin \/ MainReturn
  <2>1. /\ logged' = logged /\ chan' = chan /\ exit' \in {exit, "killed"}
        /\ limit_reason' = limit_reason /\ limit_reached' = limit_reached /\ status' = status
        /\ mpc \in Concluding /\ mpc' \in Concluding /\ mpc # "reason" /\ mpc' # "reason"
    BY <1>7 DEF MainKill, MainStop, MainJoin, MainReturn, MainGoes, agentVars, limitVars, Concluding
  <2>2. Explained'
    BY <2>1 DEF Explained, LimitLogged
  <2> QED
    BY <1>t, <2>1, <2>2 DEF LogTypeOK, ReasonFirst
<1> QED
  BY <1>1, <1>2, <1>3, <1>4, <1>5, <1>6, <1>7 DEF MainStep

LEMMA LimitInvariant == Spec => []LimitInv
<1>1. Init => LimitInv
  BY DEF Init, LimitInv, LogTypeOK, ReasonFirst, Explained, Concluding
<1>2. LimitInv /\ [Next]_vars => LimitInv'
  <2> SUFFICES ASSUME LimitInv, [Next]_vars PROVE LimitInv'
    OBVIOUS
  <2>1. CASE TailerStep
    BY <2>1, TailerInv
  <2>2. CASE MainStep
    BY <2>2, MainInv
  <2>3. CASE AgentWrites \/ AgentExits \/ Clock
    <3>1. /\ UNCHANGED tailerVars /\ UNCHANGED mainVars /\ UNCHANGED limitVars /\ chan' = chan
          /\ exit' \in {exit, "ok", "fail"}
      BY <2>3 DEF AgentWrites, AgentExits, Clock
    <3> QED
      BY <3>1 DEF tailerVars, mainVars, limitVars, LimitInv, LogTypeOK, ReasonFirst, Explained, LimitLogged
  <2>4. CASE UNCHANGED vars
    BY <2>4 DEF vars, agentVars, tailerVars, mainVars, limitVars,
                LimitInv, LogTypeOK, ReasonFirst, Explained, LimitLogged
  <2> QED
    BY <2>1, <2>2, <2>3, <2>4 DEF Next
<1> QED
  BY <1>1, <1>2, PTL DEF Spec

\* Whenever the main loop ends a session on its own account, by the watchdog
\* or by a limit of the tailer, the log says why.
THEOREM StopIsExplained == Spec => []StopExplained
<1>1. LimitInv => StopExplained
  <2> SUFFICES ASSUME LimitInv, mpc \in Concluding, status = "none"
               PROVE  \E m \in ToSet(logged) : m[1] = "limit"
    BY DEF StopExplained, Concluding
  <2>1. PICK n \in 1..Len(logged) : logged[n][1] = "limit"
    BY DEF LimitInv, Explained, LimitLogged
  <2>2. logged[n] \in ToSet(logged)
    BY DEF ToSet, LimitInv, LogTypeOK
  <2> QED
    BY <2>1, <2>2
<1> QED
  BY <1>1, LimitInvariant, PTL

-----------------------------------------------------------------------------
(* How the two threads follow each other *)

TailPcs == {"find", "top", "read", "turns", "turnLimit", "budget", "budgetLimit",
            "tell", "drain", "ended"}
\* a line has been read and is not yet in the channel
MidLine == {"turns", "turnLimit", "budget", "budgetLimit", "tell"}

FileInv ==
    /\ session \in Seq({"turn", "other"}) /\ Len(session) <= MaxLines
    /\ pos \in 0..Len(session)
    /\ tpc \in TailPcs /\ (tpc \in MidLine => pos > 0) /\ (tpc = "find" => pos = 0)

\* The status is the agent's own end; the tailer is told to stop only after the
\* agent is gone, and is over before the last of the channel is logged.
OrderInv ==
    /\ status \in {"none", "ok", "fail"} /\ (status # "none" => status = exit)
    /\ mpc \in {"top", "recv", "reason"} => exit # "killed"
    /\ mpc \in {"stop", "join", "drain", "done"} => exit # "no"
    /\ ~running => mpc \in {"join", "drain", "done"}
    /\ tpc = "drain" => ~running
    /\ mpc \in {"drain", "done"} => tpc = "ended"
    /\ mpc = "done" => chan = <<>>

LEMMA FileInvariant == Spec => []FileInv
<1>1. Init => FileInv
  BY BoundAssumption DEF Init, FileInv, TailPcs, MidLine
<1>2. FileInv /\ [Next]_vars => FileInv'
  <2> SUFFICES ASSUME FileInv, [Next]_vars PROVE FileInv'
    OBVIOUS
  <2> USE BoundAssumption DEF FileInv, TailPcs, MidLine
  <2>1. CASE AgentWrites
    <3>1. session' \in Seq({"turn", "other"}) /\ Len(session') \in Len(session)..MaxLines
      BY <2>1 DEF AgentWrites
    <3>2. pos' = pos /\ tpc' = tpc
      BY <2>1 DEF AgentWrites, tailerVars
    <3> QED
      BY <3>1, <3>2
  <2>2. CASE TailerStep
    <3>1. session' = session
      BY <2>2 DEF TailerStep, TailFind, TailNoFile, TailTop, TailReadLine, TailReadPiece,
         TailTurns, TailTurnLimit, TailBudget, TailBudgetLimit, TailTell, TailDrain, agentVars
    <3>2. CASE TailReadLine \/ TailDrain
      BY <3>1, <3>2 DEF TailReadLine, TailDrain, TailGoes
    <3>3. CASE TailTurns \/ TailTurnLimit \/ TailBudget \/ TailBudgetLimit
      BY <3>1, <3>3 DEF TailTurns, TailTurnLimit, TailBudget, TailBudgetLimit, TailGoes
    <3>4. CASE TailFind \/ TailNoFile \/ TailTop \/ TailReadPiece \/ TailTell
      BY <3>1, <3>4 DEF TailFind, TailNoFile, TailTop, TailReadPiece, TailTell, TailGoes
    <3> QED
      BY <2>2, <3>2, <3>3, <3>4 DEF TailerStep
  <2>3. CASE AgentExits \/ Clock \/ MainStep \/ UNCHANGED vars
    <3>1. UNCHANGED <<session, pos, tpc>>
      BY <2>3 DEF AgentExits, Clock, MainStep, MainWatchdog, MainReason, MainLimit, MainPoll,
         MainReceive, MainTryWait, MainKill, MainStop, MainJoin, MainDrain, MainReturn,
         vars, agentVars, tailerVars
    <3> QED
      BY <3>1
  <2> QED
    BY <2>1, <2>2, <2>3 DEF Next
<1> QED
  BY <1>1, <1>2, PTL DEF Spec

LEMMA OrderInvariant == Spec => []OrderInv
<1>1. Init => OrderInv
  BY DEF Init, OrderInv
<1>2. LimitInv /\ OrderInv /\ [Next]_vars => OrderInv'
  <2> SUFFICES ASSUME LimitInv, OrderInv, [Next]_vars PROVE OrderInv'
    OBVIOUS
  <2> USE DEF OrderInv
  <2>1. CASE AgentWrites \/ AgentExits \/ Clock \/ UNCHANGED vars
    BY <2>1 DEF AgentWrites, AgentExits, Clock, vars, agentVars, tailerVars, mainVars
  <2>2. CASE TailerStep
    <3>1. UNCHANGED <<exit, status, mpc, running>> /\ tpc # "ended"
      BY <2>2 DEF TailerStep, TailFind, TailNoFile, TailTop, TailReadLine, TailReadPiece,
         TailTurns, TailTurnLimit, TailBudget, TailBudgetLimit, TailTell, TailDrain, TailGoes,
         agentVars, mainVars
    <3>2. tpc' = "drain" => ~running
      BY <2>2 DEF TailerStep, TailFind, TailNoFile, TailTop, TailReadLine, TailReadPiece,
         TailTurns, TailTurnLimit, TailBudget, TailBudgetLimit, TailTell, TailDrain, TailGoes
    <3> QED
      BY <3>1, <3>2
  <2>3. CASE MainStep
    <3> USE DEF MainGoes, agentVars, tailerVars, limitVars
    <3>1. CASE MainWatchdog \/ MainReason \/ MainLimit \/ MainPoll \/ MainReceive
      BY <2>3, <3>1 DEF MainWatchdog, MainReason, MainLimit, MainPoll, MainReceive
    <3>2. CASE MainTryWait
      BY <3>2 DEF MainTryWait, LimitInv, LogTypeOK
    <3>3. CASE MainKill \/ MainStop \/ MainJoin \/ MainDrain \/ MainReturn
      BY <3>3 DEF MainKill, MainStop, MainJoin, MainDrain, MainReturn
    <3> QED
      BY <2>3, <3>1, <3>2, <3>3 DEF MainStep
  <2> QED
    BY <2>1, <2>2, <2>3 DEF Next
<1> QED
  BY <1>1, <1>2, LimitInvariant, PTL DEF Spec

-----------------------------------------------------------------------------
(* The verdict *)

\* the turns among the first n lines, as the tailer counts them one by one
TurnsAmong(n) == {i \in 1..n : session[i] = "turn"}
TurnsIn(n)    == Cardinality(TurnsAmong(n))
LimitMet      == TurnsIn(Len(session)) >= MaxTurns \/ TurnsIn(Len(session)) >= MaxBudget

\* Neither counter is ahead of the lines read, so that a limit that strikes was
\* met, and the loop stops for a limit, the clock, or the agent's own end.
VerdictInv ==
    /\ turns \in Nat /\ turns <= TurnsIn(IF tpc = "turns" THEN pos - 1 ELSE pos)
    /\ spent \in Nat
    /\ spent <= TurnsIn(IF tpc \in {"turns", "turnLimit", "budget"} THEN pos - 1 ELSE pos)
    /\ tpc \in {"turnLimit", "budgetLimit"} => LimitMet
    /\ limit_reached => overtime \/ LimitMet
    /\ mpc = "reason" => limit_reached
    /\ mpc \in Concluding => limit_reached \/ status # "none"
    /\ result = "ok" => limit_reached \/ exit = "ok"
    /\ result = "err" => exit = "fail"

LEMMA TurnsFinite ==
    ASSUME NEW n \in Nat
    PROVE  IsFiniteSet(TurnsAmong(n)) /\ TurnsIn(n) \in Nat
<1>1. IsFiniteSet(1..n)
  BY FS_Interval
<1>2. IsFiniteSet(TurnsAmong(n))
  BY <1>1, FS_Subset DEF TurnsAmong
<1> QED
  BY <1>2, FS_CardinalityType DEF TurnsIn

LEMMA TurnsGrow ==
    ASSUME NEW m \in Nat, NEW n \in 0..m
    PROVE  TurnsIn(n) <= TurnsIn(m)
<1>1. TurnsAmong(n) \subseteq TurnsAmong(m)
  BY DEF TurnsAmong
<1> QED
  BY <1>1, TurnsFinite, FS_Subset DEF TurnsIn

LEMMA TurnsNext ==
    ASSUME NEW n \in Nat
    PROVE  TurnsIn(n + 1) = TurnsIn(n) + (IF session[n + 1] = "turn" THEN 1 ELSE 0)
<1>1. 1..n + 1 = (1..n) \cup {n + 1}
  OBVIOUS
<1>2. CASE session[n + 1] = "turn"
  <2>1. TurnsAmong(n + 1) = TurnsAmong(n) \cup {n + 1} /\ n + 1 \notin TurnsAmong(n)
    BY <1>1, <1>2 DEF TurnsAmong
  <2> QED
    BY <1>2, <2>1, TurnsFinite, FS_AddElement DEF TurnsIn
<1>3. CASE session[n + 1] # "turn"
  <2>1. TurnsAmong(n + 1) = TurnsAmong(n)
    BY <1>1, <1>3 DEF TurnsAmong
  <2> QED
    BY <1>3, <2>1, TurnsFinite DEF TurnsIn
<1> QED
  BY <1>2, <1>3

LEMMA TurnsKept ==
    ASSUME session \in Seq({"turn", "other"}), NEW x, session' = Append(session, x),
           NEW n \in 0..Len(session)
    PROVE  TurnsIn(n)' = TurnsIn(n)
<1>1. \A i \in 1..n : session'[i] = session[i]
  OBVIOUS
<1>2. TurnsAmong(n)' = TurnsAmong(n)
  BY <1>1 DEF TurnsAmong
<1> QED
  BY <1>2 DEF TurnsIn

\* A limit that was met stays met: the session only grows.
LEMMA LimitStays ==
    ASSUME FileInv, [Next]_vars, LimitMet
    PROVE  LimitMet'
<1>1. CASE AgentWrites
  <2>1. session' = session \/ \E x : session' = Append(session, x)
    BY <1>1 DEF AgentWrites
  <2>2. CASE session' = session
    BY <2>2 DEF LimitMet, TurnsIn, TurnsAmong
  <2>3. ASSUME NEW x, session' = Append(session, x) PROVE LimitMet'
    <3>1. Len(session) \in 0..Len(session') /\ Len(session') \in Nat
      BY <2>3 DEF FileInv
    <3>2. TurnsIn(Len(session)) <= TurnsIn(Len(session))'
      <4> DEFINE k == Len(session)
      <4>1. TurnsIn(k) \in Nat /\ k \in Nat
        BY TurnsFinite DEF FileInv
      <4>2. TurnsAmong(k) \subseteq TurnsAmong(Len(session))'
        BY <2>3 DEF TurnsAmong, FileInv
      <4>3. IsFiniteSet(TurnsAmong(Len(session))')
        <5>1. IsFiniteSet(1..Len(session'))
          BY <3>1, FS_Interval
        <5> QED
          BY <5>1, FS_Subset DEF TurnsAmong
      <4> QED
        BY <4>2, <4>3, FS_Subset DEF TurnsIn
    <3>3. TurnsIn(Len(session)) \in Nat /\ TurnsIn(Len(session))' \in Nat
      <4>1. IsFiniteSet(1..Len(session'))
        BY <3>1, FS_Interval
      <4>2. IsFiniteSet(TurnsAmong(Len(session))')
        BY <4>1, FS_Subset DEF TurnsAmong
      <4> QED
        BY <4>2, TurnsFinite, FS_CardinalityType DEF TurnsIn, FileInv
    <3> QED
      BY <3>2, <3>3, LimitAssumption DEF LimitMet
  <2> QED
    BY <2>1, <2>2, <2>3
<1>2. CASE ~AgentWrites
  <2>1. session' = session
    BY <1>2 DEF Next, AgentExits, Clock, TailerStep, TailFind, TailNoFile, TailTop, TailReadLine,
      TailReadPiece, TailTurns, TailTurnLimit, TailBudget, TailBudgetLimit, TailTell, TailDrain,
      MainStep, MainWatchdog, MainReason, MainLimit, MainPoll, MainReceive, MainTryWait,
      MainKill, MainStop, MainJoin, MainDrain, MainReturn, vars, agentVars
  <2> QED
    BY <2>1 DEF LimitMet, TurnsIn, TurnsAmong
<1> QED
  BY <1>1, <1>2

\* What the tailer counts at a line it has read.
LEMMA CountLine ==
    ASSUME FileInv, tpc \in MidLine
    PROVE  /\ pos - 1 \in Nat
           /\ TurnsIn(pos) = TurnsIn(pos - 1) + (IF IsTurn THEN 1 ELSE 0)
           /\ TurnsIn(pos - 1) \in Nat /\ TurnsIn(pos) \in Nat
           /\ TurnsIn(pos) <= TurnsIn(Len(session)) /\ TurnsIn(Len(session)) \in Nat
<1>1. pos - 1 \in Nat /\ (pos - 1) + 1 = pos /\ Len(session) \in Nat /\ pos \in 0..Len(session)
  BY DEF FileInv
<1>2. TurnsIn(pos) = TurnsIn(pos - 1) + (IF IsTurn THEN 1 ELSE 0)
  BY <1>1, TurnsNext DEF IsTurn
<1> QED
  BY <1>1, <1>2, TurnsFinite, TurnsGrow

LEMMA TailerKeepsVerdict ==
    ASSUME FileInv, VerdictInv, LimitMet => LimitMet', TailerStep
    PROVE  VerdictInv'
<1> USE DEF VerdictInv
<1>1. UNCHANGED <<exit, overtime, mpc, status, result, session>>
  BY DEF TailerStep, TailFind, TailNoFile, TailTop, TailReadLine, TailReadPiece, TailTurns,
         TailTurnLimit, TailBudget, TailBudgetLimit, TailTell, TailDrain, agentVars, mainVars
<1>2. \A n \in Nat : TurnsIn(n)' = TurnsIn(n)
  BY <1>1 DEF TurnsIn, TurnsAmong
<1>3. CASE TailFind \/ TailNoFile \/ TailTop \/ TailReadPiece \/ TailTell
  <2>1. /\ UNCHANGED <<pos, turns, spent, limit_reached>>
        /\ tpc' \notin {"turns", "turnLimit", "budget", "budgetLimit"}
        /\ tpc \notin {"turns", "turnLimit", "budget"}
    BY <1>3 DEF TailFind, TailNoFile, TailTop, TailReadPiece, TailTell, TailGoes, limitVars
  <2>2. pos \in Nat
    BY DEF FileInv
  <2> QED
    BY <1>1, <1>2, <2>1, <2>2
<1>4. CASE TailReadLine \/ TailDrain
  <2>1. /\ UNCHANGED <<turns, spent, limit_reached>>
        /\ pos' = pos \/ (pos' = pos + 1 /\ pos < Len(session))
        /\ tpc' \in {"top", "drain", "ended"} \/ (tpc' = "turns" /\ pos' = pos + 1)
        /\ tpc \in {"read", "drain"}
    BY <1>4 DEF TailReadLine, TailDrain, TailGoes, limitVars
  <2>2. pos \in Nat /\ TurnsIn(pos) \in Nat /\ TurnsIn(pos + 1) \in Nat
        /\ TurnsIn(pos) <= TurnsIn(pos + 1)
    <3>1. pos \in Nat /\ pos + 1 \in Nat /\ pos \in 0..(pos + 1)
      BY DEF FileInv
    <3> QED
      BY <3>1, TurnsFinite, TurnsGrow
  <2>3. turns <= TurnsIn(pos) /\ spent <= TurnsIn(pos)
    BY <2>1
  <2>4. CASE tpc' = "turns"
    BY <1>1, <1>2, <2>1, <2>2, <2>3, <2>4
  <2>5. CASE tpc' # "turns"
    BY <1>1, <1>2, <2>1, <2>2, <2>3, <2>5
  <2> QED
    BY <2>4, <2>5
<1>5. CASE TailTurns
  <2>1. /\ tpc = "turns" /\ UNCHANGED <<pos, spent, limit_reached>>
        /\ turns' = turns + (IF IsTurn THEN 1 ELSE 0)
        /\ tpc' = "budget" \/ (tpc' = "turnLimit" /\ turns' >= MaxTurns)
    BY <1>5 DEF TailTurns
  <2>2. turns' \in Nat /\ turns' <= TurnsIn(pos)
    BY <2>1, CountLine DEF MidLine
  <2>3. tpc' = "turnLimit" => LimitMet
    BY <2>1, <2>2, CountLine, LimitAssumption DEF LimitMet, MidLine
  <2>4. TurnsIn(pos)' = TurnsIn(pos) /\ TurnsIn(pos - 1)' = TurnsIn(pos - 1)
    BY <1>1, <2>1 DEF TurnsIn, TurnsAmong
  <2>5. turns' \in Nat /\ turns' <= TurnsIn(IF tpc = "turns" THEN pos - 1 ELSE pos)'
    BY <2>1, <2>2, <2>4, CountLine DEF MidLine
  <2>6. /\ spent' \in Nat
        /\ spent' <= TurnsIn(IF tpc \in {"turns", "turnLimit", "budget"} THEN pos - 1 ELSE pos)'
    BY <2>1, <2>2, <2>4, CountLine DEF MidLine
  <2> QED
    BY <1>1, <2>1, <2>3, <2>5, <2>6
<1>6. CASE TailTurnLimit
  <2>1. tpc = "turnLimit" /\ tpc' = "budget" /\ limit_reached' = TRUE
        /\ UNCHANGED <<pos, turns, spent>>
    BY <1>6 DEF TailTurnLimit, TailGoes
  <2>2. TurnsIn(pos)' = TurnsIn(pos) /\ TurnsIn(pos - 1)' = TurnsIn(pos - 1)
    BY <1>1, <2>1 DEF TurnsIn, TurnsAmong
  <2>3. turns' \in Nat /\ turns' <= TurnsIn(IF tpc = "turns" THEN pos - 1 ELSE pos)'
    BY <2>1, <2>2, CountLine DEF MidLine
  <2>4. /\ spent' \in Nat
        /\ spent' <= TurnsIn(IF tpc \in {"turns", "turnLimit", "budget"} THEN pos - 1 ELSE pos)'
    BY <2>1, <2>2, CountLine DEF MidLine
  <2> QED
    BY <1>1, <2>1, <2>3, <2>4
<1>7. CASE TailBudget
  <2>1. /\ tpc = "budget" /\ UNCHANGED <<pos, turns, limit_reached>>
        /\ spent' = spent + (IF IsTurn THEN 1 ELSE 0)
        /\ tpc' = "tell" \/ (tpc' = "budgetLimit" /\ spent' >= MaxBudget)
    BY <1>7 DEF TailBudget
  <2>2. spent' \in Nat /\ spent' <= TurnsIn(pos)
    BY <2>1, CountLine DEF MidLine
  <2>3. tpc' = "budgetLimit" => LimitMet
    BY <2>1, <2>2, CountLine, LimitAssumption DEF LimitMet, MidLine
  <2>4. TurnsIn(pos)' = TurnsIn(pos) /\ TurnsIn(pos - 1)' = TurnsIn(pos - 1)
    BY <1>1, <2>1 DEF TurnsIn, TurnsAmong
  <2>5. turns' \in Nat /\ turns' <= TurnsIn(IF tpc = "turns" THEN pos - 1 ELSE pos)'
    BY <2>1, <2>2, <2>4, CountLine DEF MidLine
  <2>6. /\ spent' \in Nat
        /\ spent' <= TurnsIn(IF tpc \in {"turns", "turnLimit", "budget"} THEN pos - 1 ELSE pos)'
    BY <2>1, <2>2, <2>4, CountLine DEF MidLine
  <2> QED
    BY <1>1, <2>1, <2>3, <2>5, <2>6
<1>8. CASE TailBudgetLimit
  <2>1. tpc = "budgetLimit" /\ tpc' = "tell" /\ limit_reached' = TRUE
        /\ UNCHANGED <<pos, turns, spent>>
    BY <1>8 DEF TailBudgetLimit, TailGoes
  <2>2. TurnsIn(pos)' = TurnsIn(pos) /\ TurnsIn(pos - 1)' = TurnsIn(pos - 1)
    BY <1>1, <2>1 DEF TurnsIn, TurnsAmong
  <2>3. turns' \in Nat /\ turns' <= TurnsIn(IF tpc = "turns" THEN pos - 1 ELSE pos)'
    BY <2>1, <2>2, CountLine DEF MidLine
  <2>4. /\ spent' \in Nat
        /\ spent' <= TurnsIn(IF tpc \in {"turns", "turnLimit", "budget"} THEN pos - 1 ELSE pos)'
    BY <2>1, <2>2, CountLine DEF MidLine
  <2> QED
    BY <1>1, <2>1, <2>3, <2>4
<1> QED
  BY <1>3, <1>4, <1>5, <1>6, <1>7, <1>8 DEF TailerStep

LEMMA MainKeepsVerdict ==
    ASSUME FileInv, OrderInv, LogTypeOK, VerdictInv, LimitMet => LimitMet', MainStep
    PROVE  VerdictInv'
<1> USE DEF VerdictInv, Concluding, MainGoes, agentVars, tailerVars, limitVars
<1>1. UNCHANGED <<tpc, pos, turns, spent, session, overtime>>
  BY DEF MainStep, MainWatchdog, MainReason, MainLimit, MainPoll, MainReceive, MainTryWait,
         MainKill, MainStop, MainJoin, MainDrain, MainReturn
<1>2. turns' <= TurnsIn(IF tpc = "turns" THEN pos - 1 ELSE pos)'
      /\ spent' <= TurnsIn(IF tpc \in {"turns", "turnLimit", "budget"} THEN pos - 1 ELSE pos)'
  BY <1>1 DEF TurnsIn, TurnsAmong
<1>3. CASE MainWatchdog
  BY <1>1, <1>2, <1>3 DEF MainWatchdog
<1>4. CASE MainReason \/ MainLimit \/ MainPoll \/ MainReceive
  BY <1>1, <1>2, <1>4 DEF MainReason, MainLimit, MainPoll, MainReceive
<1>7. CASE MainTryWait
  BY <1>1, <1>2, <1>7 DEF MainTryWait, OrderInv, LogTypeOK
<1>5. CASE MainKill \/ MainStop \/ MainJoin \/ MainDrain
  BY <1>1, <1>2, <1>5 DEF MainKill, MainStop, MainJoin, MainDrain
<1>6. CASE MainReturn
  BY <1>1, <1>2, <1>6 DEF MainReturn, OrderInv
<1> QED
  BY <1>3, <1>4, <1>5, <1>6, <1>7 DEF MainStep

\* A session that counts as good ended by itself or met a limit that the session
\* file shows, and one that counts as failed has failed by itself.
THEOREM VerdictTheorem == Spec => []VerdictIsEarned
<1>1. Init => VerdictInv
  <2> SUFFICES ASSUME Init PROVE VerdictInv
    OBVIOUS
  <2>1. TurnsIn(0) \in Nat
    BY TurnsFinite
  <2> QED
    BY <2>1 DEF Init, VerdictInv, Concluding
<1>2. LimitInv /\ FileInv /\ OrderInv /\ VerdictInv /\ [Next]_vars => VerdictInv'
  <2> SUFFICES ASSUME LimitInv, FileInv, OrderInv, VerdictInv, [Next]_vars
               PROVE  VerdictInv'
    OBVIOUS
  <2>1. LimitMet => LimitMet'
    BY LimitStays
  <2>2. CASE TailerStep
    BY <2>1, <2>2, TailerKeepsVerdict
  <2>3. CASE MainStep
    BY <2>1, <2>3, MainKeepsVerdict DEF LimitInv
  <2>4. CASE AgentWrites \/ AgentExits \/ Clock \/ UNCHANGED vars
    <3>1. /\ UNCHANGED <<tpc, pos, turns, spent, mpc, status, result, limit_reached>>
          /\ exit = "no" \/ exit' = exit
          /\ overtime => overtime'
      BY <2>4 DEF AgentWrites, AgentExits, Clock, vars, agentVars, tailerVars, mainVars, limitVars
    <3>2. session' = session \/ \E x : session' = Append(session, x)
      BY <2>4 DEF AgentWrites, AgentExits, Clock, vars, agentVars
    <3>3. \A n \in 0..Len(session) : TurnsIn(n)' = TurnsIn(n)
      <4>1. CASE session' = session
        BY <4>1 DEF TurnsIn, TurnsAmong
      <4>2. ASSUME NEW x, session' = Append(session, x)
            PROVE  \A n \in 0..Len(session) : TurnsIn(n)' = TurnsIn(n)
        BY <4>2, TurnsKept DEF FileInv
      <4> QED
        BY <3>2, <4>1, <4>2
    <3>4. pos \in 0..Len(session) /\ (tpc \in {"turns", "turnLimit", "budget"} => pos - 1 \in 0..Len(session))
      BY DEF FileInv, MidLine
    <3>5. /\ turns' \in Nat /\ turns' <= TurnsIn(IF tpc = "turns" THEN pos - 1 ELSE pos)'
          /\ spent' \in Nat
          /\ spent' <= TurnsIn(IF tpc \in {"turns", "turnLimit", "budget"} THEN pos - 1 ELSE pos)'
      BY <3>1, <3>3, <3>4 DEF VerdictInv
    <3> QED
      BY <2>1, <3>1, <3>5 DEF VerdictInv
  <2> QED
    BY <2>2, <2>3, <2>4 DEF Next
<1>3. FileInv /\ VerdictInv => VerdictIsEarned
  <2> SUFFICES ASSUME FileInv, VerdictInv, LimitMet
               PROVE  Quantify(DOMAIN session, LAMBDA n : session[n] = "turn")
                        >= Min({MaxTurns, MaxBudget})
    BY DEF VerdictInv, VerdictIsEarned
  <2>1. Quantify(DOMAIN session, LAMBDA n : session[n] = "turn") = TurnsIn(Len(session))
    <3>1. {n \in DOMAIN session : session[n] = "turn"} = TurnsAmong(Len(session))
      BY DEF TurnsAmong, FileInv
    <3> QED
      BY <3>1 DEF Quantify, TurnsIn
  <2>2. TurnsIn(Len(session)) \in Nat
    BY TurnsFinite DEF FileInv
  <2>3. Min({MaxTurns, MaxBudget}) <= MaxTurns /\ Min({MaxTurns, MaxBudget}) <= MaxBudget
        /\ Min({MaxTurns, MaxBudget}) \in Nat
    <3>1. \E x \in {MaxTurns, MaxBudget} : \A y \in {MaxTurns, MaxBudget} : x <= y
      BY LimitAssumption
    <3> QED
      BY <3>1, LimitAssumption DEF Min
  <2> QED
    BY <2>1, <2>2, <2>3, LimitAssumption DEF LimitMet
<1> QED
  BY <1>1, <1>2, <1>3, LimitInvariant, FileInvariant, OrderInvariant, PTL DEF Spec

-----------------------------------------------------------------------------
(* The transcript *)

\* the lines the tailer is through with: logged, in the channel, or missed
Sent == IF tpc \in MidLine THEN pos - 1 ELSE pos

\* The log and the channel have the lines read so far, except the missed ones, ..
Complete ==
    LinesOf(ToSet(logged) \cup ToSet(chan)) = {Event(n) : n \in 1..Sent \ missed}

\* .. each once and in the order of the file, ..
Sorted ==
    /\ InOrder(logged) /\ InOrder(chan)
    /\ \A a \in LinesOf(ToSet(logged)), b \in LinesOf(ToSet(chan)) : a[2] < b[2]

\* .. and when the tailer ends nothing is left, because it could not open the
\* file or because the agent was gone before it looked for the last time.
MissedInv ==
    /\ tpc # "ended" => missed \subseteq 1..Sent
    /\ tpc = "ended" => /\ 1..Len(session) \ missed \subseteq 1..pos
                        /\ exit # "no" \/ 1..MaxLines \subseteq missed

TranscriptInv == Complete /\ Sorted /\ MissedInv

LEMMA LineIs ==
    /\ \A n \in Nat : Event(n)[2] = n /\ IsLine(Event(n))
    /\ \A r : ~IsLine(Limit(r))
    /\ \A m \in Messages : IsLine(m) => m[2] \in Nat
  BY DEF Event, Limit, IsLine, Messages

LEMMA SetOfAppend ==
    ASSUME NEW s \in Seq(Messages), NEW m \in Messages
    PROVE  ToSet(Append(s, m)) = ToSet(s) \cup {m} /\ ToSet(s) \subseteq Messages
<1>1. /\ DOMAIN s = 1..Len(s) /\ DOMAIN Append(s, m) = 1..Len(s) + 1
      /\ 1..Len(s) + 1 = (1..Len(s)) \cup {Len(s) + 1}
  OBVIOUS
<1> QED
  BY <1>1, AppendMessage DEF ToSet

LEMMA SetOfTail ==
    ASSUME NEW s \in Seq(Messages), s # <<>>
    PROVE  ToSet(s) = {Head(s)} \cup ToSet(Tail(s))
<1>1. /\ Len(s) \in Nat \ {0} /\ Len(Tail(s)) = Len(s) - 1
      /\ \A i \in 1..Len(s) - 1 : Tail(s)[i] = s[i + 1]
      /\ Head(s) = s[1]
      /\ DOMAIN s = 1..Len(s) /\ DOMAIN Tail(s) = 1..Len(s) - 1
  OBVIOUS
<1>2. \A i \in 1..Len(s) : i = 1 \/ (i - 1 \in 1..Len(s) - 1 /\ (i - 1) + 1 = i)
  BY <1>1
<1>3. ToSet(s) \subseteq {Head(s)} \cup ToSet(Tail(s))
  <2> SUFFICES ASSUME NEW i \in 1..Len(s), i # 1 PROVE s[i] \in ToSet(Tail(s))
    BY <1>1 DEF ToSet
  <2>1. i - 1 \in DOMAIN Tail(s) /\ Tail(s)[i - 1] = s[i]
    BY <1>1, <1>2
  <2> QED
    BY <2>1 DEF ToSet
<1>4. {Head(s)} \cup ToSet(Tail(s)) \subseteq ToSet(s)
  BY <1>1 DEF ToSet
<1> QED
  BY <1>3, <1>4

LEMMA OrderOfAppend ==
    ASSUME NEW s \in Seq(Messages), NEW m \in Messages, InOrder(s),
           IsLine(m) => \A a \in LinesOf(ToSet(s)) : a[2] < m[2]
    PROVE  InOrder(Append(s, m))
<1>1. /\ Len(s) \in Nat
      /\ DOMAIN s = 1..Len(s) /\ DOMAIN Append(s, m) = 1..Len(s) + 1
      /\ \A n \in 1..Len(s) : Append(s, m)[n] = s[n]
      /\ Append(s, m)[Len(s) + 1] = m
  BY AppendMessage
<1> DEFINE t == Append(s, m)
<1> SUFFICES ASSUME NEW i \in 1..Len(s) + 1, NEW j \in 1..Len(s) + 1, i < j,
                    IsLine(t[i]), IsLine(t[j])
             PROVE  t[i][2] < t[j][2]
  BY <1>1 DEF InOrder
<1>2. i \in 1..Len(s) /\ t[i] = s[i] /\ s[i] \in LinesOf(ToSet(s))
  BY <1>1 DEF LinesOf, ToSet
<1>3. CASE j = Len(s) + 1
  BY <1>1, <1>2, <1>3
<1>4. CASE j \in 1..Len(s)
  BY <1>1, <1>2, <1>4 DEF InOrder
<1> QED
  BY <1>1, <1>3, <1>4

LEMMA OrderOfTail ==
    ASSUME NEW s \in Seq(Messages), s # <<>>, InOrder(s)
    PROVE  /\ InOrder(Tail(s))
           /\ IsLine(Head(s)) => \A b \in LinesOf(ToSet(Tail(s))) : Head(s)[2] < b[2]
<1>1. /\ Len(s) \in Nat \ {0} /\ Len(Tail(s)) = Len(s) - 1
      /\ \A i \in 1..Len(s) - 1 : Tail(s)[i] = s[i + 1]
      /\ Head(s) = s[1]
      /\ DOMAIN s = 1..Len(s) /\ DOMAIN Tail(s) = 1..Len(s) - 1
  OBVIOUS
<1>2. \A i \in 1..Len(s) - 1 : i + 1 \in DOMAIN s /\ 1 \in DOMAIN s /\ 1 < i + 1
  BY <1>1
<1>3. \A i, j \in 1..Len(s) - 1 : i < j => i + 1 < j + 1
  BY <1>1
<1>4. InOrder(Tail(s))
  BY <1>1, <1>2, <1>3 DEF InOrder
<1>5. ASSUME IsLine(Head(s)), NEW b \in LinesOf(ToSet(Tail(s))) PROVE Head(s)[2] < b[2]
  <2>1. PICK i \in 1..Len(s) - 1 : b = s[i + 1] /\ IsLine(b)
    BY <1>1 DEF LinesOf, ToSet
  <2> QED
    BY <1>1, <1>2, <1>5, <2>1 DEF InOrder
<1> QED
  BY <1>4, <1>5

\* A step of the tailer that sends nothing, ..
LEMMA NothingSent ==
    ASSUME Complete, Sorted, UNCHANGED <<logged, chan>>, 1..Sent' \ missed' = 1..Sent \ missed
    PROVE  Complete' /\ Sorted'
  BY DEF Complete, Sorted

\* .. one that sends a limit, ..
LEMMA LimitSent ==
    ASSUME LogTypeOK, Complete, Sorted, NEW r \in Reasons, chan' = Append(chan, Limit(r)),
           logged' = logged, 1..Sent' \ missed' = 1..Sent \ missed
    PROVE  Complete' /\ Sorted'
<1>1. Limit(r) \in Messages /\ ~IsLine(Limit(r))
  BY LimitMessage, LineIs
<1>2. ToSet(chan') = ToSet(chan) \cup {Limit(r)} /\ LinesOf(ToSet(chan')) = LinesOf(ToSet(chan))
  BY <1>1, SetOfAppend DEF LogTypeOK, LinesOf
<1>3. InOrder(chan')
  BY <1>1, OrderOfAppend DEF LogTypeOK, Sorted
<1>4. LinesOf(ToSet(logged) \cup ToSet(chan')) = LinesOf(ToSet(logged) \cup ToSet(chan))
  BY <1>1, <1>2 DEF LinesOf
<1> QED
  BY <1>2, <1>3, <1>4 DEF Complete, Sorted

\* .. and one that sends the next line.
LEMMA EventSent ==
    ASSUME LogTypeOK, Complete, Sorted, Sent \in Nat, Sent + 1 \notin missed,
           chan' = Append(chan, Event(Sent + 1)), UNCHANGED <<logged, missed>>, Sent' = Sent + 1
    PROVE  Complete' /\ Sorted'
<1> DEFINE e == Event(Sent + 1)
<1>1. e \in Messages /\ IsLine(e) /\ e[2] = Sent + 1
  BY EventMessage, LineIs
<1>2. ToSet(chan') = ToSet(chan) \cup {e} /\ LinesOf(ToSet(chan')) = LinesOf(ToSet(chan)) \cup {e}
  BY <1>1, SetOfAppend DEF LogTypeOK, LinesOf
<1>3. \A a \in LinesOf(ToSet(logged) \cup ToSet(chan)) : a[2] < Sent + 1
  <2>1. \A n \in 1..Sent \ missed : n < Sent + 1 /\ Event(n)[2] = n
    BY LineIs
  <2> QED
    BY <2>1 DEF Complete
<1>4. \A a \in LinesOf(ToSet(chan)) : a[2] < e[2]
  BY <1>1, <1>3 DEF LinesOf
<1>5. InOrder(chan')
  BY <1>1, <1>4, OrderOfAppend DEF LogTypeOK, Sorted
<1>6. \A a \in LinesOf(ToSet(logged)) : a[2] < e[2]
  BY <1>1, <1>3 DEF LinesOf
<1>7. Sorted'
  BY <1>2, <1>5, <1>6 DEF Sorted
<1>8. 1..Sent + 1 \ missed = (1..Sent \ missed) \cup {Sent + 1}
  OBVIOUS
<1>9. LinesOf(ToSet(logged) \cup ToSet(chan')) = LinesOf(ToSet(logged) \cup ToSet(chan)) \cup {e}
  BY <1>1, <1>2 DEF LinesOf
<1> QED
  BY <1>7, <1>8, <1>9 DEF Complete


LEMMA TailerKeepsTranscript ==
    ASSUME LogTypeOK, FileInv, OrderInv, TranscriptInv, TailerStep
    PROVE  TranscriptInv'
<1> USE DEF TranscriptInv, TailGoes
<1>1. UNCHANGED <<logged, session, exit>> /\ pos \in Nat /\ Len(session) \in Nat
  BY DEF TailerStep, TailFind, TailNoFile, TailTop, TailReadLine, TailReadPiece, TailTurns,
         TailTurnLimit, TailBudget, TailBudgetLimit, TailTell, TailDrain, agentVars, mainVars,
         FileInv
<1>2. CASE TailFind
  <2>1. /\ tpc = "find" /\ tpc' \in {"top", "ended"} /\ UNCHANGED <<pos, chan>> /\ pos = 0
        /\ \/ tpc' = "top" /\ missed' = missed
           \/ tpc' = "ended" /\ missed' = 1..MaxLines
    BY <1>2 DEF TailFind, FileInv
  <2>2. Sent = 0 /\ Sent' = 0
    BY <2>1 DEF Sent, MidLine
  <2>3. 1..Len(session) \subseteq 1..MaxLines
    BY BoundAssumption, <1>1 DEF FileInv
  <2>4. MissedInv'
    BY <1>1, <2>1, <2>2, <2>3 DEF MissedInv
  <2> QED
    BY <1>1, <2>1, <2>2, <2>4, NothingSent
<1>3. CASE TailNoFile
  <2>1. /\ tpc = "find" /\ tpc' = "ended" /\ UNCHANGED <<pos, chan, missed>>
        /\ session = <<>> /\ ~running
    BY <1>3 DEF TailNoFile, FileExists
  <2>2. Sent = pos /\ Sent' = pos
    BY <2>1 DEF Sent, MidLine
  <2>3. exit # "no" /\ 1..Len(session) = {}
    BY <2>1 DEF OrderInv
  <2>4. MissedInv'
    BY <1>1, <2>1, <2>2, <2>3 DEF MissedInv
  <2> QED
    BY <1>1, <2>1, <2>2, <2>4, NothingSent
<1>4. CASE TailTop \/ TailReadPiece
  <2>1. /\ tpc \in {"top", "read"} /\ tpc' \in {"top", "read", "drain"}
        /\ UNCHANGED <<pos, chan, missed>>
    BY <1>4 DEF TailTop, TailReadPiece
  <2>2. Sent = pos /\ Sent' = pos
    BY <2>1 DEF Sent, MidLine
  <2>3. MissedInv'
    BY <1>1, <2>1, <2>2 DEF MissedInv
  <2> QED
    BY <1>1, <2>1, <2>2, <2>3, NothingSent
<1>5. CASE TailReadLine
  <2>1. /\ tpc = "read" /\ pos' = pos + 1 /\ chan' = chan
        /\ \/ tpc' = "turns" /\ missed' = missed
           \/ tpc' = "top" /\ missed' = missed \cup {pos + 1}
    BY <1>5 DEF TailReadLine
  <2>2. Sent = pos /\ missed \subseteq 1..pos
    BY <2>1 DEF Sent, MidLine, MissedInv
  <2>3. CASE tpc' = "turns"
    <3>1. Sent' = pos /\ missed' = missed
      BY <1>1, <2>1, <2>3 DEF Sent, MidLine
    <3> QED
      BY <1>1, <2>1, <2>2, <2>3, <3>1, NothingSent DEF MissedInv
  <2>4. CASE tpc' = "top"
    <3>1. Sent' = pos + 1 /\ missed' = missed \cup {pos + 1}
      BY <2>1, <2>4 DEF Sent, MidLine
    <3>2. missed' \subseteq 1..Sent' /\ 1..Sent' \ missed' = 1..Sent \ missed
      BY <1>1, <2>2, <3>1
    <3> QED
      BY <1>1, <2>1, <2>4, <3>2, NothingSent DEF MissedInv
  <2> QED
    BY <2>1, <2>3, <2>4
<1>6. CASE TailTurns \/ TailBudget
  <2>1. /\ tpc \in MidLine /\ tpc' \in MidLine /\ UNCHANGED <<pos, chan, missed>>
        /\ tpc' # "ended"
    BY <1>6 DEF TailTurns, TailBudget, MidLine
  <2>2. Sent' = Sent
    BY <2>1 DEF Sent
  <2>3. MissedInv'
    BY <2>1, <2>2 DEF MissedInv, MidLine
  <2> QED
    BY <1>1, <2>1, <2>2, <2>3, NothingSent
<1>7. CASE TailTurnLimit \/ TailBudgetLimit
  <2>1. /\ tpc \in MidLine /\ tpc' \in MidLine /\ UNCHANGED <<pos, missed>>
        /\ tpc' # "ended"
        /\ \E r \in Reasons : chan' = Append(chan, Limit(r))
    BY <1>7 DEF TailTurnLimit, TailBudgetLimit, MidLine, Reasons
  <2>2. Sent' = Sent
    BY <2>1 DEF Sent
  <2>3. MissedInv'
    BY <2>1, <2>2 DEF MissedInv, MidLine
  <2> QED
    BY <1>1, <2>1, <2>2, <2>3, LimitSent
<1>8. CASE TailTell
  <2>1. /\ tpc = "tell" /\ tpc' = "top" /\ UNCHANGED <<pos, missed>>
        /\ chan' = Append(chan, Event(pos))
    BY <1>8 DEF TailTell
  <2>2. Sent = pos - 1 /\ Sent' = pos /\ pos > 0
    BY <2>1 DEF Sent, MidLine, FileInv
  <2>3. Sent \in Nat /\ Sent + 1 = pos /\ missed \subseteq 1..Sent
    BY <1>1, <2>1, <2>2 DEF MissedInv
  <2>4. MissedInv'
    BY <1>1, <2>1, <2>2, <2>3 DEF MissedInv
  <2>5. Sent + 1 \notin missed
    BY <2>3
  <2> QED
    BY <1>1, <2>1, <2>2, <2>3, <2>4, <2>5, EventSent
<1>9. CASE TailDrain
  <2>1. tpc = "drain" /\ Sent = pos /\ missed \subseteq 1..pos /\ exit # "no"
    BY <1>9 DEF TailDrain, Sent, MidLine, MissedInv, OrderInv
  <2>2. CASE pos < Len(session) /\ tpc' = "drain"
    <3>1. pos' = pos + 1 /\ chan' = Append(chan, Event(pos + 1)) /\ missed' = missed
      BY <1>9, <2>2 DEF TailDrain
    <3>2. Sent' = pos + 1
      BY <2>2, <3>1 DEF Sent, MidLine
    <3>3. MissedInv'
      BY <1>1, <2>1, <2>2, <3>1, <3>2 DEF MissedInv
    <3>4. Sent + 1 \notin missed
      BY <1>1, <2>1
    <3> QED
      BY <1>1, <2>1, <3>1, <3>2, <3>3, <3>4, EventSent
  <2>3. CASE tpc' = "ended"
    <3>1. UNCHANGED <<pos, chan>> /\ missed' = missed \cup pos + 1..Len(session)
      BY <1>9, <2>3 DEF TailDrain
    <3>2. Sent' = pos
      BY <2>3, <3>1 DEF Sent, MidLine
    <3>3. 1..Len(session) \ missed' \subseteq 1..pos /\ 1..pos \ missed' = 1..pos \ missed
      BY <1>1, <3>1
    <3>4. MissedInv'
      BY <1>1, <2>1, <2>3, <3>1, <3>3 DEF MissedInv
    <3> QED
      BY <1>1, <2>1, <3>1, <3>2, <3>3, <3>4, NothingSent
  <2> QED
    BY <1>9, <2>2, <2>3 DEF TailDrain
<1> QED
  BY <1>2, <1>3, <1>4, <1>5, <1>6, <1>7, <1>8, <1>9 DEF TailerStep

LEMMA MainKeepsTranscript ==
    ASSUME LimitInv, TranscriptInv, MainStep
    PROVE  TranscriptInv'
<1> USE DEF TranscriptInv, MainGoes, LimitInv
<1>1. UNCHANGED <<session, tpc, pos, missed>> /\ (exit # "no" => exit' # "no")
  BY DEF MainStep, MainWatchdog, MainReason, MainLimit, MainPoll, MainReceive, MainTryWait,
         MainKill, MainStop, MainJoin, MainDrain, MainReturn, agentVars, tailerVars
<1>2. Sent' = Sent /\ MissedInv'
  BY <1>1 DEF Sent, MissedInv
<1>3. ASSUME NEW r \in Reasons, logged' = Append(logged, Limit(r)), chan' = chan
      PROVE  Complete' /\ Sorted'
  <2>1. Limit(r) \in Messages /\ ~IsLine(Limit(r))
    BY LimitMessage, LineIs
  <2>2. ToSet(logged') = ToSet(logged) \cup {Limit(r)}
    BY <1>3, <2>1, SetOfAppend DEF LogTypeOK
  <2>3. /\ LinesOf(ToSet(logged')) = LinesOf(ToSet(logged))
        /\ LinesOf(ToSet(logged') \cup ToSet(chan)) = LinesOf(ToSet(logged) \cup ToSet(chan))
    BY <2>1, <2>2 DEF LinesOf
  <2>4. InOrder(logged')
    BY <1>3, <2>1, OrderOfAppend DEF LogTypeOK, Sorted
  <2> QED
    BY <1>1, <1>2, <1>3, <2>3, <2>4 DEF Complete, Sorted
<1>4. CASE MainWatchdog
  BY <1>2, <1>3, <1>4 DEF MainWatchdog, Reasons
<1>5. CASE MainLimit
  <2>1. limit_reason \in Reasons \cup {"none"} /\ chan' = chan
    BY <1>5 DEF MainLimit, LogTypeOK
  <2>2. logged' = logged \/ (limit_reason \in Reasons /\ logged' = Append(logged, Limit(limit_reason)))
    BY <1>5, <2>1 DEF MainLimit, Reasons
  <2> QED
    BY <1>1, <1>2, <1>3, <2>1, <2>2, NothingSent
<1>6. CASE MainReceive \/ MainDrain
  <2>1. chan # <<>> /\ logged' = Append(logged, Head(chan)) /\ chan' = Tail(chan)
    BY <1>6 DEF MainReceive, MainDrain
  <2>2. Head(chan) \in Messages /\ ToSet(logged') = ToSet(logged) \cup {Head(chan)}
    BY <2>1, TakeMessage, SetOfAppend DEF LogTypeOK
  <2>3. ToSet(chan) = {Head(chan)} \cup ToSet(chan')
    BY <2>1, SetOfTail DEF LogTypeOK
  <2>4. Complete'
    BY <1>1, <1>2, <2>2, <2>3 DEF Complete
  <2>5. Head(chan) \in ToSet(chan)
    BY <2>3
  <2>6. InOrder(logged')
    BY <2>1, <2>2, <2>5, OrderOfAppend DEF LogTypeOK, Sorted, LinesOf
  <2>7. InOrder(chan') /\ (IsLine(Head(chan)) => \A b \in LinesOf(ToSet(chan')) : Head(chan)[2] < b[2])
    BY <2>1, OrderOfTail DEF LogTypeOK, Sorted
  <2>8. \A a \in LinesOf(ToSet(logged')), b \in LinesOf(ToSet(chan')) : a[2] < b[2]
    BY <2>2, <2>3, <2>7 DEF Sorted, LinesOf
  <2> QED
    BY <1>2, <2>4, <2>6, <2>7, <2>8 DEF Sorted
<1>7. CASE MainReason \/ MainPoll \/ MainTryWait \/ MainKill \/ MainStop \/ MainJoin \/ MainReturn
  <2>1. UNCHANGED <<logged, chan>>
    BY <1>7 DEF MainReason, MainPoll, MainTryWait, MainKill, MainStop, MainJoin, MainReturn
  <2> QED
    BY <1>1, <1>2, <2>1, NothingSent
<1> QED
  BY <1>4, <1>5, <1>6, <1>7 DEF MainStep

LEMMA TranscriptInvariant == Spec => []TranscriptInv
<1>1. Init => TranscriptInv
  <2> SUFFICES ASSUME Init PROVE TranscriptInv
    OBVIOUS
  <2>1. ToSet(logged) = {} /\ ToSet(chan) = {} /\ Sent = 0 /\ missed = {}
    BY DEF Init, ToSet, Sent, MidLine
  <2>2. 1..0 = {}
    OBVIOUS
  <2>3. InOrder(logged) /\ InOrder(chan)
    BY DEF Init, InOrder
  <2>4. MissedInv
    BY <2>1 DEF Init, MissedInv
  <2> QED
    BY <2>1, <2>2, <2>3, <2>4 DEF TranscriptInv, Complete, Sorted, LinesOf
<1>2. LimitInv /\ FileInv /\ OrderInv /\ TranscriptInv /\ [Next]_vars => TranscriptInv'
  <2> SUFFICES ASSUME LimitInv, FileInv, OrderInv, TranscriptInv, [Next]_vars
               PROVE  TranscriptInv'
    OBVIOUS
  <2>1. CASE TailerStep
    BY <2>1, TailerKeepsTranscript DEF LimitInv
  <2>2. CASE MainStep
    BY <2>2, MainKeepsTranscript
  <2>3. CASE AgentWrites \/ AgentExits \/ Clock \/ UNCHANGED vars
    <3>1. UNCHANGED <<logged, chan, pos, tpc, missed>> /\ (exit # "no" => exit' # "no")
      BY <2>3 DEF AgentWrites, AgentExits, Clock, vars, agentVars, tailerVars, mainVars
    <3>2. Sent' = Sent
      BY <3>1 DEF Sent
    <3>3. tpc = "ended" => 1..Len(session') \ missed \subseteq 1..pos
      <4>1. CASE exit # "no"
        <5>1. session' = session
          BY <2>3, <4>1 DEF AgentWrites, AgentExits, Clock, vars, agentVars
        <5> QED
          BY <5>1 DEF TranscriptInv, MissedInv
      <4>2. CASE exit = "no"
        <5>1. Len(session') \in Nat /\ Len(session') <= MaxLines
          BY <2>3, BoundAssumption DEF AgentWrites, AgentExits, Clock, vars, agentVars, FileInv
        <5>2. 1..Len(session') \subseteq 1..MaxLines
          BY <5>1, BoundAssumption
        <5> QED
          BY <4>2, <5>2 DEF TranscriptInv, MissedInv
      <4> QED
        BY <4>1, <4>2
    <3>4. MissedInv'
      BY <3>1, <3>2, <3>3 DEF TranscriptInv, MissedInv
    <3> QED
      BY <3>1, <3>2, <3>4, NothingSent DEF TranscriptInv
  <2> QED
    BY <2>1, <2>2, <2>3 DEF Next
<1> QED
  BY <1>1, <1>2, LimitInvariant, FileInvariant, OrderInvariant, PTL DEF Spec

\* The log of a finished session has each complete line of the session file
\* that no read error took away, once and in the order of the file.
THEOREM TranscriptTheorem == Spec => []TranscriptComplete
<1>1. OrderInv /\ FileInv /\ TranscriptInv => TranscriptComplete
  <2> SUFFICES ASSUME OrderInv, FileInv, TranscriptInv, Done
               PROVE  /\ LinesOf(ToSet(logged)) = {Event(n) : n \in 1..Len(session) \ missed}
                      /\ InOrder(logged)
    BY DEF TranscriptComplete
  <2>1. chan = <<>> /\ tpc = "ended"
    BY DEF OrderInv, Done
  <2>2. ToSet(chan) = {} /\ Sent = pos
    BY <2>1 DEF ToSet, Sent, MidLine
  <2>3. 1..pos \ missed = 1..Len(session) \ missed
    BY <2>1 DEF TranscriptInv, MissedInv, FileInv
  <2> QED
    BY <2>2, <2>3 DEF TranscriptInv, Complete, Sorted
<1> QED
  BY <1>1, OrderInvariant, FileInvariant, TranscriptInvariant, PTL
=============================================================================
