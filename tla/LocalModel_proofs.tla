------------------------- MODULE LocalModel_proofs --------------------------
(***************************************************************************)
(* Proofs about LlamaServer and ToolNormalizer: the local model's server   *)
(* and the proxy in front of it.                                           *)
(***************************************************************************)
EXTENDS LlamaServer, ToolNormalizer, FiniteSetTheorems, WellFoundedInduction, TLAPS

----------------------------------------------------------------------------
(* LlamaServer.                                                            *)

\* Until a stop: the active run holds busy, it is the only one, and nobody
\* has lost the container to another run.
Alone ==
    /\ Active # {} => busy
    /\ \A r, s \in Active : r = s
    /\ evicted = {}

Places == {"new", "ask", "ensure", "look", "decide", "poll", "agent"} \cup Over

IInv ==
    /\ pc \in [Runs -> Places]
    /\ stops \in Nat
    /\ stops = 0 => Alone

THEOREM InitAlone == Init => IInv
<1> SUFFICES ASSUME Init PROVE IInv
  OBVIOUS
<1>1. pc \in [Runs -> Places] /\ stops \in Nat /\ evicted = {}
  BY DEF Init, Places, Over
<1>2. Active = {}
  BY DEF Init, Active
<1> QED
  BY <1>1, <1>2 DEF IInv, Alone

\* A step that lets nobody in, and frees busy only when nobody is left.
LEMMA NobodyEnters ==
    ASSUME IInv, pc' \in [Runs -> Places], stops' = stops,
           Active' \subseteq Active, evicted' \subseteq evicted,
           busy' = busy \/ Active' = {}
    PROVE  IInv'
<1>1. ASSUME stops = 0 PROVE Alone'
  BY <1>1 DEF IInv, Alone
<1> QED
  BY <1>1 DEF IInv

\* What moving one run does to the set of active runs.
LEMMA Moved ==
    ASSUME IInv, NEW r \in Runs, NEW from \in Places, NEW to \in Places,
           Goes(r, from, to)
    PROVE  /\ pc' \in [Runs -> Places]
           /\ from \notin Over \cup {"new"} => r \in Active /\ Active' \subseteq Active
           /\ to \in Over => Active' = Active \ {r}
           /\ Active' \subseteq Active \cup {r}
<1>1. pc' = [pc EXCEPT ![r] = to] /\ pc[r] = from /\ pc \in [Runs -> Places]
  BY DEF Goes, IInv
<1>2. pc' \in [Runs -> Places]
  BY <1>1
<1>3. \A s \in Runs : pc'[s] = IF s = r THEN to ELSE pc[s]
  BY <1>1
<1>4. Active' = {s \in Runs : pc'[s] \notin Over \cup {"new"}}
  BY DEF Active, Over
<1> QED
  BY <1>1, <1>2, <1>3, <1>4 DEF Active

\* An active run that changes the container before the first stop takes it
\* from nobody.
LEMMA TakesFromNobody ==
    ASSUME IInv, NEW r \in Runs, r \in Active, stops = 0,
           evicted' = evicted \cup (Active \ {r})
    PROVE  evicted' \subseteq evicted
  BY DEF IInv, Alone

THEOREM NextAlone == IInv /\ [Next]_vars => IInv'
<1> SUFFICES ASSUME IInv, [Next]_vars PROVE IInv'
  OBVIOUS
<1>1. ASSUME NEW r \in Runs, Accept(r) PROVE IInv'
  <2>1. Goes(r, "new", "ask") /\ ~busy /\ busy' /\ stops' = stops /\ evicted' = evicted
    BY <1>1 DEF Accept, historyVars
  <2>2. pc' \in [Runs -> Places] /\ Active' \subseteq Active \cup {r}
    BY <2>1, Moved DEF Places
  <2>3. ASSUME stops = 0 PROVE Alone'
    <3>1. Active = {} /\ evicted = {}
      BY <2>1, <2>3 DEF IInv, Alone
    <3> QED
      BY <2>1, <2>2, <3>1 DEF Alone
  <2> QED
    BY <2>1, <2>2, <2>3 DEF IInv
<1>2. ASSUME NEW r \in Runs, RunStep(r) PROVE IInv'
  <2>1. CASE Ask(r) \/ Keep(r) \/ Look(r) \/ Ready(r) \/ Poll(r)
    <3>1. PICK from \in Places \ (Over \cup {"new"}), to \in Places : Goes(r, from, to)
      BY <2>1 DEF Ask, Keep, Look, Ready, Poll, Over, Places
    <3>2. busy' = busy /\ stops' = stops /\ evicted' = evicted
      BY <2>1 DEF Ask, Keep, Look, Ready, Poll, historyVars
    <3> QED
      BY <3>1, <3>2, Moved, NobodyEnters
  <2>2. CASE Finish(r)
    <3>1. Goes(r, "agent", "ended") /\ stops' = stops /\ evicted' = evicted
      BY <2>2 DEF Finish, historyVars
    <3>2. pc' \in [Runs -> Places] /\ r \in Active /\ Active' = Active \ {r}
      BY <3>1, Moved DEF Over, Places
    <3>3. ASSUME stops = 0 PROVE Alone'
      BY <3>1, <3>2, <3>3 DEF IInv, Alone
    <3> QED
      BY <3>1, <3>2, <3>3 DEF IInv
  <2>3. CASE Replace(r)
    <3>1. PICK to \in {"failed", "look"} :
            /\ Goes(r, "ensure", to)
            /\ to = "look" => busy' = busy
      BY <2>3 DEF Replace
    <3>2. stops' = stops /\ evicted' = evicted \cup (Active \ {r})
      BY <2>3 DEF Replace
    <3>3. /\ pc' \in [Runs -> Places] /\ r \in Active /\ Active' \subseteq Active
          /\ to = "failed" => Active' = Active \ {r}
      BY <3>1, Moved DEF Over, Places
    <3>4. ASSUME stops = 0 PROVE Alone'
      <4>1. evicted' \subseteq evicted
        BY <3>2, <3>3, <3>4, TakesFromNobody
      <4> QED
        BY <3>1, <3>2, <3>3, <3>4, <4>1 DEF IInv, Alone
    <3> QED
      BY <3>2, <3>3, <3>4 DEF IInv
  <2>4. CASE StartAgain(r)
    <3>1. /\ Goes(r, "decide", "poll") /\ busy' = busy /\ stops' = stops
          /\ evicted' = evicted \cup (Active \ {r})
      BY <2>4 DEF StartAgain
    <3>2. pc' \in [Runs -> Places] /\ r \in Active /\ Active' \subseteq Active
      BY <3>1, Moved DEF Over, Places
    <3>3. ASSUME stops = 0 PROVE Alone'
      <4>1. evicted' \subseteq evicted
        BY <3>1, <3>2, <3>3, TakesFromNobody
      <4> QED
        BY <3>1, <3>2, <3>3, <4>1 DEF IInv, Alone
    <3> QED
      BY <3>1, <3>2, <3>3 DEF IInv
  <2> QED
    BY <1>2, <2>1, <2>2, <2>3, <2>4 DEF RunStep
<1>3. CASE Loads \/ ButtonStart \/ ButtonStop
  <2>1. pc' = pc /\ busy' = busy /\ stops' = stops /\ evicted' = evicted
    BY <1>3 DEF Loads, ButtonStart, ButtonStop, runVars, historyVars
  <2> QED
    BY <2>1 DEF IInv, Alone, Active
<1>4. CASE StopRun
  <2>1. stops' = stops + 1 /\ pc' \in [Runs -> Places]
    BY <1>4 DEF StopRun, IInv, Places, Over
  <2>2. stops' \in Nat /\ stops' # 0
    BY <2>1 DEF IInv
  <2> QED
    BY <2>1, <2>2 DEF IInv
<1>5. CASE UNCHANGED vars
  BY <1>5 DEF vars, runVars, historyVars, IInv, Alone, Active
<1> QED
  BY <1>1, <1>2, <1>3, <1>4, <1>5 DEF Next

\* The container is never taken from a run by another one before the first
\* stop, whatever models are asked for and whatever the page's buttons do.
THEOREM EvictionTheorem == Spec => []EvictionNeedsStop
<1>1. IInv => EvictionNeedsStop
  BY DEF IInv, Alone, EvictionNeedsStop
<1> QED
  BY <1>1, InitAlone, NextAlone, PTL DEF Spec

-----------------------------------------------------------------------------
(* The model that is measured. *)

\* Every model that is asked for resolves to its own preset, and no other model
\* that may be running passes for it.  (Of the presets, qwen2.5-coder-7b does not
\* keep this beside deepseek-coder-6.7b and starcoder2-7b, which never do, nor
\* does "local-llama".)
Distinct ==
    \A m \in Asked :
        /\ m \in Repos /\ Target(m) = m
        /\ \A other \in Asked \cup Buttons : Matches(other, m) => other = m

Untouched == Runs \ (disturbed \cup evicted)

\* The status answers of a run and the container, as long as nobody else has
\* changed it: an answer that names a model is still true when it is acted on,
\* and from then on the server has the model or is gone.
ModelInv ==
    /\ model \in [Runs -> Asked]
    /\ pc \in [Runs -> Places]
    /\ seen \in [Runs -> Asked \cup Buttons \cup {"none", "unknown", "down"}]
    /\ server \in Asked \cup Buttons \cup {"none"}
    /\ \A r \in Untouched :
        /\ pc[r] = "ensure" /\ seen[r] \in Repos => server = seen[r]
        /\ pc[r] \in {"look", "decide", "poll", "agent"} => server \in {"none", model[r]}

\* A step of one run that leaves the container alone.
LEMMA ServerKept ==
    ASSUME ModelInv, NEW r \in Runs, NEW from \in Places, NEW to \in Places,
           Goes(r, from, to), UNCHANGED <<server, model, disturbed, evicted>>,
           \A s \in Runs \ {r} : seen'[s] = seen[s],
           seen' \in [Runs -> Asked \cup Buttons \cup {"none", "unknown", "down"}],
           r \in Untouched =>
             /\ to = "ensure" /\ seen'[r] \in Repos => server = seen'[r]
             /\ to \in {"look", "decide", "poll", "agent"} => server \in {"none", model[r]}
    PROVE  ModelInv'
<1>1. pc' = [pc EXCEPT ![r] = to]
  BY DEF Goes
<1>2. /\ pc' \in [Runs -> Places] /\ pc'[r] = to
      /\ \A s \in Runs \ {r} : pc'[s] = pc[s]
  BY <1>1 DEF ModelInv
<1>3. Untouched' = Untouched
  BY DEF Untouched
<1>4. ASSUME NEW s \in Untouched
      PROVE  /\ pc'[s] = "ensure" /\ seen'[s] \in Repos => server = seen'[s]
             /\ pc'[s] \in {"look", "decide", "poll", "agent"} => server \in {"none", model[s]}
  <2>1. CASE s = r
    BY <1>2, <1>4, <2>1
  <2>2. CASE s # r
    BY <1>2, <2>2 DEF ModelInv, Untouched
  <2> QED
    BY <2>1, <2>2
<1> QED
  BY <1>2, <1>3, <1>4 DEF ModelInv

\* A step that changes the container, known to all runs that are active.
LEMMA ServerChanged ==
    ASSUME ModelInv, NEW S \in SUBSET Runs,
           Untouched' \subseteq Untouched \ (Active \ S),
           pc' \in [Runs -> Places], UNCHANGED <<model, seen>>,
           server' \in Asked \cup Buttons \cup {"none"},
           \A s \in Runs \ S : pc'[s] = pc[s],
           \A s \in S : pc'[s] # "ensure" /\ server' \in {"none", model[s]}
    PROVE  ModelInv'
<1>1. ASSUME NEW s \in Untouched'
      PROVE  /\ pc'[s] = "ensure" /\ seen'[s] \in Repos => server' = seen'[s]
             /\ pc'[s] \in {"look", "decide", "poll", "agent"} => server' \in {"none", model'[s]}
  <2>1. s \in Runs
    BY DEF Untouched
  <2>2. CASE s \in S
    BY <2>2
  <2>3. CASE s \notin S
    BY <2>1, <2>3 DEF Active, Over
  <2> QED
    BY <2>2, <2>3
<1> QED
  BY <1>1 DEF ModelInv

LEMMA ModelInvariant == ASSUME Distinct PROVE Spec => []ModelInv
<1>1. Init => ModelInv
  <2> SUFFICES ASSUME Init PROVE ModelInv
    OBVIOUS
  <2>1. pc \in [Runs -> Places] /\ \A r \in Runs : pc[r] = "new"
    BY DEF Init, Places
  <2>2. /\ model \in [Runs -> Asked] /\ server = "none"
        /\ seen \in [Runs -> Asked \cup Buttons \cup {"none", "unknown", "down"}]
    BY DEF Init
  <2> QED
    BY <2>1, <2>2 DEF ModelInv, Untouched
<1>2. ModelInv /\ [Next]_vars => ModelInv'
  <2> SUFFICES ASSUME ModelInv, [Next]_vars PROVE ModelInv'
    OBVIOUS
  <2>0. /\ "none" \notin Repos /\ "unknown" \notin Repos /\ "down" \notin Repos
        /\ {"new", "ask", "ensure", "look", "decide", "poll", "agent", "ended", "failed", "dropped"}
             \subseteq Places
    BY DEF Repos, Places, Over
  <2>1. ASSUME NEW r \in Runs, Accept(r) PROVE ModelInv'
    BY <2>0, <2>1, ServerKept DEF Accept, serverVars, historyVars, ModelInv
  <2>2. ASSUME NEW r \in Runs, Ask(r) PROVE ModelInv'
    <3>1. PICK answer \in Answer : seen' = [seen EXCEPT ![r] = answer]
      BY <2>2 DEF Ask
    <3>2. /\ answer \in Asked \cup Buttons \cup {"none", "unknown", "down"}
          /\ answer \in Repos => server = answer
      BY <2>0, <3>1 DEF Answer, ModelInv
    <3> QED
      BY <2>0, <2>2, <3>1, <3>2, ServerKept DEF Ask, serverVars, historyVars, ModelInv
  <2>3. ASSUME NEW r \in Runs, Keep(r) PROVE ModelInv'
    <3>1. Matches(seen[r], Target(model[r])) /\ Goes(r, "ensure", "look")
      BY <2>3 DEF Keep
    <3>2. model[r] \in Asked /\ Target(model[r]) = model[r]
      BY DEF ModelInv, Distinct
    <3>3. seen[r] \in Repos /\ seen[r] \in Asked \cup Buttons
      BY <2>0, <3>1 DEF Matches, ModelInv
    <3>4. seen[r] = model[r]
      BY <3>1, <3>2, <3>3 DEF Distinct
    <3>5. r \in Untouched => server = model[r]
      BY <3>1, <3>3, <3>4 DEF ModelInv, Goes
    <3> QED
      BY <2>0, <2>3, <3>1, <3>5, ServerKept DEF Keep, serverVars, historyVars, ModelInv
  <2>4. ASSUME NEW r \in Runs, Replace(r) PROVE ModelInv'
    <3>1. PICK to \in {"failed", "look"} : Goes(r, "ensure", to)
      BY <2>4 DEF Replace
    <3>2. model[r] \in Asked /\ Target(model[r]) = model[r]
      BY DEF ModelInv, Distinct
    <3>3. server' \in {model[r], "none"}
      BY <2>4, <3>2 DEF Replace, Restarted
    <3>4. /\ pc' \in [Runs -> Places] /\ pc'[r] = to
          /\ \A s \in Runs \ {r} : pc'[s] = pc[s]
      BY <2>0, <3>1 DEF Goes, ModelInv
    <3>5. UNCHANGED <<model, seen>> /\ Untouched' \subseteq Untouched \ (Active \ {r})
      BY <2>4 DEF Replace, Untouched
    <3> QED
      BY <3>2, <3>3, <3>4, <3>5, ServerChanged
  <2>5. ASSUME NEW r \in Runs, StartAgain(r) PROVE ModelInv'
    <3>1. Goes(r, "decide", "poll")
      BY <2>5 DEF StartAgain
    <3>2. model[r] \in Asked
      BY DEF ModelInv
    <3>3. server' \in {model[r], "none"}
      BY <2>5 DEF StartAgain, Restarted
    <3>4. /\ pc' \in [Runs -> Places] /\ pc'[r] = "poll"
          /\ \A s \in Runs \ {r} : pc'[s] = pc[s]
      BY <2>0, <3>1 DEF Goes, ModelInv
    <3>5. UNCHANGED <<model, seen>> /\ Untouched' \subseteq Untouched \ (Active \ {r})
      BY <2>5 DEF StartAgain, Untouched
    <3> QED
      BY <3>2, <3>3, <3>4, <3>5, ServerChanged
  <2>6. ASSUME NEW r \in Runs, Look(r) PROVE ModelInv'
    <3>1. PICK answer \in Answer : seen' = [seen EXCEPT ![r] = answer]
      BY <2>6 DEF Look
    <3>2. answer \in Asked \cup Buttons \cup {"none", "unknown", "down"}
      BY <3>1 DEF Answer, ModelInv
    <3>3. r \in Untouched => server \in {"none", model[r]}
      BY <2>6 DEF Look, Goes, ModelInv
    <3> QED
      BY <2>0, <2>6, <3>1, <3>2, <3>3, ServerKept DEF Look, serverVars, historyVars, ModelInv
  <2>7. ASSUME NEW r \in Runs, Ready(r) \/ Poll(r) \/ Finish(r) PROVE ModelInv'
    <3>1. PICK from \in {"decide", "poll", "agent"}, to \in {"poll", "agent", "ended"} :
            Goes(r, from, to)
      BY <2>7 DEF Ready, Poll, Finish
    <3>2. UNCHANGED <<server, model, seen, disturbed, evicted>>
      BY <2>7 DEF Ready, Poll, Finish, serverVars, historyVars
    <3>3. r \in Untouched => server \in {"none", model[r]}
      BY <3>1 DEF Goes, ModelInv
    <3> QED
      BY <2>0, <3>1, <3>2, <3>3, ServerKept DEF ModelInv
  <2>8. CASE ButtonStart \/ ButtonStop
    <3>1. /\ Untouched' \subseteq Untouched \ Active
          /\ UNCHANGED <<pc, model, seen>>
          /\ server' \in Buttons \cup {"none"}
      BY <2>8 DEF ButtonStart, ButtonStop, Click, Restarted, runVars, Untouched
    <3>2. /\ {} \in SUBSET Runs
          /\ Untouched' \subseteq Untouched \ (Active \ {})
          /\ \A s \in Runs \ {} : pc'[s] = pc[s]
          /\ \A s \in {} : pc'[s] # "ensure" /\ server' \in {"none", model[s]}
          /\ pc' \in [Runs -> Places]
          /\ server' \in Asked \cup Buttons \cup {"none"}
      BY <3>1 DEF ModelInv
    <3> QED
      BY <3>1, <3>2, ServerChanged
  <2>9. CASE Loads
    BY <2>9 DEF Loads, runVars, historyVars, ModelInv, Untouched
  <2>10. CASE StopRun
    <3>1. /\ UNCHANGED <<server, model, seen, Untouched>>
          /\ \A s \in Runs : pc'[s] \in {pc[s], "dropped"}
          /\ pc' \in [Runs -> Places]
      BY <2>0, <2>10 DEF StopRun, serverVars, Untouched, ModelInv
    <3> QED
      BY <3>1 DEF ModelInv, Untouched
  <2>11. CASE UNCHANGED vars
    BY <2>11 DEF vars, serverVars, runVars, historyVars, ModelInv, Untouched
  <2> QED
    BY <2>1, <2>2, <2>3, <2>4, <2>5, <2>6, <2>7, <2>8, <2>9, <2>10, <2>11 DEF Next, RunStep
<1> QED
  BY <1>1, <1>2, PTL DEF Spec

\* When the agent of a run works and nobody has touched the container, the
\* server has the model the run asked for, or docker could not start it.
THEOREM ModelTheorem == ASSUME Distinct PROVE Spec => []RightModel
<1>1. ModelInv => RightModel
  BY DEF ModelInv, RightModel, Untouched, Distinct
<1> QED
  BY <1>1, ModelInvariant, PTL

----------------------------------------------------------------------------
(* ToolNormalizer: what is extracted.                                      *)

\* a set of numbers that is not empty has a least element
LEMMA Least ==
    ASSUME NEW S \in SUBSET Nat, S # {}
    PROVE  \E m \in S : \A k \in S : m <= k
<1>1. PICK m \in S : \A y \in S : ~ (<<y, m>> \in OpToRel(<, Nat))
  BY NatLessThanWellFounded, WFMin
<1>2. \A y \in S : ~(y < m)
  BY <1>1 DEF OpToRel
<1> QED
  BY <1>2

Rising(q) == \A i, j \in DOMAIN q : i < j => q[i] < q[j]

\* Positions can be put in order.
LEMMA OrderExists ==
    \A n \in Nat : \A P \in SUBSET (1..n) : \E q \in [1..Cardinality(P) -> P] : Rising(q)
<1> DEFINE Good(n) == \A P \in SUBSET (1..n) : \E q \in [1..Cardinality(P) -> P] : Rising(q)
           Bad == {n \in Nat : ~Good(n)}
<1> SUFFICES ASSUME Bad # {} PROVE FALSE
  OBVIOUS
<1>0. Bad \in SUBSET Nat
  OBVIOUS
<1>1. PICK n \in Bad : \A j \in Bad : n <= j
  BY <1>0, Least
<1>2. PICK P \in SUBSET (1..n) : ~ \E q \in [1..Cardinality(P) -> P] : Rising(q)
  BY <1>1
<1>3. n \in Nat /\ IsFiniteSet(P)
  <2>1. n \in Nat /\ IsFiniteSet(1..n)
    BY <1>1, FS_Interval
  <2> QED
    BY <2>1, FS_Subset
<1>4. CASE n \notin P
  <2>1. CASE n = 0
    <3>1. P = {}
      BY <2>1
    <3>2. Cardinality(P) = 0
      BY <3>1, FS_EmptySet
    <3> DEFINE q == [i \in 1..0 |-> 0]
    <3>3. q \in [1..Cardinality(P) -> P] /\ Rising(q)
      BY <3>2 DEF Rising
    <3> QED
      BY <1>2, <3>3
  <2>2. CASE n # 0
    <3>1. n - 1 \in Nat /\ n - 1 \notin Bad
      <4>1. n - 1 \in Nat /\ ~(n <= n - 1)
        BY <1>3, <2>2
      <4> QED
        BY <1>1, <4>1
    <3>2. P \in SUBSET (1..(n - 1))
      BY <1>3, <1>4, <2>2
    <3> QED
      BY <1>2, <3>1, <3>2
  <2> QED
    BY <2>1, <2>2
<1>5. CASE n \in P
  <2> DEFINE R == P \ {n}
             m == Cardinality(R)
  <2>1. n - 1 \in Nat /\ n - 1 \notin Bad
    BY <1>1, <1>3, <1>5
  <2>2. R \in SUBSET (1..(n - 1))
    BY <1>3
  <2>3. PICK r \in [1..m -> R] : Rising(r)
    BY <2>1, <2>2
  <2>4. m \in Nat /\ Cardinality(P) = m + 1
    <3>1. IsFiniteSet(R) /\ m = Cardinality(P) - 1
      BY <1>3, <1>5, FS_RemoveElement
    <3>2. m \in Nat /\ Cardinality(P) \in Nat
      BY <1>3, <3>1, FS_CardinalityType
    <3> QED
      BY <3>1, <3>2
  <2> HIDE DEF m
  <2> DEFINE q == [i \in 1..(m + 1) |-> IF i = m + 1 THEN n ELSE r[i]]
  <2>5. q \in [1..Cardinality(P) -> P]
    BY <1>5, <2>3, <2>4
  <2>6. Rising(q)
    <3> SUFFICES ASSUME NEW i \in 1..(m + 1), NEW j \in 1..(m + 1), i < j PROVE q[i] < q[j]
      BY DEF Rising
    <3>1. i \in 1..m /\ q[i] = r[i] /\ r[i] \in 1..(n - 1)
      <4>1. i \in 1..m
        BY <2>4
      <4>2. q[i] = r[i]
        BY <2>4, <4>1
      <4>3. r[i] \in R
        BY <2>3, <4>1
      <4> QED
        BY <2>2, <4>1, <4>2, <4>3
    <3>2. CASE j = m + 1
      BY <1>3, <3>1, <3>2
    <3>3. CASE j # m + 1
      <4>1. j \in 1..m /\ q[j] = r[j]
        BY <2>4, <3>3
      <4> QED
        BY <2>3, <3>1, <4>1 DEF Rising
    <3> QED
      BY <3>2, <3>3
  <2> QED
    BY <1>2, <2>5, <2>6
<1> QED
  BY <1>4, <1>5

\* InOrder lists each position once.
LEMMA InOrderLists ==
    ASSUME NEW n \in Nat, NEW P \in SUBSET (1..n)
    PROVE  /\ Cardinality(P) \in Nat
           /\ InOrder(P) \in [1..Cardinality(P) -> P]
           /\ Rising(InOrder(P))
           /\ \A i \in P : \E j \in 1..Cardinality(P) : InOrder(P)[j] = i
           /\ Cardinality(P) = 0 <=> P = {}
<1> DEFINE q == InOrder(P)
           m == Cardinality(P)
<1>0. \A i \in P : i \in Nat
  OBVIOUS
<1>1. IsFiniteSet(P) /\ m \in Nat
  <2>1. IsFiniteSet(1..n)
    BY FS_Interval
  <2> QED
    BY <2>1, FS_Subset, FS_CardinalityType
<1>2. q \in [1..m -> P] /\ Rising(q)
  BY OrderExists DEF InOrder, Rising
<1> HIDE DEF q
<1>3. IsFiniteSet(1..m) /\ Cardinality(1..m) = m
  BY <1>1, FS_Interval
<1>4. q \in Injection(1..m, P)
  <2>1. ASSUME NEW i \in 1..m, NEW j \in 1..m, q[i] = q[j] PROVE i = j
    <3>1. q[i] \in P /\ q[j] \in P
      BY <1>2, Zenon
    <3>a. q[i] \in Nat /\ q[j] \in Nat
      BY <1>0, <3>1, Zenon
    <3>2. ~(i < j) /\ ~(j < i)
      BY <1>2, <2>1, <3>a DEF Rising
    <3> QED
      BY <1>1, <3>2
  <2> QED
    BY <1>2, <2>1 DEF Injection, IsInjective
<1>5. q \in Surjection(1..m, P)
  BY <1>1, <1>3, <1>4, FS_Injection
<1>6. \A i \in P : \E j \in 1..m : q[j] = i
  BY <1>5 DEF Surjection
<1> QED
  BY <1>1, <1>2, <1>6, FS_EmptySet DEF q

\* a call wrapped in no more than one command
Shallow(call) == Len(call.content.paths) <= 1

\* A wrapped content is unwrapped by one command.
LEMMA ParsePseudoWriteIs ==
    ASSUME NEW c \in Contents
    PROVE  /\ c.paths = <<>> => ParsePseudoWrite(c) = None
           /\ c.paths # <<>> =>
                 /\ ParsePseudoWrite(c) # None
                 /\ ParsePseudoWrite(c).path \in Paths \cup {None}
                 /\ ParsePseudoWrite(c).path = Head(c.paths)
                 /\ ParsePseudoWrite(c).content \in Contents
                 /\ ParsePseudoWrite(c).content.body = c.body
                 /\ Len(c.paths) <= 1 => ParsePseudoWrite(c).content.paths = <<>>
<1>1. CASE c.paths = <<>>
  BY <1>1 DEF ParsePseudoWrite
<1>2. CASE c.paths # <<>>
  <2> DEFINE w == [path |-> Head(c.paths), content |-> Wrapped(Tail(c.paths), c.body)]
  <2>1. ParsePseudoWrite(c) = w
    BY <1>2 DEF ParsePseudoWrite
  <2>2. c.paths \in Seq(Paths \cup {None}) /\ c.body \in Bodies
    BY DEF Contents
  <2>3. Head(c.paths) \in Paths \cup {None} /\ Tail(c.paths) \in Seq(Paths \cup {None})
    BY <1>2, <2>2
  <2>4. Wrapped(Tail(c.paths), c.body) \in Contents
    BY <2>2, <2>3 DEF Contents, Wrapped
  <2>5. w \in [path : Paths \cup {None}, content : Contents]
    BY <2>3, <2>4
  <2>6. w # None
    BY <2>5, ValuesAssumption
  <2>7. Len(c.paths) <= 1 => Tail(c.paths) = <<>>
    BY <1>2, <2>2
  <2> QED
    BY <1>2, <2>1, <2>3, <2>4, <2>6, <2>7 DEF Wrapped
<1> QED
  BY <1>1, <1>2

LEMMA CleanIsPath ==
    ASSUME NEW path \in Paths PROVE Clean(path) \in Paths
  BY ValuesAssumption DEF Clean

\* A sanitized call is the same call, with its content unwrapped once.
LEMMA SanitizeToolCallIs ==
    ASSUME NEW call \in ToolCalls
    PROVE  LET s == SanitizeToolCall(call)
           IN  /\ s \in ToolCalls
               /\ s.name = call.name /\ s.readable = call.readable
               /\ s.content.body = call.content.body
               /\ call.content.paths = <<>> => s = call
               /\ call.name # "write" \/ ~call.readable => s = call
               /\ call.name = "write" /\ call.readable /\ Shallow(call) => s.content.paths = <<>>
<1> DEFINE w == ParsePseudoWrite(call.content)
           s == SanitizeToolCall(call)
<1>1. call.content \in Contents /\ call.path \in Paths \cup {None} /\ call.name \in Tools /\ call.readable \in BOOLEAN
  BY DEF ToolCalls
<1>2. CASE call.name # "write" \/ ~call.readable \/ w = None
  <2>1. s = call
    BY <1>2 DEF SanitizeToolCall
  <2>2. w = None => call.content.paths = <<>>
    BY <1>1, ParsePseudoWriteIs
  <2> QED
    BY <1>2, <2>1, <2>2
<1>3. CASE ~(call.name # "write" \/ ~call.readable \/ w = None)
  <2> DEFINE path == IF w.path = None THEN call.path ELSE Clean(w.path)
  <2>1. s = [call EXCEPT !.content = w.content, !.path = path]
    BY <1>3 DEF SanitizeToolCall
  <2>2. call.content.paths # <<>>
    BY <1>1, <1>3, ParsePseudoWriteIs
  <2>3. /\ w.path \in Paths \cup {None} /\ w.content \in Contents /\ w.content.body = call.content.body
        /\ Len(call.content.paths) <= 1 => w.content.paths = <<>>
    BY <1>1, <2>2, ParsePseudoWriteIs
  <2>4. path \in Paths \cup {None}
    BY <1>1, <2>3, CleanIsPath
  <2> HIDE DEF path, w
  <2>5. s = ToolCall(call.name, path, w.content, call.readable)
    BY <2>1 DEF ToolCalls, ToolCall
  <2> HIDE DEF s
  <2>6. s \in ToolCalls
    BY <1>1, <2>3, <2>4, <2>5 DEF ToolCalls, ToolCall
  <2>7. s.name = call.name /\ s.readable = call.readable /\ s.content = w.content
    BY <2>5 DEF ToolCall
  <2> QED
    BY <1>3, <2>2, <2>3, <2>6, <2>7 DEF s, Shallow
<1> QED
  BY <1>2, <1>3

\* A list of calls is sanitized call by call.
LEMMA SanitizeAllIs ==
    ASSUME NEW calls \in Seq(ToolCalls)
    PROVE  /\ SanitizeAll(calls) \in Seq(ToolCalls)
           /\ Len(SanitizeAll(calls)) = Len(calls)
           /\ DOMAIN SanitizeAll(calls) = 1..Len(calls) /\ DOMAIN calls = 1..Len(calls)
           /\ \A k \in 1..Len(calls) : SanitizeAll(calls)[k] = SanitizeToolCall(calls[k]) /\ calls[k] \in ToolCalls
           /\ SanitizeAll(calls) = <<>> <=> calls = <<>>
<1>1. \A k \in 1..Len(calls) : calls[k] \in ToolCalls /\ SanitizeToolCall(calls[k]) \in ToolCalls
  BY SanitizeToolCallIs
<1>2. DOMAIN calls = 1..Len(calls) /\ Len(calls) \in Nat
  OBVIOUS
<1>3. SanitizeAll(calls) = [k \in 1..Len(calls) |-> SanitizeToolCall(calls[k])]
  BY <1>2 DEF SanitizeAll
<1>4. SanitizeAll(calls) \in Seq(ToolCalls)
  BY <1>1, <1>2, <1>3
<1>5. Len(SanitizeAll(calls)) = Len(calls)
  BY <1>2, <1>3, <1>4
<1>6. SanitizeAll(calls) = <<>> <=> calls = <<>>
  BY <1>4, <1>5, <1>2
<1> QED
  BY <1>1, <1>2, <1>3, <1>4, <1>5, <1>6

\* What has been sanitized is left as it is, unless it was wrapped twice.
LEMMA SanitizeAllTwice ==
    ASSUME NEW calls \in Seq(ToolCalls), \A k \in 1..Len(calls) : Shallow(calls[k])
    PROVE  SanitizeAll(SanitizeAll(calls)) = SanitizeAll(calls)
<1> DEFINE once == SanitizeAll(calls)
           twice == SanitizeAll(once)
<1>1. once \in Seq(ToolCalls) /\ Len(once) = Len(calls)
  BY SanitizeAllIs
<1>2. twice \in Seq(ToolCalls) /\ Len(twice) = Len(calls)
  BY <1>1, SanitizeAllIs
<1>3. ASSUME NEW k \in 1..Len(calls) PROVE twice[k] = once[k]
  <2>1. calls[k] \in ToolCalls /\ once[k] = SanitizeToolCall(calls[k]) /\ once[k] \in ToolCalls
    BY <1>1, SanitizeAllIs
  <2>2. twice[k] = SanitizeToolCall(once[k])
    BY <1>1, SanitizeAllIs
  <2>3. SanitizeToolCall(once[k]) = once[k]
    <3>1. CASE calls[k].name = "write" /\ calls[k].readable
      <4>1. once[k].content.paths = <<>>
        BY <2>1, <3>1, SanitizeToolCallIs
      <4> QED
        BY <2>1, <4>1, SanitizeToolCallIs
    <3>2. CASE ~(calls[k].name = "write" /\ calls[k].readable)
      <4>1. once[k] = calls[k]
        BY <2>1, <3>2, SanitizeToolCallIs
      <4> QED
        BY <2>1, <4>1
    <3> QED
      BY <3>1, <3>2
  <2> QED
    BY <2>2, <2>3
<1> HIDE DEF once, twice
<1>4. twice = once
  BY <1>1, <1>2, <1>3
<1> QED
  BY <1>4 DEF once, twice

MaybePath == Paths \cup {None}

\* What the segments of a text carry.
LEMMA SegmentParts ==
    ASSUME NEW text \in Seq(Segments), NEW i \in 1..Len(text)
    PROVE  /\ text[i].kind = "prose" => text[i].path \in MaybePath
           /\ text[i].kind \in {"xml", "json", "function", "bare"} => text[i].call \in ToolCalls
           /\ text[i].kind = "fence" => /\ text[i].comment \in MaybePath /\ text[i].guess \in MaybePath
                                        /\ text[i].content \in Contents
           /\ text[i].kind = "command" => text[i].content \in Contents /\ text[i].content.paths # <<>>
<1>1. text[i] \in Segments
  OBVIOUS
<1> DEFINE s == text[i]
<1>2. s \in Segments
  BY <1>1
<1> HIDE DEF s
<1>3. /\ s.kind = "prose" => s.path \in MaybePath
      /\ s.kind \in {"xml", "json", "function", "bare"} => s.call \in ToolCalls
      /\ s.kind = "fence" => /\ s.comment \in MaybePath /\ s.guess \in MaybePath
                             /\ s.content \in Contents
      /\ s.kind = "command" => s.content \in Contents /\ s.content.paths # <<>>
  BY <1>2 DEF Segments, MaybePath
<1> QED
  BY <1>3 DEF s

\* a set of positions that is not empty has a last one
LEMMA Greatest ==
    ASSUME NEW n \in Nat, NEW S \in SUBSET (1..n), S # {}
    PROVE  \E m \in S : \A k \in S : k <= m
<1> DEFINE Left == {d \in Nat : n - d \in S}
<1>1. Left \in SUBSET Nat /\ Left # {}
  <2>1. PICK i \in S : TRUE
    OBVIOUS
  <2>2. n - i \in Nat /\ n - (n - i) = i
    BY <2>1
  <2>3. n - i \in Left
    BY <2>2
  <2> QED
    BY <2>3
<1>2. PICK d \in Left : \A e \in Left : d <= e
  BY <1>1, Least
<1>3. n - d \in S /\ d \in Nat
  BY <1>2
<1>4. ASSUME NEW k \in S PROVE k <= n - d
  <2>1. n - k \in Nat /\ n - (n - k) = k /\ k \in Nat
    OBVIOUS
  <2>2. n - k \in Left
    BY <2>1
  <2>3. d <= n - k
    BY <1>2, <2>2
  <2> QED
    BY <1>3, <2>1, <2>3
<1> QED
  BY <1>3, <1>4

\* A block is named by a path, if at all.
LEMMA NamesArePaths ==
    ASSUME NEW text \in Seq(Segments), NEW i \in Fences(text)
    PROVE  /\ i \in 1..Len(text) /\ text[i].content \in Contents
           /\ FenceName(text, i) \in MaybePath
<1>1. i \in 1..Len(text) /\ text[i].kind = "fence"
  BY DEF Fences
<1>2. text[i].comment \in MaybePath /\ text[i].guess \in MaybePath /\ text[i].content \in Contents
  BY <1>1, SegmentParts
<1>3. OwnName(text[i]) \in MaybePath
  <2>1. text[i].content.paths \in Seq(MaybePath)
    BY <1>2 DEF Contents, MaybePath
  <2>2. text[i].content.paths # <<>> => Head(text[i].content.paths) \in MaybePath
    BY <2>1
  <2> QED
    BY <1>2, <2>2 DEF OwnName, FirstOf, MaybePath
<1>4. Mention(text, i) \in MaybePath
  <2> DEFINE Said(style) == {j \in 1..(i - 1) : text[j].kind = "prose" /\ text[j].path # None /\ text[j].style = style}
             Last(S) == CHOOSE j \in S : \A k \in S : k <= j
             Latest(S) == IF S = {} THEN None ELSE text[Last(S)].path
  <2>1. ASSUME NEW style PROVE Latest(Said(style)) \in MaybePath
    <3> DEFINE S == Said(style)
    <3>1. CASE S = {}
      BY <3>1 DEF MaybePath
    <3>2. CASE S # {}
      <4>2. \E j \in S : \A k \in S : k <= j
        <5>1. i - 1 \in Nat /\ S \in SUBSET (1..(i - 1))
          BY <1>1
        <5> HIDE DEF S
        <5> QED
          BY <3>2, <5>1, Greatest
      <4>3. Last(S) \in S
        BY <4>2, Zenon
      <4>4. Last(S) \in 1..Len(text) /\ text[Last(S)].kind = "prose"
        BY <1>1, <4>3
      <4> QED
        BY <3>2, <4>4, SegmentParts
    <3> QED
      BY <3>1, <3>2
  <2>2. Mention(text, i) = FirstOf(Latest(Said("tick")), Latest(Said("word")))
    BY DEF Mention
  <2>3. Latest(Said("tick")) \in MaybePath /\ Latest(Said("word")) \in MaybePath
    BY <2>1
  <2> HIDE DEF Latest, Said
  <2> QED
    BY <2>2, <2>3 DEF FirstOf
<1>5. FenceName(text, i) \in MaybePath
  BY <1>2, <1>3, <1>4 DEF FenceName, FirstOf
<1> QED
  BY <1>1, <1>2, <1>5

\* A block's file has the block's body, unwrapped once.
LEMMA FenceContentIs ==
    ASSUME NEW f, f.content \in Contents
    PROVE  /\ FenceContent(f) \in Contents /\ FenceContent(f).body = f.content.body
           /\ Len(f.content.paths) <= 1 => FenceContent(f).paths = <<>>
  BY ParsePseudoWriteIs DEF FenceContent

\* The blocks that are taken, in order.
TakenFences(text) == {i \in Fences(text) : Taken(text, i)}

LEMMA BlocksAre ==
    ASSUME NEW text \in Seq(Segments)
    PROVE  LET taken  == InOrder(TakenFences(text))
               writes == CodeBlocksAsWrites(text)
           IN  /\ writes \in Seq(ToolCalls)
               /\ TakenFences(text) \in SUBSET (1..Len(text))
               /\ DOMAIN writes = DOMAIN taken /\ DOMAIN taken = 1..Len(writes)
               /\ \A k \in 1..Len(writes) :
                     /\ taken[k] \in TakenFences(text)
                     /\ writes[k] = Write(Clean(FenceName(text, taken[k])), FenceContent(text[taken[k]]))
               /\ \A j, k \in 1..Len(writes) : j < k => taken[j] < taken[k]
               /\ \A i \in TakenFences(text) : \E k \in 1..Len(writes) : taken[k] = i
<1> DEFINE T == TakenFences(text)
           taken == InOrder(T)
           m == Cardinality(T)
           file(k) == Write(Clean(FenceName(text, taken[k])), FenceContent(text[taken[k]]))
           writes == CodeBlocksAsWrites(text)
<1>1. T \in SUBSET (1..Len(text)) /\ Len(text) \in Nat
  BY DEF TakenFences, Fences
<1>2. /\ m \in Nat /\ taken \in [1..m -> T] /\ Rising(taken)
      /\ \A i \in T : \E j \in 1..m : taken[j] = i
  BY <1>1, InOrderLists
<1>3. ASSUME NEW i \in T PROVE Write(Clean(FenceName(text, i)), FenceContent(text[i])) \in ToolCalls
  <2>1. i \in Fences(text) /\ FenceName(text, i) # None
    BY DEF TakenFences, Taken, Usable
  <2>2. FenceName(text, i) \in Paths /\ text[i].content \in Contents
    BY <2>1, NamesArePaths DEF MaybePath
  <2>3. Clean(FenceName(text, i)) \in Paths /\ FenceContent(text[i]) \in Contents
    BY <2>2, CleanIsPath, FenceContentIs
  <2>4. "write" \in Tools
    BY ValuesAssumption
  <2> QED
    BY <2>3, <2>4 DEF Write, ToolCall, ToolCalls
<1>4. writes = [k \in DOMAIN taken |-> file(k)]
  BY DEF CodeBlocksAsWrites, TakenFences
<1> HIDE DEF T, taken, m, writes
<1>5. DOMAIN taken = 1..m
  BY <1>2
<1>6. \A k \in 1..m : taken[k] \in T
  BY <1>2
<1>7. \A k \in 1..m : file(k) \in ToolCalls
  BY <1>3, <1>6
<1>8. writes \in Seq(ToolCalls) /\ Len(writes) = m
  <2> HIDE DEF file
  <2>1. writes = [k \in 1..m |-> file(k)]
    BY <1>4, <1>5
  <2>2. writes \in Seq(ToolCalls)
    BY <1>2, <1>7, <2>1
  <2> QED
    BY <1>2, <2>1, <2>2
<1>9. \A k \in 1..m : writes[k] = file(k)
  BY <1>4, <1>5
<1>10. \A j, k \in 1..m : j < k => taken[j] < taken[k]
  BY <1>2, <1>5 DEF Rising
<1> QED
  BY <1>1, <1>2, <1>4, <1>5, <1>6, <1>8, <1>9, <1>10 DEF T, taken, writes

\* Calls found in envelopes are calls; there are none without such an envelope.
LEMMA CallsAre ==
    ASSUME NEW text \in Seq(Segments), NEW kind \in {"xml", "json", "function"}
    PROVE  /\ Calls(text, kind) \in Seq(ToolCalls)
           /\ (\A s \in Range(text) : ~(s.kind = kind /\ s.valid)) => Calls(text, kind) = <<>>
<1> DEFINE P == {i \in DOMAIN text : text[i].kind = kind /\ text[i].valid}
           found == InOrder(P)
           m == Cardinality(P)
<1>1. P \in SUBSET (1..Len(text)) /\ Len(text) \in Nat
  OBVIOUS
<1>2. m \in Nat /\ found \in [1..m -> P] /\ (m = 0 <=> P = {})
  BY <1>1, InOrderLists
<1>3. \A i \in P : text[i].call \in ToolCalls
  BY <1>1, SegmentParts
<1>4. Calls(text, kind) = [k \in DOMAIN found |-> text[found[k]].call]
  BY DEF Calls
<1>p. (\A s \in Range(text) : ~(s.kind = kind /\ s.valid)) => P = {}
  BY DEF Range
<1> HIDE DEF P, found, m
<1>5. Calls(text, kind) = [k \in 1..m |-> text[found[k]].call]
  BY <1>2, <1>4
<1>6. \A k \in 1..m : text[found[k]].call \in ToolCalls
  BY <1>2, <1>3
<1> DEFINE c == Calls(text, kind)
<1> HIDE DEF c
<1>7. c \in Seq(ToolCalls) /\ Len(c) = m
  <2>1. c = [k \in 1..m |-> text[found[k]].call]
    BY <1>5 DEF c
  <2>2. c \in Seq(ToolCalls)
    BY <1>2, <1>6, <2>1
  <2> QED
    BY <1>2, <2>1, <2>2
<1>8. (\A s \in Range(text) : ~(s.kind = kind /\ s.valid)) => c = <<>>
  BY <1>2, <1>p, <1>7
<1> QED
  BY <1>7, <1>8 DEF c

\* What is found in a text without envelopes, if anything: a sanitized call, the
\* text's own command, or its blocks.
FoundPlain(text, calls) ==
    \/ /\ Sole(text, "bare") /\ text[1].valid /\ text[1].call \in ToolCalls
       /\ calls = <<SanitizeToolCall(text[1].call)>>
    \/ /\ Sole(text, "command") /\ text[1].content \in Contents /\ text[1].content.paths # <<>>
       /\ calls = <<Write(Clean(Head(text[1].content.paths)), ParsePseudoWrite(text[1].content).content)>>
    \/ calls = SanitizeAll(CodeBlocksAsWrites(text))

\* Other forms than envelopes yield calls.
LEMMA PlainAre ==
    ASSUME NEW text \in Seq(Segments)
    PROVE  LET calls == OrElse(BareCall(text), OrElse(WriteCommand(text), SanitizeAll(CodeBlocksAsWrites(text))))
           IN  calls \in Seq(ToolCalls) /\ FoundPlain(text, calls)
<1> DEFINE blocks == SanitizeAll(CodeBlocksAsWrites(text))
<1>1. blocks \in Seq(ToolCalls) /\ FoundPlain(text, blocks)
  BY BlocksAre, SanitizeAllIs DEF FoundPlain
<1> HIDE DEF blocks
<1>2. CASE BareCall(text) # <<>>
  <2>1. Sole(text, "bare") /\ text[1].valid /\ BareCall(text) = <<SanitizeToolCall(text[1].call)>>
    BY <1>2 DEF BareCall
  <2>2. 1 \in 1..Len(text) /\ text[1].kind = "bare"
    BY <2>1 DEF Sole
  <2>3. text[1].call \in ToolCalls
    BY <2>2, SegmentParts
  <2>4. SanitizeToolCall(text[1].call) \in ToolCalls
    BY <2>3, SanitizeToolCallIs
  <2>5. BareCall(text) \in Seq(ToolCalls)
    BY <2>1, <2>4
  <2>6. OrElse(BareCall(text), OrElse(WriteCommand(text), blocks)) = BareCall(text)
    BY <1>2 DEF OrElse
  <2> QED
    BY <2>1, <2>3, <2>5, <2>6 DEF FoundPlain, blocks
<1>3. CASE BareCall(text) = <<>> /\ WriteCommand(text) # <<>>
  <2>1. /\ Sole(text, "command") /\ Head(text[1].content.paths) # None
        /\ WriteCommand(text) = <<Write(Clean(ParsePseudoWrite(text[1].content).path),
                                        ParsePseudoWrite(text[1].content).content)>>
    BY <1>3 DEF WriteCommand
  <2>2. 1 \in 1..Len(text) /\ text[1].kind = "command"
    BY <2>1 DEF Sole
  <2>3. text[1].content \in Contents /\ text[1].content.paths # <<>>
    BY <2>2, SegmentParts
  <2> DEFINE w == ParsePseudoWrite(text[1].content)
  <2>4. w.path = Head(text[1].content.paths) /\ w.path \in Paths \cup {None} /\ w.content \in Contents
    BY <2>3, ParsePseudoWriteIs
  <2> HIDE DEF w
  <2>5. Clean(w.path) \in Paths
    BY <2>1, <2>4, CleanIsPath
  <2>6. Write(Clean(w.path), w.content) \in ToolCalls
    BY <2>4, <2>5, ValuesAssumption DEF Write, ToolCall, ToolCalls
  <2>7. WriteCommand(text) = <<Write(Clean(w.path), w.content)>>
    BY <2>1 DEF w
  <2>8. WriteCommand(text) \in Seq(ToolCalls)
    BY <2>6, <2>7
  <2>9. OrElse(BareCall(text), OrElse(WriteCommand(text), blocks)) = WriteCommand(text)
    BY <1>3 DEF OrElse
  <2>10. FoundPlain(text, WriteCommand(text))
    BY <2>1, <2>3, <2>4, <2>7 DEF FoundPlain, w
  <2> QED
    BY <2>8, <2>9, <2>10 DEF blocks
<1>4. CASE BareCall(text) = <<>> /\ WriteCommand(text) = <<>>
  <2>1. OrElse(BareCall(text), OrElse(WriteCommand(text), blocks)) = blocks
    BY <1>4 DEF OrElse
  <2> QED
    BY <1>1, <2>1 DEF blocks
<1> QED
  BY <1>2, <1>3, <1>4

\* What is found are calls.
LEMMA ExtractToolCallsAre ==
    ASSUME NEW text \in Seq(Segments)
    PROVE  /\ ExtractToolCalls(text) \in Seq(ToolCalls)
           /\ ~Enveloped(text) => FoundPlain(text, ExtractToolCalls(text))
<1> DEFINE plain == OrElse(BareCall(text), OrElse(WriteCommand(text), SanitizeAll(CodeBlocksAsWrites(text))))
<1>1. plain \in Seq(ToolCalls) /\ FoundPlain(text, plain)
  BY PlainAre
<1> HIDE DEF plain
<1>2. /\ Calls(text, "xml") \in Seq(ToolCalls) /\ Calls(text, "json") \in Seq(ToolCalls)
      /\ Calls(text, "function") \in Seq(ToolCalls)
  BY CallsAre
<1>3. ExtractToolCalls(text) =
        OrElse(Calls(text, "xml"), OrElse(Calls(text, "json"), OrElse(Calls(text, "function"), plain)))
  BY DEF ExtractToolCalls, plain
<1>4. ExtractToolCalls(text) \in Seq(ToolCalls)
  BY <1>1, <1>2, <1>3 DEF OrElse
<1>5. ASSUME ~Enveloped(text) PROVE ExtractToolCalls(text) = plain
  <2>1. \A s \in Range(text) : ~(s.kind \in {"xml", "json", "function"} /\ s.valid)
    BY <1>5 DEF Enveloped
  <2>2. Calls(text, "xml") = <<>> /\ Calls(text, "json") = <<>> /\ Calls(text, "function") = <<>>
    BY <2>1, CallsAre
  <2> QED
    BY <1>3, <2>2 DEF OrElse
<1> QED
  BY <1>1, <1>4, <1>5

----------------------------------------------------------------------------
(* What a client puts together again.                                      *)

End(why) == Chunk("end", 0, why)

\* Text comes back as text.
LEMMA AssembledText ==
    ASSUME NEW text
    PROVE  Assembled(<<Chunk("text", 0, text), End("stop")>>) = Message(text, None, "stop")
<1> DEFINE chunks == <<Chunk("text", 0, text), End("stop")>>
           Of(kinds) == {c \in Range(chunks) : c.kind \in kinds}
<1>1. Range(chunks) = {Chunk("text", 0, text), End("stop")}
  <2>1. DOMAIN chunks = {1, 2}
    OBVIOUS
  <2>2. chunks[1] = Chunk("text", 0, text) /\ chunks[2] = End("stop")
    OBVIOUS
  <2> HIDE DEF chunks
  <2> QED
    BY <2>1, <2>2 DEF Range
<1>2. /\ Of({"head", "call"}) = {} /\ Of({"text"}) = {Chunk("text", 0, text)}
      /\ Of({"end"}) = {End("stop")}
  BY <1>1 DEF Chunk, End
<1> HIDE DEF chunks, Of
<1>a. /\ (CHOOSE c \in Of({"text"}) : TRUE) = Chunk("text", 0, text)
      /\ (CHOOSE c \in Of({"end"}) : TRUE) = End("stop")
  BY <1>2
<1>3. /\ {c.index : c \in Of({"head", "call"})} = {}
      /\ (CHOOSE c \in Of({"text"}) : TRUE).value = text
      /\ (CHOOSE c \in Of({"end"}) : TRUE).value = "stop"
      /\ Of({"text"}) # {}
  BY <1>2, <1>a DEF Chunk, End
<1> QED
  BY <1>3 DEF Assembled, chunks, Of

\* chunks that carry calls: the last chunk of the call k is at last[k]
Carries(chunks, len, calls, last) ==
    /\ DOMAIN chunks = 1..(len + 1) /\ chunks[len + 1] = End("tool_calls")
    /\ \A i \in 1..len : chunks[i].kind \in {"head", "args", "call"}
    /\ \A i \in 1..len : chunks[i].index \in 1..Len(calls)
    /\ \A k \in 1..Len(calls) : \E i \in 1..len : chunks[i].kind \in {"head", "call"} /\ chunks[i].index = k
    /\ last \in [1..Len(calls) -> 1..len]
    /\ \A k \in 1..Len(calls) :
          /\ chunks[last[k]].index = k /\ chunks[last[k]].kind \in {"args", "call"}
          /\ chunks[last[k]].value = calls[k]
          /\ \A j \in 1..len : j > last[k] => chunks[j].index # k

\* Calls come back as they were sent.
LEMMA AssembledCalls ==
    ASSUME NEW calls \in Seq(ToolCalls), NEW len \in Nat, NEW chunks, NEW last,
           Carries(chunks, len, calls, last)
    PROVE  Assembled(chunks) = Message(None, IF calls = <<>> THEN None ELSE calls, "tool_calls")
<1> DEFINE n == Len(calls)
           Of(kinds) == {c \in Range(chunks) : c.kind \in kinds}
           indices == {c.index : c \in Of({"head", "call"})}
           Ends(k, i) == /\ chunks[i].index = k /\ chunks[i].kind \in {"args", "call"}
                         /\ \A j \in DOMAIN chunks : j > i => chunks[j].index # k
           Final(k) == chunks[CHOOSE i \in DOMAIN chunks : Ends(k, i)]
<1>1. /\ DOMAIN chunks = 1..(len + 1) /\ chunks[len + 1] = End("tool_calls")
      /\ chunks[len + 1].kind = "end" /\ chunks[len + 1].index = 0 /\ chunks[len + 1].value = "tool_calls"
  BY DEF Carries, End, Chunk
<1>2. \A i \in 1..(len + 1) : i = len + 1 \/ i \in 1..len
  OBVIOUS
<1>3. n \in Nat
  OBVIOUS
<1>4. Of({"text"}) = {}
  <2> SUFFICES ASSUME NEW i \in 1..(len + 1) PROVE chunks[i].kind # "text"
    BY <1>1 DEF Range
  <2> QED
    BY <1>1, <1>2 DEF Carries
<1>5. Of({"end"}) = {End("tool_calls")}
  <2>1. ASSUME NEW i \in 1..(len + 1), chunks[i].kind = "end" PROVE chunks[i] = End("tool_calls")
    BY <1>1, <1>2, <2>1 DEF Carries
  <2>2. End("tool_calls").kind = "end"
    BY DEF End, Chunk
  <2>3. End("tool_calls") \in Range(chunks)
    BY <1>1 DEF Range
  <2> QED
    BY <1>1, <2>1, <2>2, <2>3 DEF Range
<1>6. indices = 1..n
  <2>1. ASSUME NEW c \in Of({"head", "call"}) PROVE c.index \in 1..n
    <3>1. PICK i \in 1..(len + 1) : c = chunks[i]
      BY <1>1 DEF Range
    <3>2. c.kind \in {"head", "call"}
      OBVIOUS
    <3>3. i # len + 1
      BY <1>1, <3>1, <3>2
    <3> QED
      BY <1>2, <3>1, <3>3 DEF Carries
  <2>2. ASSUME NEW k \in 1..n PROVE k \in indices
    <3>1. PICK i \in 1..len : chunks[i].kind \in {"head", "call"} /\ chunks[i].index = k
      BY DEF Carries
    <3>2. chunks[i] \in Range(chunks)
      BY <1>1 DEF Range
    <3>3. chunks[i] \in Of({"head", "call"})
      BY <3>1, <3>2
    <3> QED
      BY <3>1, <3>3
  <2> HIDE DEF Of
  <2> QED
    BY <2>1, <2>2
<1>7. ASSUME NEW k \in 1..n PROVE Final(k).value = calls[k]
  <2> DEFINE p == last[k]
  <2>1. /\ p \in 1..len /\ chunks[p].index = k /\ chunks[p].kind \in {"args", "call"}
        /\ chunks[p].value = calls[k]
        /\ \A j \in 1..len : j > p => chunks[j].index # k
    BY DEF Carries
  <2>2. k # 0
    OBVIOUS
  <2> HIDE DEF p
  <2>3. Ends(k, p) /\ p \in DOMAIN chunks
    BY <1>1, <1>2, <2>1, <2>2
  <2>4. ASSUME NEW i \in DOMAIN chunks, Ends(k, i) PROVE i = p
    <3>1. i \in 1..(len + 1) /\ chunks[i].index = k
      BY <1>1, <2>4
    <3>2. i # len + 1
      BY <1>1, <2>2, <3>1
    <3>3. i \in 1..len /\ ~(i > p)
      BY <1>2, <2>1, <3>1, <3>2
    <3>4. ~(p > i)
      BY <2>1, <2>3, <2>4
    <3> QED
      BY <2>1, <3>3, <3>4
  <2> HIDE DEF Ends
  <2>5. (CHOOSE i \in DOMAIN chunks : Ends(k, i)) = p
    BY <2>3, <2>4
  <2> QED
    BY <2>1, <2>5
<1>8. Cardinality(1..n) = n
  <2>1. \A m \in Nat : Cardinality(1..m) = m
    BY FS_Interval
  <2> QED
    BY <1>3, <2>1
<1>9. (CHOOSE c \in Of({"end"}) : TRUE).value = "tool_calls"
  BY <1>1, <1>5
<1>10. Assembled(chunks) =
         Message(IF Of({"text"}) = {} THEN None ELSE (CHOOSE c \in Of({"text"}) : TRUE).value,
                 IF indices = {} THEN None ELSE [k \in 1..Cardinality(indices) |-> Final(k).value],
                 (CHOOSE c \in Of({"end"}) : TRUE).value)
  BY DEF Assembled
<1> HIDE DEF Of, indices, Final
<1>11. Assembled(chunks) = Message(None, IF 1..n = {} THEN None ELSE [k \in 1..n |-> Final(k).value], "tool_calls")
  BY <1>4, <1>6, <1>8, <1>9, <1>10
<1>12. [k \in 1..n |-> Final(k).value] = calls
  <2>1. [k \in 1..n |-> Final(k).value] = [k \in 1..n |-> calls[k]]
    BY <1>7
  <2> QED
    BY <2>1
<1>13. 1..n = {} <=> calls = <<>>
  <2>1. calls = <<>> <=> n = 0
    OBVIOUS
  <2> HIDE DEF n
  <2> QED
    BY <1>3, <2>1
<1> QED
  BY <1>11, <1>12, <1>13

\* Calls of one chunk each.
LEMMA AssembledGiven ==
    ASSUME NEW calls \in Seq(ToolCalls)
    PROVE  Assembled([k \in DOMAIN calls |-> Chunk("call", k, calls[k])] \o << End("tool_calls") >>) =
             Message(None, IF calls = <<>> THEN None ELSE calls, "tool_calls")
<1> DEFINE n == Len(calls)
           body == [k \in 1..n |-> Chunk("call", k, calls[k])]
           chunks == body \o << End("tool_calls") >>
           last == [k \in 1..n |-> k]
<1>1. n \in Nat /\ DOMAIN calls = 1..n
  OBVIOUS
<1>2. Len(body) = n /\ \A k \in 1..n : body[k] = Chunk("call", k, calls[k])
  BY <1>1
<1>3. body \in Seq({Chunk("call", k, calls[k]) : k \in 1..n})
  BY <1>1
<1> HIDE DEF n, body
<1>4. /\ DOMAIN chunks = 1..(n + 1) /\ chunks[n + 1] = End("tool_calls")
      /\ \A k \in 1..n : chunks[k] = body[k]
  BY <1>1, <1>2, <1>3
<1> HIDE DEF chunks
<1>5. \A k \in 1..n : chunks[k].kind = "call" /\ chunks[k].index = k /\ chunks[k].value = calls[k]
  BY <1>2, <1>4 DEF Chunk
<1>6. Carries(chunks, n, calls, last)
  BY <1>1, <1>4, <1>5 DEF Carries, n
<1>7. Assembled(chunks) = Message(None, IF calls = <<>> THEN None ELSE calls, "tool_calls")
  BY <1>1, <1>6, AssembledCalls
<1> QED
  BY <1>1, <1>7 DEF chunks, body

\* Calls of two chunks each.
LEMMA AssembledFound ==
    ASSUME NEW calls \in Seq(ToolCalls)
    PROVE  Assembled(CallChunks(calls) \o << End("tool_calls") >>) =
             Message(None, IF calls = <<>> THEN None ELSE calls, "tool_calls")
<1> DEFINE n == Len(calls)
           half(i) == (i + 1) \div 2
           piece(i) == IF i % 2 = 1 THEN Chunk("head", half(i), NameOf(calls[half(i)])) ELSE Chunk("args", half(i), calls[half(i)])
           body == CallChunks(calls)
           chunks == body \o << End("tool_calls") >>
           last == [k \in 1..n |-> 2 * k]
<1>1. n \in Nat /\ DOMAIN calls = 1..n /\ 2 * n \in Nat
  OBVIOUS
<1>2. body = [i \in 1..(2 * n) |-> piece(i)]
  BY DEF CallChunks
<1> HIDE DEF piece
<1>3. body \in Seq({piece(i) : i \in 1..(2 * n)}) /\ Len(body) = 2 * n
  BY <1>1, <1>2
<1>4. \A i \in 1..(2 * n) : body[i] = piece(i)
  BY <1>2
<1> HIDE DEF n, body
<1>5. /\ DOMAIN chunks = 1..(2 * n + 1) /\ chunks[2 * n + 1] = End("tool_calls")
      /\ \A i \in 1..(2 * n) : chunks[i] = piece(i)
  BY <1>1, <1>3, <1>4
<1> HIDE DEF chunks
<1>6. \A i \in 1..(2 * n) : half(i) \in 1..n
  BY <1>1
<1>7. \A i \in 1..(2 * n) : piece(i).kind \in {"head", "args"} /\ piece(i).index = half(i)
  BY DEF piece, Chunk
<1>8. ASSUME NEW k \in 1..n
      PROVE  /\ 2 * k \in 1..(2 * n) /\ half(2 * k) = k /\ (2 * k) % 2 # 1
             /\ 2 * k - 1 \in 1..(2 * n) /\ half(2 * k - 1) = k /\ (2 * k - 1) % 2 = 1
             /\ \A j \in 1..(2 * n) : j > 2 * k => half(j) # k
  BY <1>1
<1>9. \A k \in 1..n : /\ piece(2 * k).kind = "args" /\ piece(2 * k).index = k /\ piece(2 * k).value = calls[k]
                      /\ piece(2 * k - 1).kind = "head" /\ piece(2 * k - 1).index = k
  BY <1>8 DEF piece, Chunk
<1> HIDE DEF half
<1>10. Carries(chunks, 2 * n, calls, last)
  <2>1. last \in [1..n -> 1..(2 * n)] /\ \A k \in 1..n : last[k] = 2 * k
    BY <1>8
  <2>2. \A i \in 1..(2 * n) : chunks[i].kind \in {"head", "args", "call"} /\ chunks[i].index \in 1..n
    BY <1>5, <1>6, <1>7
  <2>3. \A k \in 1..n : \E i \in 1..(2 * n) : chunks[i].kind \in {"head", "call"} /\ chunks[i].index = k
    BY <1>5, <1>8, <1>9
  <2>4. \A k \in 1..n : /\ chunks[last[k]].index = k /\ chunks[last[k]].kind \in {"args", "call"}
                        /\ chunks[last[k]].value = calls[k]
    BY <1>5, <1>8, <1>9, <2>1
  <2>5. \A k \in 1..n : \A j \in 1..(2 * n) : j > last[k] => chunks[j].index # k
    BY <1>5, <1>7, <1>8, <2>1
  <2> HIDE DEF last
  <2> QED
    BY <1>5, <2>1, <2>2, <2>3, <2>4, <2>5 DEF Carries, n
<1>11. Assembled(chunks) = Message(None, IF calls = <<>> THEN None ELSE calls, "tool_calls")
  BY <1>1, <1>10, AssembledCalls
<1> QED
  BY <1>11 DEF chunks, body

----------------------------------------------------------------------------
(* The answers.                                                            *)

\* a message that llama-server may answer with
IsMessage(m) ==
    /\ m = Message(m.text, m.calls, m.finish)
    /\ m.text \in Seq(Segments) \cup {None} /\ m.calls \in Seq(ToolCalls) \cup {None}
    /\ m.finish \in {"stop", "length", "tool_calls"}
    /\ (m.calls # None /\ m.calls # <<>>) <=> m.finish = "tool_calls"

\* an answered request has the answer in the form it asked for
ProxyInv ==
    status = "200" => IsMessage(upstream) /\ reply = IF stream THEN Stream(upstream) ELSE Whole(upstream)

LEMMA ProxyInvariant == ProxySpec => []ProxyInv
<1>1. ProxyInit => ProxyInv
  BY ValuesAssumption DEF ProxyInit, ProxyInv
<1>2. ProxyInv /\ [ProxyNext]_proxyVars => ProxyInv'
  <2> SUFFICES ASSUME ProxyInv, [ProxyNext]_proxyVars PROVE ProxyInv'
    OBVIOUS
  <2>1. CASE Forward \/ UNCHANGED proxyVars
    <3>1. UNCHANGED <<stream, upstream, status, reply>>
      BY <2>1 DEF Forward, proxyVars
    <3> QED
      BY <3>1 DEF ProxyInv
  <2>2. CASE NoAnswer
    <3>1. status' # "200"
      BY <2>2, ValuesAssumption DEF NoAnswer
    <3> QED
      BY <3>1 DEF ProxyInv
  <2>3. CASE Relay
    <3>1. PICK text \in Texts \cup {None}, calls \in Given \cup {None}, finish \in {"stop", "length", "tool_calls"} :
            LET m == Message(text, calls, finish)
            IN  /\ (calls # None /\ calls # <<>>) <=> finish = "tool_calls"
                /\ upstream' = m
                /\ IF text # None /\ ~HasCalls(m) /\ Panics(text)
                   THEN status' = "broken" /\ UNCHANGED reply
                   ELSE status' = "200" /\ reply' = IF stream THEN Stream(m) ELSE Whole(m)
      BY <2>3 DEF Relay
    <3>2. text \in Seq(Segments) \cup {None} /\ calls \in Seq(ToolCalls) \cup {None}
      BY ValuesAssumption
    <3> DEFINE m == Message(text, calls, finish)
    <3>3. IsMessage(m)
      BY <3>1, <3>2 DEF IsMessage, Message
    <3>4. /\ upstream' = m
          /\ status' = "broken" \/ reply' = IF stream THEN Stream(m) ELSE Whole(m)
      BY <3>1
    <3>5. stream' = stream
      BY <2>3 DEF Relay
    <3> HIDE DEF m
    <3> QED
      BY <3>3, <3>4, <3>5 DEF ProxyInv
  <2> QED
    BY <2>1, <2>2, <2>3 DEF ProxyNext
<1> QED
  BY <1>1, <1>2, PTL DEF ProxySpec

\* What an answer says and what its stream is put together to, by what is in it:
\* calls of its own, calls in its text, or neither.
LEMMA AnswerIs ==
    ASSUME NEW m, IsMessage(m)
    PROVE  LET w == Whole(m)
               s == Assembled(Stream(m))
           IN  \/ /\ m.calls \in Seq(ToolCalls) /\ m.calls # <<>> /\ m.finish = "tool_calls"
                  /\ w = Message(m.text, SanitizeAll(m.calls), "tool_calls")
                  /\ s = Message(None, SanitizeAll(SanitizeAll(m.calls)), "tool_calls")
               \/ /\ m.calls \in {None, <<>>} /\ m.text \in Seq(Segments)
                  /\ ExtractToolCalls(m.text) \in Seq(ToolCalls) /\ ExtractToolCalls(m.text) # <<>>
                  /\ w = Message(None, ExtractToolCalls(m.text), "tool_calls") /\ s = w
               \/ /\ m.calls = <<>> /\ m.finish \in {"stop", "length"}
                  /\ m.text # None => m.text \in Seq(Segments) /\ ExtractToolCalls(m.text) = <<>>
                  /\ w = m /\ s = Message(None, None, "tool_calls")
               \/ /\ m.calls = None /\ m.finish \in {"stop", "length"}
                  /\ m.text # None => m.text \in Seq(Segments) /\ ExtractToolCalls(m.text) = <<>>
                  /\ w = m /\ s = Message(IF m.text = None THEN <<>> ELSE m.text, None, "stop")
<1>0. None # <<>>
  <2>1. <<>> \in Seq(ToolCalls) /\ None \notin Seq(ToolCalls)
    BY ValuesAssumption
  <2> QED
    BY <2>1
<1>1. CASE HasCalls(m)
  <2>1. m.calls \in Seq(ToolCalls) /\ m.calls # <<>> /\ m.finish = "tool_calls"
    BY <1>1 DEF HasCalls, IsMessage
  <2>2. Extracted(m) = <<>>
    BY <1>1 DEF Extracted
  <2> DEFINE once == SanitizeAll(m.calls)
             twice == SanitizeAll(once)
  <2>3. once \in Seq(ToolCalls) /\ once # <<>> /\ twice \in Seq(ToolCalls) /\ twice # <<>>
    BY <2>1, SanitizeAllIs
  <2>4. Normalized(m) = Message(m.text, once, "tool_calls")
    BY <1>1, <2>1 DEF Normalized, IsMessage, Message
  <2>5. once # None
    BY <2>3, ValuesAssumption
  <2> HIDE DEF once
  <2>6. Whole(m) = Message(m.text, once, "tool_calls")
    BY <2>2, <2>4 DEF Whole
  <2> HIDE DEF twice
  <2>7. Stream(m) = [k \in DOMAIN twice |-> Chunk("call", k, twice[k])] \o << End("tool_calls") >>
    BY <2>2, <2>4, <2>5 DEF Stream, Message, End, twice
  <2>8. Assembled(Stream(m)) = Message(None, twice, "tool_calls")
    BY <2>3, <2>7, AssembledGiven
  <2> QED
    BY <2>1, <2>6, <2>8 DEF once, twice
<1>2. CASE ~HasCalls(m) /\ Extracted(m) # <<>>
  <2>1. m.text \in Seq(Segments) /\ Extracted(m) = ExtractToolCalls(m.text) /\ m.calls \in {None, <<>>}
    BY <1>2 DEF Extracted, HasCalls, IsMessage
  <2> DEFINE found == Extracted(m)
  <2>2. found \in Seq(ToolCalls) /\ found # <<>>
    BY <1>2, <2>1, ExtractToolCallsAre
  <2>3. Whole(m) = Message(None, found, "tool_calls")
    BY <1>2 DEF Whole
  <2>4. Stream(m) = CallChunks(found) \o << End("tool_calls") >>
    BY <1>2 DEF Stream, End
  <2> HIDE DEF found
  <2>5. Assembled(Stream(m)) = Message(None, found, "tool_calls")
    BY <2>2, <2>4, AssembledFound
  <2> QED
    BY <2>1, <2>2, <2>3, <2>5 DEF found
<1>3. CASE ~HasCalls(m) /\ Extracted(m) = <<>>
  <2>1. /\ m.calls \in {None, <<>>} /\ m.finish \in {"stop", "length"}
        /\ m.text # None => m.text \in Seq(Segments) /\ ExtractToolCalls(m.text) = <<>>
    BY <1>3 DEF Extracted, HasCalls, IsMessage
  <2>2. Normalized(m) = m /\ Whole(m) = m
    BY <1>3 DEF Normalized, Whole
  <2>3. CASE m.calls = <<>>
    <3>1. SanitizeAll(<<>>) \in Seq(ToolCalls) /\ SanitizeAll(<<>>) = <<>>
      <4>1. <<>> \in Seq(ToolCalls)
        OBVIOUS
      <4> QED
        BY <4>1, SanitizeAllIs
    <3> DEFINE given == SanitizeAll(m.calls)
    <3>2. given \in Seq(ToolCalls) /\ given = <<>>
      BY <2>3, <3>1
    <3>3. Stream(m) = [k \in DOMAIN given |-> Chunk("call", k, given[k])] \o << End("tool_calls") >>
      BY <1>0, <1>3, <2>2, <2>3 DEF Stream, End
    <3> HIDE DEF given
    <3>4. Assembled(Stream(m)) = Message(None, None, "tool_calls")
      BY <3>2, <3>3, AssembledGiven
    <3> QED
      BY <2>1, <2>2, <2>3, <3>4
  <2>4. CASE m.calls = None
    <3>1. Stream(m) = <<Chunk("text", 0, IF m.text = None THEN <<>> ELSE m.text), End("stop")>>
      BY <1>3, <2>2, <2>4 DEF Stream, End
    <3>2. Assembled(Stream(m)) = Message(IF m.text = None THEN <<>> ELSE m.text, None, "stop")
      BY <3>1, AssembledText
    <3> QED
      BY <2>1, <2>2, <2>4, <3>2
  <2> QED
    BY <2>1, <2>3, <2>4
<1> QED
  BY <1>1, <1>2, <1>3

\* An answer that is not deep is shallow wherever a call may come from.
LEMMA NotDeep ==
    ASSUME NEW m, IsMessage(m), ~Deep(m)
    PROVE  /\ m.calls # None => \A k \in 1..Len(m.calls) : Shallow(m.calls[k])
           /\ m.text # None => \A i \in 1..Len(m.text) :
                 /\ m.text[i].kind \in {"fence", "command"} => Len(m.text[i].content.paths) <= 1
                 /\ m.text[i].kind \in {"xml", "json", "function", "bare"} => Shallow(m.text[i].call)
<1>1. ASSUME m.calls # None, NEW k \in 1..Len(m.calls) PROVE Shallow(m.calls[k])
  <2>1. m.calls \in Seq(ToolCalls)
    BY <1>1 DEF IsMessage
  <2>2. m.calls[k] \in ToolCalls /\ m.calls[k] \in Range(m.calls)
    BY <2>1 DEF Range
  <2>3. ~(Len(m.calls[k].content.paths) > 1)
    BY <1>1, <2>2 DEF Deep
  <2>4. m.calls[k].content.paths \in Seq(Paths \cup {None})
    BY <2>2 DEF ToolCalls, Contents
  <2> QED
    BY <2>3, <2>4 DEF Shallow
<1>2. ASSUME m.text # None, NEW i \in 1..Len(m.text)
      PROVE  /\ m.text[i].kind \in {"fence", "command"} => Len(m.text[i].content.paths) <= 1
             /\ m.text[i].kind \in {"xml", "json", "function", "bare"} => Shallow(m.text[i].call)
  <2>1. m.text \in Seq(Segments)
    BY <1>2 DEF IsMessage
  <2>2. m.text[i] \in Range(m.text)
    BY <2>1 DEF Range
  <2>3. /\ ~(m.text[i].kind \in {"fence", "command"} /\ Len(m.text[i].content.paths) > 1)
        /\ ~(m.text[i].kind \in {"xml", "json", "function", "bare"} /\ Len(m.text[i].call.content.paths) > 1)
    BY <1>2, <2>2 DEF Deep
  <2>4. ASSUME m.text[i].kind \in {"fence", "command"} PROVE Len(m.text[i].content.paths) <= 1
    <3>1. m.text[i].content \in Contents
      BY <2>1, <2>4, SegmentParts
    <3>2. m.text[i].content.paths \in Seq(Paths \cup {None})
      BY <3>1 DEF Contents
    <3> QED
      BY <2>3, <2>4, <3>2
  <2>5. ASSUME m.text[i].kind \in {"xml", "json", "function", "bare"} PROVE Shallow(m.text[i].call)
    <3>1. m.text[i].call \in ToolCalls
      BY <2>1, <2>5, SegmentParts
    <3>2. m.text[i].call.content.paths \in Seq(Paths \cup {None})
      BY <3>1 DEF ToolCalls, Contents
    <3> QED
      BY <2>3, <2>5, <3>2 DEF Shallow
  <2> QED
    BY <2>4, <2>5
<1> QED
  BY <1>1, <1>2

LEMMA CallsAreSomething == \A calls \in Seq(ToolCalls) : calls # None
  BY ValuesAssumption

(* However an answer is made up: a client that asks for a stream learns    *)
(* the calls, the text and the end that one learns who does not, but for   *)
(* the exceptions that the property names.                                 *)
THEOREM StreamTheorem == ProxySpec => []StreamSaysTheSame
<1>1. ProxyInv => StreamSaysTheSame
  <2> SUFFICES ASSUME IsMessage(upstream), ~Deep(upstream)
               PROVE  LET m == upstream
                          w == Whole(m)
                          s == Assembled(Stream(m))
                      IN  /\ s.calls = w.calls \/ (w.calls = <<>> /\ s.calls = None)
                          /\ w.calls = None => s.text = (IF w.text = None THEN <<>> ELSE w.text)
                          /\ w.calls # <<>> => s.finish = w.finish \/ <<w.finish, s.finish>> = <<"length", "stop">>
    BY DEF ProxyInv, StreamSaysTheSame, Answered
  <2> DEFINE m == upstream
             w == Whole(m)
             s == Assembled(Stream(m))
  <2>1. CASE /\ m.calls \in Seq(ToolCalls) /\ m.calls # <<>> /\ m.finish = "tool_calls"
             /\ w = Message(m.text, SanitizeAll(m.calls), "tool_calls")
             /\ s = Message(None, SanitizeAll(SanitizeAll(m.calls)), "tool_calls")
    <3>1. \A k \in 1..Len(m.calls) : Shallow(m.calls[k])
      BY <2>1, CallsAreSomething, NotDeep
    <3>2. SanitizeAll(SanitizeAll(m.calls)) = SanitizeAll(m.calls)
      BY <2>1, <3>1, SanitizeAllTwice
    <3>3. SanitizeAll(m.calls) # None
      BY <2>1, SanitizeAllIs, CallsAreSomething
    <3> HIDE DEF w, s
    <3>4. w.calls = SanitizeAll(m.calls) /\ s.calls = w.calls /\ w.finish = "tool_calls" /\ s.finish = "tool_calls"
      BY <2>1, <3>2 DEF Message
    <3> QED
      BY <3>3, <3>4 DEF w, s
  <2>2. CASE /\ ExtractToolCalls(m.text) \in Seq(ToolCalls) /\ ExtractToolCalls(m.text) # <<>>
             /\ w = Message(None, ExtractToolCalls(m.text), "tool_calls") /\ s = w
    <3> HIDE DEF w, s
    <3>1. w.calls = ExtractToolCalls(m.text) /\ w.calls # None
      BY <2>2, CallsAreSomething DEF Message
    <3> QED
      BY <2>2, <3>1 DEF w, s
  <2>3. CASE /\ m.calls = <<>> /\ w = m /\ s = Message(None, None, "tool_calls")
    <3>1. <<>> \in Seq(ToolCalls)
      OBVIOUS
    <3> HIDE DEF w, s
    <3>2. w.calls = <<>> /\ w.calls # None /\ s.calls = None
      BY <2>3, <3>1, CallsAreSomething DEF Message
    <3> QED
      BY <3>2 DEF w, s
  <2>4. CASE /\ m.calls = None /\ m.finish \in {"stop", "length"}
             /\ w = m /\ s = Message(IF m.text = None THEN <<>> ELSE m.text, None, "stop")
    <3> HIDE DEF w, s
    <3>1. /\ w.calls = None /\ s.calls = None /\ s.text = (IF w.text = None THEN <<>> ELSE w.text)
          /\ s.finish = "stop" /\ w.finish \in {"stop", "length"}
      BY <2>4 DEF Message
    <3> QED
      BY <3>1 DEF w, s
  <2>5. IsMessage(m)
    OBVIOUS
  <2> HIDE DEF m, w, s
  <2>6. \/ /\ m.calls \in Seq(ToolCalls) /\ m.calls # <<>> /\ m.finish = "tool_calls"
           /\ w = Message(m.text, SanitizeAll(m.calls), "tool_calls")
           /\ s = Message(None, SanitizeAll(SanitizeAll(m.calls)), "tool_calls")
        \/ /\ ExtractToolCalls(m.text) \in Seq(ToolCalls) /\ ExtractToolCalls(m.text) # <<>>
           /\ w = Message(None, ExtractToolCalls(m.text), "tool_calls") /\ s = w
        \/ /\ m.calls = <<>> /\ w = m /\ s = Message(None, None, "tool_calls")
        \/ /\ m.calls = None /\ m.finish \in {"stop", "length"}
           /\ w = m /\ s = Message(IF m.text = None THEN <<>> ELSE m.text, None, "stop")
    BY <2>5, AnswerIs DEF w, s
  <2> QED
    BY <2>1, <2>2, <2>3, <2>4, <2>6 DEF m, w, s
<1> QED
  BY <1>1, ProxyInvariant, PTL

(* Whatever stands beside them: the calls that llama-server found itself   *)
(* reach the agent, all of them, in order, under their names and with      *)
(* their bodies, in both forms of the answer.                              *)
THEOREM KeptTheorem == ProxySpec => []GivenCallsKept
<1>1. ProxyInv => GivenCallsKept
  <2> SUFFICES ASSUME ProxyInv, Answered, FoundItself
               PROVE  /\ Told # None /\ Len(Told) = Len(upstream.calls)
                      /\ \A k \in DOMAIN Told :
                            /\ Told[k].name = upstream.calls[k].name
                            /\ Told[k].content.body = upstream.calls[k].content.body
                            /\ upstream.calls[k].content.paths = <<>> => Told[k].path = upstream.calls[k].path
    BY DEF GivenCallsKept
  <2> DEFINE calls == upstream.calls
             once == SanitizeAll(calls)
             twice == SanitizeAll(once)
  <2>1. IsMessage(upstream) /\ reply = IF stream THEN Stream(upstream) ELSE Whole(upstream)
    BY DEF ProxyInv, Answered
  <2>2. calls # None /\ calls # <<>>
    BY DEF FoundItself
  <2>3. /\ calls \in Seq(ToolCalls)
        /\ Whole(upstream) = Message(upstream.text, once, "tool_calls")
        /\ Assembled(Stream(upstream)) = Message(None, twice, "tool_calls")
    BY <2>1, <2>2, AnswerIs
  <2>4. /\ once \in Seq(ToolCalls) /\ Len(once) = Len(calls)
        /\ \A k \in 1..Len(calls) : once[k] = SanitizeToolCall(calls[k]) /\ calls[k] \in ToolCalls
    BY <2>3, SanitizeAllIs
  <2>5. /\ twice \in Seq(ToolCalls) /\ Len(twice) = Len(once)
        /\ \A k \in 1..Len(once) : twice[k] = SanitizeToolCall(once[k]) /\ once[k] \in ToolCalls
    BY <2>4, SanitizeAllIs
  <2>6. Told = IF stream THEN twice ELSE once
    BY <2>1, <2>3 DEF Told, Message
  <2> HIDE DEF calls, once, twice
  <2>7. Told \in Seq(ToolCalls) /\ Len(Told) = Len(calls) /\ Told # None
    BY <2>4, <2>5, <2>6, CallsAreSomething
  <2>8. ASSUME NEW k \in 1..Len(calls)
        PROVE  /\ once[k].name = calls[k].name /\ once[k].content.body = calls[k].content.body
               /\ calls[k].content.paths = <<>> => once[k] = calls[k]
    BY <2>4, SanitizeToolCallIs
  <2>9. ASSUME NEW k \in 1..Len(calls)
        PROVE  /\ twice[k].name = once[k].name /\ twice[k].content.body = once[k].content.body
               /\ once[k].content.paths = <<>> => twice[k] = once[k]
    BY <2>4, <2>5, SanitizeToolCallIs
  <2>10. ASSUME NEW k \in 1..Len(calls)
         PROVE  /\ Told[k].name = calls[k].name /\ Told[k].content.body = calls[k].content.body
                /\ calls[k].content.paths = <<>> => Told[k].path = calls[k].path
    BY <2>6, <2>8, <2>9
  <2>11. DOMAIN Told = 1..Len(calls)
    BY <2>7
  <2> QED
    BY <2>7, <2>10, <2>11 DEF calls
<1> QED
  BY <1>1, ProxyInvariant, PTL

\* What the agent is told to do: the calls that llama-server found, sanitized, or
\* those that are found in the text.
LEMMA ToldAre ==
    ASSUME ProxyInv, Answered, ~Deep(upstream), Told # None
    PROVE  /\ IsMessage(upstream)
           /\ FoundItself => upstream.calls \in Seq(ToolCalls) /\ Told = SanitizeAll(upstream.calls)
           /\ ~FoundItself /\ upstream.text # None =>
                 upstream.text \in Seq(Segments) /\ Told = ExtractToolCalls(upstream.text)
<1> DEFINE m == upstream
           w == Whole(m)
           s == Assembled(Stream(m))
<1>1. IsMessage(m) /\ ~Deep(m) /\ reply = IF stream THEN Stream(m) ELSE Whole(m)
  BY DEF ProxyInv, Answered
<1>2. Told = IF stream THEN s.calls ELSE w.calls
  BY <1>1 DEF Told
<1> HIDE DEF w, s
<1>3. CASE FoundItself
  <2>1. /\ m.calls \in Seq(ToolCalls)
        /\ w = Message(m.text, SanitizeAll(m.calls), "tool_calls")
        /\ s = Message(None, SanitizeAll(SanitizeAll(m.calls)), "tool_calls")
    BY <1>1, <1>3, AnswerIs DEF FoundItself, w, s
  <2>2. \A k \in 1..Len(m.calls) : Shallow(m.calls[k])
    BY <1>1, <2>1, CallsAreSomething, NotDeep
  <2>3. SanitizeAll(SanitizeAll(m.calls)) = SanitizeAll(m.calls)
    BY <2>1, <2>2, SanitizeAllTwice
  <2>4. w.calls = SanitizeAll(m.calls) /\ s.calls = SanitizeAll(m.calls)
    BY <2>1, <2>3 DEF Message
  <2> QED
    BY <1>1, <1>2, <1>3, <2>1, <2>4
<1>4. CASE ~FoundItself
  <2> SUFFICES ASSUME m.text # None
               PROVE  m.text \in Seq(Segments) /\ Told = ExtractToolCalls(m.text)
    BY <1>1, <1>4
  <2> DEFINE found == ExtractToolCalls(m.text)
  <2>1. /\ m.text \in Seq(Segments)
        /\ \/ w = Message(None, found, "tool_calls") /\ s = w
           \/ m.calls = <<>> /\ found = <<>> /\ w = m /\ s = Message(None, None, "tool_calls")
           \/ /\ m.calls = None /\ w = m
              /\ s = Message(IF m.text = None THEN <<>> ELSE m.text, None, "stop")
    BY <1>1, <1>4, AnswerIs, CallsAreSomething DEF FoundItself, w, s
  <2> HIDE DEF found
  <2>2. CASE w = Message(None, found, "tool_calls") /\ s = w
    <3>1. Told = found
      BY <1>2, <2>2 DEF Message
    <3> QED
      BY <2>1, <3>1 DEF found
  <2>3. CASE m.calls = <<>> /\ found = <<>> /\ w = m /\ s = Message(None, None, "tool_calls")
    <3>1. w.calls = found /\ s.calls = None
      BY <2>3 DEF Message
    <3>2. Told = found
      BY <1>2, <3>1
    <3> QED
      BY <2>1, <3>2 DEF found
  <2>4. CASE /\ m.calls = None /\ w = m
             /\ s = Message(IF m.text = None THEN <<>> ELSE m.text, None, "stop")
    <3>1. w.calls = None /\ s.calls = None
      BY <2>4 DEF Message
    <3> QED
      BY <1>2, <3>1
  <2> QED
    BY <2>1, <2>2, <2>3, <2>4
<1> QED
  BY <1>3, <1>4

\* The files of the blocks are plain unless a block is wrapped twice, and then
\* sanitizing leaves them as they are.
LEMMA FilesArePlain ==
    ASSUME NEW text \in Seq(Segments),
           \A i \in 1..Len(text) : text[i].kind = "fence" => Len(text[i].content.paths) <= 1
    PROVE  LET writes == CodeBlocksAsWrites(text)
           IN  /\ writes \in Seq(ToolCalls) /\ SanitizeAll(writes) = writes
               /\ \A k \in 1..Len(writes) : writes[k].content.paths = <<>>
<1> DEFINE taken  == InOrder(TakenFences(text))
           writes == CodeBlocksAsWrites(text)
<1>1. /\ writes \in Seq(ToolCalls)
      /\ \A k \in 1..Len(writes) :
            /\ taken[k] \in TakenFences(text)
            /\ writes[k] = Write(Clean(FenceName(text, taken[k])), FenceContent(text[taken[k]]))
  BY BlocksAre
<1> HIDE DEF taken
<1>2. ASSUME NEW k \in 1..Len(writes) PROVE writes[k].content.paths = <<>>
  <2>1. taken[k] \in Fences(text)
    BY <1>1 DEF TakenFences
  <2>2. taken[k] \in 1..Len(text) /\ text[taken[k]].kind = "fence" /\ text[taken[k]].content \in Contents
    BY <2>1, NamesArePaths DEF Fences
  <2>3. FenceContent(text[taken[k]]).paths = <<>>
    BY <2>2, FenceContentIs
  <2>4. writes[k].content = FenceContent(text[taken[k]])
    <3> DEFINE path == Clean(FenceName(text, taken[k]))
               content == FenceContent(text[taken[k]])
    <3>1. writes[k] = Write(path, content)
      BY <1>1
    <3> HIDE DEF path, content
    <3>2. writes[k].content = content
      BY <3>1 DEF Write, ToolCall
    <3> QED
      BY <3>2 DEF content
  <2> QED
    BY <2>3, <2>4
<1> HIDE DEF writes
<1> DEFINE once == SanitizeAll(writes)
<1>3. once \in Seq(ToolCalls) /\ Len(once) = Len(writes)
  BY <1>1, SanitizeAllIs
<1>4. ASSUME NEW k \in 1..Len(writes) PROVE once[k] = writes[k]
  <2>1. once[k] = SanitizeToolCall(writes[k]) /\ writes[k] \in ToolCalls
    BY <1>1, SanitizeAllIs
  <2> QED
    BY <1>2, <2>1, SanitizeToolCallIs
<1> HIDE DEF once
<1>5. once = writes
  BY <1>1, <1>3, <1>4
<1> QED
  BY <1>1, <1>2, <1>5 DEF writes, once

(* No write that the agent is told to make, whichever form it was found    *)
(* in, has the text of a write command for its content.                    *)
THEOREM PlainTheorem == ProxySpec => []NoWriteOfAWrite
<1>1. ProxyInv => NoWriteOfAWrite
  <2> SUFFICES ASSUME ProxyInv, Answered, ~Deep(upstream), Told # None,
                      FoundItself \/ (upstream.text # None /\ ~Enveloped(upstream.text)),
                      NEW c \in Range(Told), c.name = "write", c.readable
               PROVE  c.content.paths = <<>>
    BY DEF NoWriteOfAWrite
  <2>1. IsMessage(upstream)
    BY ToldAre
  <2>2. PICK k \in DOMAIN Told : c = Told[k]
    BY DEF Range
  <2>3. CASE FoundItself
    <3>1. upstream.calls \in Seq(ToolCalls) /\ Told = SanitizeAll(upstream.calls)
      BY <2>3, ToldAre
    <3>2. /\ k \in 1..Len(upstream.calls) /\ upstream.calls[k] \in ToolCalls
          /\ c = SanitizeToolCall(upstream.calls[k])
      BY <2>2, <3>1, SanitizeAllIs
    <3>3. Shallow(upstream.calls[k])
      BY <2>1, <3>1, <3>2, CallsAreSomething, NotDeep
    <3> QED
      BY <3>2, <3>3, SanitizeToolCallIs
  <2>4. CASE ~FoundItself
    <3> DEFINE text == upstream.text
    <3>1. text # None /\ ~Enveloped(text) /\ text \in Seq(Segments) /\ Told = ExtractToolCalls(text)
      BY <2>4, ToldAre
    <3>2. \A i \in 1..Len(text) :
             /\ text[i].kind \in {"fence", "command"} => Len(text[i].content.paths) <= 1
             /\ text[i].kind = "bare" => Shallow(text[i].call)
      BY <2>1, <3>1, NotDeep
    <3> HIDE DEF text
    <3>3. FoundPlain(text, Told)
      BY <3>1, ExtractToolCallsAre
    <3>4. CASE /\ Sole(text, "bare") /\ text[1].call \in ToolCalls
               /\ Told = <<SanitizeToolCall(text[1].call)>>
      <4>1. Shallow(text[1].call) /\ c = SanitizeToolCall(text[1].call)
        BY <2>2, <3>2, <3>4 DEF Sole
      <4> QED
        BY <3>4, <4>1, SanitizeToolCallIs
    <3>5. CASE /\ Sole(text, "command") /\ text[1].content \in Contents /\ text[1].content.paths # <<>>
               /\ Told = <<Write(Clean(Head(text[1].content.paths)), ParsePseudoWrite(text[1].content).content)>>
      <4>1. Len(text[1].content.paths) <= 1
        BY <3>2, <3>5 DEF Sole
      <4>2. c.content = ParsePseudoWrite(text[1].content).content
        BY <2>2, <3>5 DEF Write, ToolCall
      <4> QED
        BY <3>5, <4>1, <4>2, ParsePseudoWriteIs
    <3>6. CASE Told = SanitizeAll(CodeBlocksAsWrites(text))
      <4> DEFINE writes == CodeBlocksAsWrites(text)
      <4>1. /\ writes \in Seq(ToolCalls) /\ Told = writes
            /\ \A j \in 1..Len(writes) : writes[j].content.paths = <<>>
        BY <3>1, <3>2, <3>6, FilesArePlain
      <4> HIDE DEF writes
      <4> QED
        BY <2>2, <4>1
    <3> QED
      BY <3>3, <3>4, <3>5, <3>6 DEF FoundPlain
  <2> QED
    BY <2>3, <2>4
<1> QED
  BY <1>1, ProxyInvariant, PTL

\* The first of the blocks for a path is taken.
LEMMA FirstIsTaken ==
    ASSUME NEW text \in Seq(Segments), NEW i \in Fences(text), Usable(text, i)
    PROVE  \E j \in TakenFences(text) : Clean(FenceName(text, j)) = Clean(FenceName(text, i))
<1> DEFINE Same == {j \in Fences(text) : Usable(text, j) /\ Clean(FenceName(text, j)) = Clean(FenceName(text, i))}
<1>1. Same \in SUBSET Nat /\ Same # {}
  BY DEF Fences
<1>2. PICK j \in Same : \A k \in Same : j <= k
  BY <1>1, Least
<1>3. Taken(text, j)
  <2>1. ASSUME NEW k \in Fences(text), k < j, Usable(text, k),
               Clean(FenceName(text, k)) = Clean(FenceName(text, j))
        PROVE  FALSE
    <3>1. k \in Same /\ k \in Nat /\ j \in Nat
      BY <1>1, <1>2, <2>1
    <3> QED
      BY <1>2, <2>1, <3>1
  <2> QED
    BY <1>2, <2>1 DEF Taken
<1> QED
  BY <1>2, <1>3 DEF TakenFences

(* However paths are spelt: one write for each path that a usable block    *)
(* names, with what the first block for the path holds.                    *)
THEOREM PathTheorem == ProxySpec => []OneWritePerPath
<1>1. ProxyInv => OneWritePerPath
  <2> SUFFICES ASSUME ProxyInv, Answered, ~Deep(upstream), ~FoundItself, upstream.text # None, Told # None,
                      Fences(upstream.text) # {}, ~Enveloped(upstream.text)
               PROVE  LET text  == upstream.text
                          paths == [k \in DOMAIN Told |-> Told[k].path]
                      IN  /\ IsInjective(paths)
                          /\ Range(paths) = {Clean(FenceName(text, i)) : i \in {j \in Fences(text) : Usable(text, j)}}
                          /\ \A k \in DOMAIN Told : \E i \in Fences(text) :
                                /\ Clean(FenceName(text, i)) = Told[k].path
                                /\ text[i].content.body = Told[k].content.body
                                /\ \A j \in Fences(text) :
                                      Usable(text, j) /\ Clean(FenceName(text, j)) = Told[k].path => i <= j
    BY DEF OneWritePerPath
  <2> DEFINE text == upstream.text
             name(i) == Clean(FenceName(text, i))
             taken == InOrder(TakenFences(text))
             n == Len(Told)
  <2>1. IsMessage(upstream) /\ text \in Seq(Segments) /\ Told = ExtractToolCalls(text)
    BY ToldAre
  <2>2. \A i \in 1..Len(text) : text[i].kind = "fence" => Len(text[i].content.paths) <= 1
    BY <2>1, NotDeep
  <2>f. Fences(text) # {} /\ ~Enveloped(text)
    OBVIOUS
  <2> HIDE DEF text
  <2>3. Told = CodeBlocksAsWrites(text)
    <3>1. FoundPlain(text, Told)
      BY <2>1, <2>f, ExtractToolCallsAre
    <3>2. ~Sole(text, "bare") /\ ~Sole(text, "command")
      BY <2>1, <2>f DEF Sole, Fences
    <3>3. Told = SanitizeAll(CodeBlocksAsWrites(text))
      BY <3>1, <3>2 DEF FoundPlain
    <3> QED
      BY <2>1, <2>2, <3>3, FilesArePlain
  <2>4. /\ Told \in Seq(ToolCalls) /\ DOMAIN Told = 1..n /\ n \in Nat
        /\ TakenFences(text) \in SUBSET (1..Len(text))
        /\ \A k \in 1..n : taken[k] \in TakenFences(text)
        /\ \A k \in 1..n : Told[k] = Write(name(taken[k]), FenceContent(text[taken[k]]))
        /\ \A j, k \in 1..n : j < k => taken[j] < taken[k]
        /\ \A i \in TakenFences(text) : \E k \in 1..n : taken[k] = i
    <3>1. Told \in Seq(ToolCalls)
      BY <2>1, <2>3, BlocksAre
    <3> QED
      BY <2>1, <2>3, <3>1, BlocksAre
  <2> HIDE DEF taken, n
  <2>5. ASSUME NEW k \in 1..n
        PROVE  /\ taken[k] \in Fences(text) /\ taken[k] \in Nat /\ Usable(text, taken[k])
               /\ Told[k].path = name(taken[k]) /\ Told[k].content.body = text[taken[k]].content.body
               /\ \A j \in Fences(text) : j < taken[k] /\ Usable(text, j) => name(j) # name(taken[k])
    <3>1. taken[k] \in Fences(text) /\ Taken(text, taken[k])
      BY <2>4 DEF TakenFences
    <3>2. text[taken[k]].content \in Contents /\ taken[k] \in Nat
      BY <2>1, <3>1, NamesArePaths
    <3>3. FenceContent(text[taken[k]]).body = text[taken[k]].content.body
      BY <3>2, FenceContentIs
    <3>4. Told[k].path = name(taken[k]) /\ Told[k].content = FenceContent(text[taken[k]])
      BY <2>4 DEF Write, ToolCall
    <3> QED
      BY <3>1, <3>2, <3>3, <3>4 DEF Taken
  <2> HIDE DEF name
  <2> DEFINE paths == [k \in DOMAIN Told |-> Told[k].path]
             named == {name(i) : i \in {j \in Fences(text) : Usable(text, j)}}
  <2>6. IsInjective(paths)
    <3>1. ASSUME NEW j \in 1..n, NEW k \in 1..n, j < k PROVE name(taken[j]) # name(taken[k])
      BY <2>4, <2>5, <3>1
    <3>2. ASSUME NEW j \in 1..n, NEW k \in 1..n, Told[j].path = Told[k].path PROVE j = k
      <4>1. name(taken[j]) = name(taken[k])
        BY <2>5, <3>2
      <4>2. ~(j < k) /\ ~(k < j)
        BY <3>1, <4>1
      <4> QED
        BY <2>4, <4>2
    <3> QED
      BY <2>4, <3>2 DEF IsInjective
  <2>7. Range(paths) = named
    <3>1. ASSUME NEW p \in Range(paths) PROVE p \in named
      <4>1. PICK k \in 1..n : p = Told[k].path
        BY <2>4 DEF Range
      <4> QED
        BY <2>5, <4>1
    <3>2. ASSUME NEW i \in Fences(text), Usable(text, i) PROVE name(i) \in Range(paths)
      <4>1. PICK j \in TakenFences(text) : name(j) = name(i)
        BY <2>1, <3>2, FirstIsTaken DEF name
      <4>2. PICK k \in 1..n : taken[k] = j
        BY <2>4
      <4>3. Told[k].path = name(i)
        BY <2>5, <4>1, <4>2
      <4> QED
        BY <2>4, <4>3 DEF Range
    <3> QED
      BY <3>1, <3>2
  <2>8. ASSUME NEW k \in DOMAIN Told
        PROVE  \E i \in Fences(text) :
                  /\ name(i) = Told[k].path /\ text[i].content.body = Told[k].content.body
                  /\ \A j \in Fences(text) : Usable(text, j) /\ name(j) = Told[k].path => i <= j
    <3>1. k \in 1..n
      BY <2>4
    <3>2. \A j \in Fences(text) : Usable(text, j) /\ name(j) = Told[k].path => taken[k] <= j
      <4> SUFFICES ASSUME NEW j \in Fences(text), Usable(text, j), name(j) = Told[k].path PROVE taken[k] <= j
        OBVIOUS
      <4>1. j \in Nat
        BY <2>1 DEF Fences
      <4> QED
        BY <2>5, <3>1, <4>1
    <3> QED
      BY <2>5, <3>1, <3>2
  <2> QED
    BY <2>6, <2>7, <2>8 DEF text, name
<1> QED
  BY <1>1, ProxyInvariant, PTL
=============================================================================
