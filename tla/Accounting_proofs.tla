-------------------------- MODULE Accounting_proofs --------------------------
(***************************************************************************)
(* A cost taken from the key's usage is the run's own: CostIsOwn holds for *)
(* any processes, models, usages and loads.  The argument follows one run  *)
(* that is alone on the key: while its agent works nothing is owed and the *)
(* first look is still what has been billed; once it has been charged, the *)
(* first look and the charge make up what has been billed or is owed.      *)
(* RanksAgree follows from what any two results can be, and                *)
(* PassAtKIsTheChance from counting the ways to draw trials.               *)
(***************************************************************************)
EXTENDS Accounting, FiniteSetTheorems, WellFoundedInduction, TLAPS

Phases == {"idle", "trial", "agent", "account"}

TypeInv ==
    /\ pc \in [Procs -> Phases]
    /\ first \in [Procs -> Nat \cup {None}]
    /\ model \in [Procs -> Models \cup {None}]
    /\ spend \in [Procs -> [usage : Usages, cost : Nat] \cup {None}]
    /\ usage \in Nat /\ owed \in Nat
    /\ alone \in SUBSET Procs

\* what a process has at hand in each phase
InHand ==
    \A p \in Procs :
        /\ pc[p] \in {"agent", "account"} => model[p] \in Models
        /\ pc[p] = "account" => spend[p] \in [usage : Usages, cost : Nat]

\* nobody else's agent works while a process is alone on the key
Alone == \A p \in alone, q \in Procs : q # p => pc[q] # "agent"

\* the key, as seen by a process that is alone on it
Balance ==
    \A p \in alone :
        /\ pc[p] = "agent" => owed = 0 /\ first[p] \in {None, usage}
        /\ pc[p] = "account" /\ first[p] # None => first[p] + spend[p].cost = usage + owed

KeyInv == TypeInv /\ InHand /\ Alone /\ Balance

CostInv == KeyInv /\ CostIsOwn

----------------------------------------------------------------------------
\* A charge is a natural number, whatever the model and the tokens.
LEMMA ChargeIsNat ==
    ASSUME NEW m \in Models, NEW u \in Usages
    PROVE  TokenCost(ForModel[m], u) \in Nat
<1> DEFINE r == ForModel[m]
<1>1. r.prompt \in Nat /\ r.completion \in Nat /\ r.cached \in Nat
  BY PricesAssumption
<1>2. u.prompt \in Nat /\ u.completion \in Nat /\ u.cached \in Nat
  BY PricesAssumption
<1> HIDE DEF r
<1>3. u.prompt * r.prompt \in Nat /\ u.cached * r.cached \in Nat /\ u.completion * r.completion \in Nat
  BY <1>1, <1>2
<1>4. TokenCost(r, u) \in Nat
  BY <1>3 DEF TokenCost
<1> QED
  BY <1>4 DEF r

\* A process that leaves a trial takes nothing from the key and forgets its own part.
LEMMA ForgetKeepsKey ==
    ASSUME KeyInv, NEW p \in Procs, NEW next \in {"idle", "trial"},
           Go(p, next), Forget(p)
    PROVE  KeyInv'
<1>1. TypeInv'
  BY DEF KeyInv, TypeInv, Go, Forget, Phases
<1>2. pc' = [pc EXCEPT ![p] = next] /\ UNCHANGED <<usage, owed, alone>>
  BY DEF Go, Forget
<1>3. \A q \in Procs : q # p => pc'[q] = pc[q] /\ first'[q] = first[q] /\ model'[q] = model[q] /\ spend'[q] = spend[q]
  BY DEF Go, Forget, KeyInv, TypeInv
<1>4. pc'[p] \notin {"agent", "account"}
  BY <1>2 DEF KeyInv, TypeInv
<1>5. InHand'
  BY <1>3, <1>4 DEF KeyInv, InHand
<1>6. Alone'
  BY <1>2, <1>3, <1>4 DEF KeyInv, Alone, TypeInv
<1>7. Balance'
  BY <1>2, <1>3, <1>4 DEF KeyInv, Balance, TypeInv
<1> QED
  BY <1>1, <1>5, <1>6, <1>7 DEF KeyInv

\* What follows a trial is such a departure.
LEMMA TrialOverKeepsKey ==
    ASSUME KeyInv, NEW p \in Procs, NEW passed, NEW broken, TrialOver(p, passed, broken)
    PROVE  KeyInv'
<1>1. Forget(p)
  BY DEF TrialOver
<1>2. Go(p, "idle") \/ Go(p, "trial")
  BY DEF TrialOver, Leave
<1>3. PICK next \in {"idle", "trial"} : Go(p, next)
  BY <1>2
<1> QED
  BY <1>1, <1>3, ForgetKeepsKey

\* What the key's usage has grown by is what the agent was charged, if the
\* process is alone on the key and nothing is owed.
LEMMA DeltaIsOwn ==
    ASSUME KeyInv, NEW p \in alone, pc[p] = "account", owed = 0, NEW cost \in SpendDeltas(p)
    PROVE  cost = spend[p].cost
<1>1. p \in Procs /\ first[p] # None /\ cost = usage - first[p]
  BY DEF KeyInv, TypeInv, SpendDeltas
<1>2. first[p] \in Nat /\ spend[p].cost \in Nat /\ usage \in Nat
  BY <1>1 DEF KeyInv, TypeInv, InHand
<1>3. first[p] + spend[p].cost = usage
  BY <1>1, <1>2 DEF KeyInv, Balance
<1> QED
  BY <1>1, <1>2, <1>3

LEMMA CostInvInit == Init => CostInv
  BY DEF Init, CostInv, KeyInv, TypeInv, InHand, Alone, Balance, CostIsOwn, Phases

LEMMA CostInvStep == CostInv /\ [Next]_vars => CostInv'
<1> SUFFICES ASSUME CostInv, [Next]_vars PROVE CostInv'
  OBVIOUS
<1>k. KeyInv /\ CostIsOwn
  BY DEF CostInv
<1>1. CASE Bill
  <2>1. /\ usage' = usage + owed /\ owed' = 0 /\ owed > 0
        /\ UNCHANGED <<pc, first, model, spend, alone, results>>
    BY <1>1 DEF Bill, trials
  <2>2. TypeInv'
    BY <1>k, <2>1 DEF KeyInv, TypeInv
  <2>3. InHand' /\ Alone'
    BY <1>k, <2>1 DEF KeyInv, InHand, Alone
  <2>4. Balance'
    BY <1>k, <2>1 DEF KeyInv, Balance, TypeInv
  <2>5. CostIsOwn'
    BY <1>k, <2>1 DEF CostIsOwn
  <2> QED
    BY <2>2, <2>3, <2>4, <2>5 DEF CostInv, KeyInv
<1>2. ASSUME NEW p \in Procs, Begin(p) PROVE CostInv'
  <2>1. /\ pc[p] = "idle" /\ pc' = [pc EXCEPT ![p] = "trial"]
        /\ UNCHANGED <<first, model, spend, usage, owed, alone, results>>
    BY <1>2 DEF Begin, money, Go
  <2>2. TypeInv'
    BY <1>k, <2>1 DEF KeyInv, TypeInv, Phases
  <2>3. InHand' /\ Alone' /\ Balance'
    BY <1>k, <2>1 DEF KeyInv, TypeInv, InHand, Alone, Balance
  <2>4. CostIsOwn'
    BY <1>k, <2>1 DEF CostIsOwn
  <2> QED
    BY <2>2, <2>3, <2>4 DEF CostInv, KeyInv
<1>3. ASSUME NEW p \in Procs, LookUp(p) PROVE CostInv'
  <2>1. PICK known \in BOOLEAN, m \in Models :
          /\ first' = [first EXCEPT ![p] = IF known THEN usage ELSE None]
          /\ model' = [model EXCEPT ![p] = m]
    BY <1>3 DEF LookUp
  <2>2. /\ pc' = [pc EXCEPT ![p] = "agent"]
        /\ alone' = IF owed = 0 /\ \A q \in Procs \ {p} : pc[q] # "agent" THEN {p} ELSE {}
        /\ UNCHANGED <<spend, usage, owed, results>>
    BY <1>3 DEF LookUp, Go
  <2>3. TypeInv'
    BY <1>k, <2>1, <2>2 DEF KeyInv, TypeInv, Phases
  <2>4. InHand'
    BY <1>k, <2>1, <2>2 DEF KeyInv, TypeInv, InHand
  <2>5. Alone'
    BY <1>k, <2>2 DEF KeyInv, TypeInv, Alone
  <2>6. Balance'
    <3>1. pc'[p] = "agent" /\ first'[p] \in {None, usage}
      BY <1>k, <2>1, <2>2 DEF KeyInv, TypeInv
    <3>2. alone' \subseteq {p} /\ (alone' # {} => owed' = 0)
      BY <2>2
    <3> QED
      BY <3>1, <3>2, <2>2 DEF Balance
  <2>7. CostIsOwn'
    BY <1>k, <2>2 DEF CostIsOwn
  <2> QED
    BY <2>3, <2>4, <2>5, <2>6, <2>7 DEF CostInv, KeyInv
<1>4. ASSUME NEW p \in Procs, Charge(p) PROVE CostInv'
  <2>1. pc[p] = "agent" /\ model[p] \in Models
    BY <1>k, <1>4 DEF Charge, KeyInv, InHand
  <2>2. PICK u \in Usages :
          LET c == TokenCost(ForModel[model[p]], u)
          IN  spend' = [spend EXCEPT ![p] = [usage |-> u, cost |-> c]] /\ owed' = owed + c
    BY <1>4 DEF Charge
  <2> DEFINE c == TokenCost(ForModel[model[p]], u)
  <2>3. c \in Nat
    BY <2>1, ChargeIsNat
  <2>4. spend' = [spend EXCEPT ![p] = [usage |-> u, cost |-> c]] /\ owed' = owed + c
    BY <2>2
  <2> HIDE DEF c
  <2>5. /\ pc' = [pc EXCEPT ![p] = "account"]
        /\ UNCHANGED <<first, model, usage, alone, results>>
    BY <1>4 DEF Charge, Go
  <2>6. TypeInv'
    BY <1>k, <2>3, <2>4, <2>5 DEF KeyInv, TypeInv, Phases
  <2>7. InHand'
    BY <1>k, <2>1, <2>3, <2>4, <2>5 DEF KeyInv, TypeInv, InHand
  <2>8. Alone'
    BY <1>k, <2>5 DEF KeyInv, TypeInv, Alone
  <2>9. Balance'
    <3> SUFFICES ASSUME NEW q \in alone'
                 PROVE  /\ pc'[q] = "agent" => owed' = 0 /\ first'[q] \in {None, usage'}
                        /\ pc'[q] = "account" /\ first'[q] # None =>
                              first'[q] + spend'[q].cost = usage' + owed'
      BY DEF Balance
    <3>1. q = p
      BY <1>k, <2>1, <2>5 DEF KeyInv, Alone
    <3>2. pc'[p] = "account" /\ spend'[p].cost = c /\ first'[p] = first[p]
      BY <1>k, <2>4, <2>5 DEF KeyInv, TypeInv
    <3>3. owed = 0 /\ first[p] \in {None, usage}
      BY <1>k, <2>1, <2>5, <3>1 DEF KeyInv, Balance
    <3>4. usage \in Nat /\ usage' = usage /\ owed' = c
      BY <1>k, <2>3, <2>4, <2>5, <3>3 DEF KeyInv, TypeInv
    <3> QED
      BY <2>3, <3>1, <3>2, <3>3, <3>4
  <2>10. CostIsOwn'
    BY <1>k, <2>5 DEF CostIsOwn
  <2> QED
    BY <2>6, <2>7, <2>8, <2>9, <2>10 DEF CostInv, KeyInv
<1>5. ASSUME NEW p \in Procs, Account(p) PROVE CostInv'
  <2>1. pc[p] = "account"
    BY <1>5 DEF Account
  <2>2. PICK ran : TrialOver(p, ran, FALSE)
    BY <1>5 DEF Account
  <2>3. KeyInv'
    BY <1>k, <2>2, TrialOverKeepsKey
  <2>4. CostIsOwn'
    <3> SUFFICES ASSUME NEW x \in results', x.live, x.own PROVE x.cost = x.spend
      BY DEF CostIsOwn
    <3>1. CASE x \in results
      BY <1>k, <3>1 DEF CostIsOwn
    <3>2. CASE x \notin results
      <4>1. PICK passed \in {Stages - 1, Stages}, seconds \in Durations : \E load : Recorded(p, passed, seconds, load)
        BY <1>5 DEF Account
      <4>2. PICK load : Recorded(p, passed, seconds, load)
        BY <4>1
      <4>3. \E live \in BOOLEAN : \E cost \in Costs(p, live) :
              x = Entry(p, passed, seconds, load, live, cost)
        BY <4>2, <3>2 DEF Recorded
      <4>4. PICK live \in BOOLEAN : \E cost \in Costs(p, live) :
              x = Entry(p, passed, seconds, load, live, cost)
        BY <4>3
      <4>5. PICK cost \in Costs(p, live) : x = Entry(p, passed, seconds, load, live, cost)
        BY <4>4
      <4>6. live /\ p \in alone /\ owed = 0 /\ x.cost = cost /\ x.spend = spend[p].cost
        BY <4>5 DEF Entry
      <4>7. cost \in SpendDeltas(p)
        BY <4>6 DEF Costs
      <4> QED
        BY <1>k, <2>1, <4>6, <4>7, DeltaIsOwn
    <3> QED
      BY <3>1, <3>2
  <2> QED
    BY <2>3, <2>4 DEF CostInv
<1>6. ASSUME NEW p \in Procs, Fails(p) PROVE CostInv'
  <2>1. TrialOver(p, passing[p], p # Cli) /\ UNCHANGED results
    BY <1>6 DEF Fails
  <2>2. KeyInv'
    BY <1>k, <2>1, TrialOverKeepsKey
  <2>3. CostIsOwn'
    BY <1>k, <2>1 DEF CostIsOwn
  <2> QED
    BY <2>2, <2>3 DEF CostInv
<1>7. ASSUME NEW p \in Procs, Stop(p) PROVE CostInv'
  <2>1. Go(p, "idle") /\ Forget(p) /\ UNCHANGED results
    BY <1>7 DEF Stop, Leave
  <2>2. KeyInv'
    BY <1>k, <2>1, ForgetKeepsKey
  <2>3. CostIsOwn'
    BY <1>k, <2>1 DEF CostIsOwn
  <2> QED
    BY <2>2, <2>3 DEF CostInv
<1>8. CASE UNCHANGED vars
  BY <1>k, <1>8 DEF CostInv, KeyInv, TypeInv, InHand, Alone, Balance, CostIsOwn, vars, trials, money
<1> QED
  BY <1>1, <1>2, <1>3, <1>4, <1>5, <1>6, <1>7, <1>8 DEF Next

(* Whoever else uses the key, and whenever charges are billed: a cost that *)
(* execute takes from the key's usage for a run that was alone on it is    *)
(* what the run's own agent was charged.                                   *)
THEOREM CostTheorem == Spec => []CostIsOwn
<1>1. CostInv => CostIsOwn
  BY DEF CostInv
<1> QED
  BY <1>1, CostInvInit, CostInvStep, PTL DEF Spec

----------------------------------------------------------------------------
(* The two orders, for any results.                                        *)

Rated(r) ==
    r.passed \in 0..Stages /\ r.effective \in Nat /\ r.speed \in Nat /\ r.reference \in Nat

LEMMA SignMeans ==
    ASSUME NEW x \in Nat, NEW y \in Nat
    PROVE  /\ Sign(x, y) = "more" <=> x > y
           /\ Sign(x, y) = "same" <=> x = y
  BY DEF Sign

\* The first comparison that tells two results apart decides.
LEMMA FirstOfFour ==
    ASSUME NEW s, NEW t, NEW u, NEW v, Precedes(<<s, t, u, v>>)
    PROVE  \/ s = "more"
           \/ s = "same" /\ t = "more"
           \/ s = "same" /\ t = "same" /\ u = "more"
           \/ s = "same" /\ t = "same" /\ u = "same" /\ v = "more"
<1> DEFINE order == <<s, t, u, v>>
<1>1. PICK i \in 1..4 : order[i] = "more" /\ \A j \in 1..(i - 1) : order[j] = "same"
  BY DEF Precedes
<1>2. CASE i = 1
  BY <1>1, <1>2
<1>3. CASE i = 2
  <2>1. 1 \in 1..(i - 1)
    BY <1>3
  <2> QED
    BY <1>1, <1>3, <2>1
<1>4. CASE i = 3
  <2>1. 1 \in 1..(i - 1) /\ 2 \in 1..(i - 1)
    BY <1>4
  <2> QED
    BY <1>1, <1>4, <2>1
<1>5. CASE i = 4
  <2>1. 1 \in 1..(i - 1) /\ 2 \in 1..(i - 1) /\ 3 \in 1..(i - 1)
    BY <1>5
  <2> QED
    BY <1>1, <1>5, <2>1
<1> QED
  BY <1>1, <1>2, <1>3, <1>4, <1>5

LEMMA FirstOfFive ==
    ASSUME NEW s, NEW t, NEW u, NEW v, NEW w, Precedes(<<s, t, u, v, w>>)
    PROVE  \/ s = "more"
           \/ s = "same" /\ t = "more"
           \/ s = "same" /\ t = "same" /\ u = "more"
           \/ s = "same" /\ t = "same" /\ u = "same" /\ v = "more"
           \/ s = "same" /\ t = "same" /\ u = "same" /\ v = "same" /\ w = "more"
<1> DEFINE order == <<s, t, u, v, w>>
<1>1. PICK i \in 1..5 : order[i] = "more" /\ \A j \in 1..(i - 1) : order[j] = "same"
  BY DEF Precedes
<1>2. CASE i = 1
  BY <1>1, <1>2
<1>3. CASE i = 2
  <2>1. 1 \in 1..(i - 1)
    BY <1>3
  <2> QED
    BY <1>1, <1>3, <2>1
<1>4. CASE i = 3
  <2>1. 1 \in 1..(i - 1) /\ 2 \in 1..(i - 1)
    BY <1>4
  <2> QED
    BY <1>1, <1>4, <2>1
<1>5. CASE i = 4
  <2>1. 1 \in 1..(i - 1) /\ 2 \in 1..(i - 1) /\ 3 \in 1..(i - 1)
    BY <1>5
  <2> QED
    BY <1>1, <1>5, <2>1
<1>6. CASE i = 5
  <2>1. 1 \in 1..(i - 1) /\ 2 \in 1..(i - 1) /\ 3 \in 1..(i - 1) /\ 4 \in 1..(i - 1)
    BY <1>6
  <2> QED
    BY <1>1, <1>6, <2>1
<1> QED
  BY <1>1, <1>2, <1>3, <1>4, <1>5, <1>6

\* A product grows with its second factor.
LEMMA TimesGrows ==
    ASSUME NEW m \in Nat, NEW x \in Nat, NEW y \in Nat
    PROVE  /\ m * x \in Nat
           /\ x <= y => m * x <= m * y
           /\ x < y /\ m > 0 => m * x < m * y
  OBVIOUS

\* What speeds have to be for a score to be higher although each point costs
\* more: n requests against d of the reference, at a price of m.
LEMMA FasterForMore ==
    ASSUME NEW na \in Nat, NEW da \in Nat \ {0}, NEW ma \in Nat \ {0},
           NEW nb \in Nat, NEW db \in Nat \ {0}, NEW mb \in Nat \ {0},
           ma >= mb,
           (da + 2 * na) * (mb * db) >= (db + 2 * nb) * (ma * da),
           ma = mb => (da + 2 * na) * (mb * db) > (db + 2 * nb) * (ma * da)
    PROVE  na * db > nb * da
<1> DEFINE x == (da + 2 * na) * db
           y == (db + 2 * nb) * da
<1>1. x = da * db + 2 * (na * db) /\ y = da * db + 2 * (nb * da)
  OBVIOUS
<1>2. na * db \in Nat /\ nb * da \in Nat /\ da * db \in Nat /\ da * db > 0
  OBVIOUS
<1>3. x \in Nat /\ y \in Nat /\ y > 0
  BY <1>1, <1>2
<1>4. (da + 2 * na) * (mb * db) = mb * x /\ (db + 2 * nb) * (ma * da) = ma * y
  OBVIOUS
<1> HIDE DEF x, y
<1>5. mb * x >= ma * y /\ (ma = mb => mb * x > ma * y)
  BY <1>4
<1>6. x > y
  <2> SUFFICES ASSUME x <= y PROVE FALSE
    BY <1>3
  <2>1. mb * x <= mb * y /\ mb * y \in Nat /\ mb * x \in Nat
    BY <1>3, TimesGrows
  <2>2. ma > mb
    BY <1>5, <2>1
  <2>3. y * mb < y * ma
    BY <1>3, <2>2, TimesGrows
  <2>4. y * mb = mb * y /\ y * ma = ma * y /\ ma * y \in Nat
    BY <1>3
  <2> QED
    BY <1>5, <2>1, <2>3, <2>4
<1> QED
  BY <1>1, <1>2, <1>6

\* What a result's scores are made of.
Price(r) == IF r.effective > 10 THEN r.effective ELSE 10
Reference(r) == IF r.reference > 0 THEN r.reference ELSE 33
Scores(r) == Full(r) /\ r.effective > 0

LEMMA ScoreParts ==
    ASSUME NEW r, Rated(r)
    PROVE  /\ Price(r) \in Nat \ {0} /\ Reference(r) \in Nat \ {0}
           /\ SpeedRatio(r) = Over(r.speed, Reference(r))
           /\ Efficiency(r) = IF Scores(r) THEN Over(1, Price(r)) ELSE Over(0, 1)
           /\ ThroughputScore(r) =
                IF Scores(r) THEN Over(Reference(r) + 2 * r.speed, Price(r) * Reference(r))
                ELSE Over(0, Reference(r))
<1>1. Price(r) \in Nat \ {0} /\ Reference(r) \in Nat \ {0} /\ r.speed \in Nat
  BY DEF Price, Reference, Rated
<1>2. SpeedRatio(r) = Over(r.speed, Reference(r))
  BY DEF SpeedRatio, Reference
<1>3. Efficiency(r) = IF Scores(r) THEN Over(1, Price(r)) ELSE Over(0, 1)
  BY DEF Efficiency, Scores, Price, Rated
<1>4. /\ 1 * (Reference(r) + 2 * r.speed) = Reference(r) + 2 * r.speed
      /\ 0 * (Reference(r) + 2 * r.speed) = 0
      /\ 1 * Reference(r) = Reference(r)
  BY <1>1
<1>5. ThroughputScore(r) =
        Over(Efficiency(r).num * (Reference(r) + 2 * r.speed), Efficiency(r).den * Reference(r))
  BY <1>2 DEF ThroughputScore, Over
<1> QED
  BY <1>1, <1>2, <1>3, <1>4, <1>5 DEF Over

\* Two results that both score are compared by their prices, and by their speeds
\* over their prices; one that scores is above one that does not.
LEMMA ComparedScores ==
    ASSUME NEW a, NEW b, Rated(a), Rated(b)
    PROVE  /\ Scores(a) /\ Scores(b) =>
                /\ Compare(Efficiency(a), Efficiency(b)) = Sign(Price(b), Price(a))
                /\ Compare(ThroughputScore(a), ThroughputScore(b)) =
                     Sign((Reference(a) + 2 * a.speed) * (Price(b) * Reference(b)),
                          (Reference(b) + 2 * b.speed) * (Price(a) * Reference(a)))
           /\ Scores(a) /\ ~Scores(b) =>
                /\ Compare(Efficiency(a), Efficiency(b)) = "more"
                /\ Compare(ThroughputScore(a), ThroughputScore(b)) = "more"
           /\ ~Scores(a) /\ Scores(b) =>
                /\ Compare(Efficiency(a), Efficiency(b)) = "less"
                /\ Compare(ThroughputScore(a), ThroughputScore(b)) = "less"
           /\ ~Scores(a) /\ ~Scores(b) =>
                /\ Compare(Efficiency(a), Efficiency(b)) = "same"
                /\ Compare(ThroughputScore(a), ThroughputScore(b)) = "same"
<1> DEFINE pa == Price(a)
           pb == Price(b)
           ra == Reference(a)
           rb == Reference(b)
           wa == Reference(a) + 2 * a.speed
           wb == Reference(b) + 2 * b.speed
<1>1. /\ pa \in Nat \ {0} /\ pb \in Nat \ {0} /\ ra \in Nat \ {0} /\ rb \in Nat \ {0}
      /\ wa \in Nat \ {0} /\ wb \in Nat \ {0}
  BY ScoreParts DEF Rated
<1>2. /\ Efficiency(a) = IF Scores(a) THEN Over(1, pa) ELSE Over(0, 1)
      /\ Efficiency(b) = IF Scores(b) THEN Over(1, pb) ELSE Over(0, 1)
      /\ ThroughputScore(a) = IF Scores(a) THEN Over(wa, pa * ra) ELSE Over(0, ra)
      /\ ThroughputScore(b) = IF Scores(b) THEN Over(wb, pb * rb) ELSE Over(0, rb)
  BY ScoreParts
<1> HIDE DEF pa, pb, ra, rb, wa, wb
<1>3. /\ 1 * pb = pb /\ 1 * pa = pa /\ 0 * pa = 0 /\ 0 * pb = 0 /\ 1 * 1 = 1 /\ 0 * 1 = 0
      /\ wa * rb \in Nat \ {0} /\ wb * ra \in Nat \ {0}
      /\ pa * ra \in Nat /\ pb * rb \in Nat
      /\ 0 * (pa * ra) = 0 /\ 0 * (pb * rb) = 0 /\ 0 * ra = 0 /\ 0 * rb = 0
  BY <1>1
<1>4. CASE Scores(a) /\ Scores(b)
  BY <1>2, <1>3, <1>4 DEF Compare, Over, pa, pb, ra, rb, wa, wb
<1>5. CASE Scores(a) /\ ~Scores(b)
  BY <1>2, <1>3, <1>5 DEF Compare, Over, Sign
<1>6. CASE ~Scores(a) /\ Scores(b)
  BY <1>2, <1>3, <1>6 DEF Compare, Over, Sign
<1>7. CASE ~Scores(a) /\ ~Scores(b)
  BY <1>2, <1>3, <1>7 DEF Compare, Over, Sign
<1> QED
  BY <1>4, <1>5, <1>6, <1>7

LEMMA OrdersAgree ==
    ASSUME NEW a, NEW b, Rated(a), Rated(b),
           Precedes(LeaderboardOrder(a, b)), Precedes(SummaryOrder(b, a))
    PROVE  /\ Full(a) /\ Full(b)
           /\ Compare(SpeedRatio(a), SpeedRatio(b)) = "more"
           /\ a.effective > b.effective \/ (a.effective = b.effective /\ a.speed < b.speed)
<1> DEFINE score == Compare(ThroughputScore(a), ThroughputScore(b))
           cheap == Compare(Efficiency(b), Efficiency(a))
<1>1. /\ a.passed \in Nat /\ b.passed \in Nat /\ a.passed <= Stages /\ b.passed <= Stages
      /\ a.effective \in Nat /\ b.effective \in Nat /\ a.speed \in Nat /\ b.speed \in Nat
      /\ Stages \in Nat
  BY DEF Rated, Stages
<1>2. /\ Full(a) <=> a.passed = Stages
      /\ Full(b) <=> b.passed = Stages
  BY DEF Full
<1>3. \/ a.passed > b.passed
      \/ /\ a.passed = b.passed
         /\ \/ score = "more"
            \/ score = "same" /\ b.effective > a.effective
            \/ score = "same" /\ b.effective = a.effective /\ a.speed > b.speed
  <2> DEFINE s == Sign(IF Full(a) THEN 1 ELSE 0, IF Full(b) THEN 1 ELSE 0)
             t == Sign(a.passed, b.passed)
             v == Sign(b.effective, a.effective)
             w == Sign(a.speed, b.speed)
  <2>1. Precedes(<<s, t, score, v, w>>)
    BY DEF LeaderboardOrder
  <2>2. /\ s = "more" => Full(a) /\ ~Full(b)
        /\ t = "more" <=> a.passed > b.passed
        /\ t = "same" <=> a.passed = b.passed
        /\ v = "more" <=> b.effective > a.effective
        /\ v = "same" <=> b.effective = a.effective
        /\ w = "more" <=> a.speed > b.speed
    BY <1>1, SignMeans DEF Sign
  <2> HIDE DEF s, t, v, w, score
  <2>3. \/ s = "more"
        \/ t = "more"
        \/ t = "same" /\ score = "more"
        \/ t = "same" /\ score = "same" /\ v = "more"
        \/ t = "same" /\ score = "same" /\ v = "same" /\ w = "more"
    BY <2>1, FirstOfFive
  <2>4. s = "more" => a.passed > b.passed
    BY <1>1, <1>2, <2>2
  <2> QED
    BY <2>2, <2>3, <2>4
<1>4. \/ b.passed > a.passed
      \/ /\ a.passed = b.passed
         /\ \/ cheap = "more"
            \/ cheap = "same" /\ a.effective > b.effective
            \/ cheap = "same" /\ a.effective = b.effective /\ b.speed > a.speed
  <2> DEFINE t == Sign(b.passed, a.passed)
             v == Sign(a.effective, b.effective)
             w == Sign(b.speed, a.speed)
  <2>1. Precedes(<<t, cheap, v, w>>)
    BY DEF SummaryOrder
  <2>2. /\ t = "more" <=> b.passed > a.passed
        /\ t = "same" <=> a.passed = b.passed
        /\ v = "more" <=> a.effective > b.effective
        /\ v = "same" <=> a.effective = b.effective
        /\ w = "more" <=> b.speed > a.speed
    BY <1>1, SignMeans
  <2> HIDE DEF t, v, w, cheap
  <2>3. \/ t = "more"
        \/ t = "same" /\ cheap = "more"
        \/ t = "same" /\ cheap = "same" /\ v = "more"
        \/ t = "same" /\ cheap = "same" /\ v = "same" /\ w = "more"
    BY <2>1, FirstOfFour
  <2> QED
    BY <2>2, <2>3
<1>5. a.passed = b.passed /\ (Full(a) <=> Full(b))
  BY <1>1, <1>2, <1>3, <1>4
<1>6. score \in {"more", "same"} /\ cheap \in {"more", "same"}
  BY <1>1, <1>3, <1>4, <1>5
<1>7. Scores(a) /\ Scores(b)
  <2>1. CASE Scores(a) /\ ~Scores(b)
    BY <1>6, <2>1, ComparedScores
  <2>2. CASE ~Scores(a) /\ Scores(b)
    BY <1>6, <2>2, ComparedScores
  <2>3. CASE ~Scores(a) /\ ~Scores(b)
    <3>1. score = "same" /\ cheap = "same"
      BY <2>3, ComparedScores
    <3> HIDE DEF score, cheap
    <3> QED
      BY <1>1, <1>3, <1>4, <1>5, <3>1
  <2> QED
    BY <2>1, <2>2, <2>3
<1>8. /\ cheap = Sign(Price(a), Price(b))
      /\ score = Sign((Reference(a) + 2 * a.speed) * (Price(b) * Reference(b)),
                      (Reference(b) + 2 * b.speed) * (Price(a) * Reference(a)))
  BY <1>7, ComparedScores
<1>9. /\ Price(a) \in Nat \ {0} /\ Price(b) \in Nat \ {0}
      /\ Reference(a) \in Nat \ {0} /\ Reference(b) \in Nat \ {0}
  BY ScoreParts
<1>10. /\ cheap = "more" => Price(a) > Price(b)
       /\ cheap = "same" => Price(a) = Price(b)
  BY <1>8, <1>9, SignMeans
<1>11. Price(a) > Price(b) => a.effective > b.effective
  BY <1>1 DEF Price
<1> HIDE DEF score, cheap
<1>12. a.effective > b.effective \/ (a.effective = b.effective /\ a.speed < b.speed)
  BY <1>1, <1>4, <1>5, <1>10, <1>11
<1>13. score = "more"
  BY <1>1, <1>3, <1>5, <1>12
<1>14. a.speed * Reference(b) > b.speed * Reference(a)
  <2> DEFINE x == (Reference(a) + 2 * a.speed) * (Price(b) * Reference(b))
             y == (Reference(b) + 2 * b.speed) * (Price(a) * Reference(a))
  <2>1. x \in Nat /\ y \in Nat
    <3>1. /\ Price(b) * Reference(b) \in Nat /\ Price(a) * Reference(a) \in Nat
          /\ Reference(a) + 2 * a.speed \in Nat /\ Reference(b) + 2 * b.speed \in Nat
      BY <1>1, <1>9
    <3> QED
      BY <3>1, TimesGrows
  <2>2. x > y
    BY <1>8, <1>13, <2>1, SignMeans
  <2>3. x >= y
    BY <2>1, <2>2
  <2>4. Price(a) >= Price(b)
    BY <1>4, <1>5, <1>1, <1>9, <1>10
  <2> QED
    BY <1>1, <1>9, <2>2, <2>3, <2>4, FasterForMore
<1>15. Compare(SpeedRatio(a), SpeedRatio(b)) = "more"
  <2>1. Compare(SpeedRatio(a), SpeedRatio(b)) =
          Sign(a.speed * Reference(b), b.speed * Reference(a))
    BY ScoreParts DEF Compare, Over
  <2>2. a.speed * Reference(b) \in Nat /\ b.speed * Reference(a) \in Nat
    BY <1>1, <1>9
  <2> QED
    BY <1>14, <2>1, <2>2, SignMeans
<1> QED
  BY <1>7, <1>12, <1>15 DEF Scores

\* What is recorded can be rated.
LEMMA EntryIsRated ==
    ASSUME KeyInv, NEW p \in Procs, pc[p] = "account",
           NEW passed \in {Stages - 1, Stages}, NEW seconds \in Durations,
           NEW load \in [speed : Nat, reference : Nat],
           NEW live \in BOOLEAN, NEW cost \in Costs(p, live)
    PROVE  Rated(Entry(p, passed, seconds, load, live, cost))
<1> DEFINE u == spend[p].usage
           m == model[p]
<1>1. /\ u.prompt \in Nat /\ u.cached \in Nat /\ u.completion \in Nat
      /\ m \in Models /\ seconds \in Nat
  BY PricesAssumption, BoundsAssumption DEF KeyInv, InHand
<1>2. cost \in Nat
  <2>1. CASE live
    <3>1. cost = usage - first[p] /\ first[p] # None /\ usage >= first[p]
      BY <2>1 DEF Costs, SpendDeltas
    <3>2. usage \in Nat /\ first[p] \in Nat
      BY <3>1 DEF KeyInv, TypeInv
    <3> QED
      BY <3>1, <3>2
  <2>2. CASE ~live
    <3>1. PICK r \in Pricings(m) : cost = TokenCost(r, u)
      BY <2>2 DEF Costs
    <3>2. r = ForModel[m] \/ r = FromRates(ForModel[m])
      BY <3>1 DEF Pricings
    <3> DEFINE f == ForModel[m]
    <3>3. f.prompt \in Nat /\ f.completion \in Nat /\ f.cached \in Nat /\ f.prompt \div 4 \in Nat
      BY <1>1, PricesAssumption
    <3> HIDE DEF f, u
    <3>4. r.prompt \in Nat /\ r.completion \in Nat /\ r.cached \in Nat
      BY <3>2, <3>3 DEF FromRates, Rates, f
    <3>5. u.prompt * r.prompt \in Nat /\ u.cached * r.cached \in Nat /\ u.completion * r.completion \in Nat
      BY <1>1, <3>4
    <3> QED
      BY <3>1, <3>5 DEF TokenCost
  <2> QED
    BY <2>1, <2>2
<1>3. EffectiveCost(cost, seconds, Tokens(u)) \in Nat
  BY <1>1, <1>2 DEF EffectiveCost, ComputeCost, Tokens
<1>4. passed \in 0..Stages /\ load.speed \in Nat /\ load.reference \in Nat
  BY DEF Stages
<1> QED
  BY <1>3, <1>4 DEF Rated, Entry

RatedInv == \A r \in results : Rated(r)

LEMMA RatedInvariant == Spec => []RatedInv
<1>1. Init => RatedInv
  BY DEF Init, RatedInv
<1>2. CostInv /\ RatedInv /\ [Next]_vars => RatedInv'
  <2> SUFFICES ASSUME CostInv, RatedInv, [Next]_vars PROVE RatedInv'
    OBVIOUS
  <2>1. ASSUME NEW p \in Procs, Account(p) PROVE RatedInv'
    <3> SUFFICES ASSUME NEW x \in results', x \notin results PROVE Rated(x)
      BY DEF RatedInv
    <3>1. PICK passed \in {Stages - 1, Stages}, seconds \in Durations :
            \E load \in IF passed = Stages THEN Loads ELSE {[speed |-> 0, reference |-> 0]} :
              Recorded(p, passed, seconds, load)
      BY <2>1 DEF Account
    <3>2. PICK load \in IF passed = Stages THEN Loads ELSE {[speed |-> 0, reference |-> 0]} :
            Recorded(p, passed, seconds, load)
      BY <3>1
    <3>3. load \in [speed : Nat, reference : Nat]
      BY LoadsAssumption
    <3>4. PICK live \in BOOLEAN : \E cost \in Costs(p, live) :
            x = Entry(p, passed, seconds, load, live, cost)
      BY <3>2 DEF Recorded
    <3>5. PICK cost \in Costs(p, live) : x = Entry(p, passed, seconds, load, live, cost)
      BY <3>4
    <3> QED
      BY <2>1, <3>3, <3>5, EntryIsRated DEF CostInv, Account
  <2>2. CASE UNCHANGED results
    BY <2>2 DEF RatedInv
  <2>3. ASSUME NEW p \in Procs, Begin(p) \/ LookUp(p) \/ Charge(p) \/ Fails(p) \/ Stop(p)
        PROVE  UNCHANGED results
    BY <2>3 DEF Begin, LookUp, Charge, Fails, Stop
  <2> QED
    BY <2>1, <2>2, <2>3 DEF Next, Bill, vars
<1> QED
  BY <1>1, <1>2, CostInvInit, CostInvStep, PTL DEF Spec

(* For any results that can be recorded: the leaderboard and the summary   *)
(* place two of them in opposite orders only where both pass everything,   *)
(* and the leaderboard's favourite was faster against its reference but    *)
(* dearer, or as dear and slower in requests per second.                   *)
THEOREM RanksTheorem == Spec => []RanksAgree
<1>1. RatedInv => RanksAgree
  BY OrdersAgree DEF RatedInv, RanksAgree
<1> QED
  BY <1>1, RatedInvariant, PTL

----------------------------------------------------------------------------
(* pass@k: the product over the draws is the share of the ways to draw.    *)

\* a set of numbers that is not empty has a least element
LEMMA Least ==
    ASSUME NEW S \in SUBSET Nat, S # {}
    PROVE  \E m \in S : \A k \in S : m <= k
<1>1. PICK m \in S : \A y \in S : ~ (<<y, m>> \in OpToRel(<, Nat))
  BY NatLessThanWellFounded, WFMin
<1>2. \A y \in S : ~(y < m)
  BY <1>1 DEF OpToRel
<1> QED
  BY <1>2

\* as many pairs of P begin with each member of D
Evenly(P, D, X, m) == \A d \in D : Cardinality({x \in X : <<d, x>> \in P}) = m

\* Pairs of which every first half has the same number of second halves.
LEMMA PairsCount ==
    ASSUME NEW D, IsFiniteSet(D), NEW X, IsFiniteSet(X), NEW P \in SUBSET (D \X X),
           NEW m \in Nat, Evenly(P, D, X, m)
    PROVE  IsFiniteSet(P) /\ Cardinality(P) = Cardinality(D) * m
<1> DEFINE Of(d) == {x \in X : <<d, x>> \in P}
           g == [d \in D |-> CHOOSE h : h \in Bijection(Of(d), 1..m)]
           h == [p \in P |-> <<p[1], g[p[1]][p[2]]>>]
<1>1. IsFiniteSet(1..m) /\ Cardinality(1..m) = m
  BY FS_Interval
<1>2. ASSUME NEW d \in D PROVE g[d] \in Bijection(Of(d), 1..m)
  <2>1. IsFiniteSet(Of(d))
    BY FS_Subset
  <2>2. ExistsBijection(Of(d), 1..m)
    BY <1>1, <2>1, FS_SameCardinalityBij DEF Evenly
  <2> HIDE DEF Of
  <2> QED
    BY <2>2 DEF ExistsBijection
<1> HIDE DEF g
<1>3. ASSUME NEW d \in D
      PROVE  /\ \A x \in Of(d) : g[d][x] \in 1..m
             /\ \A x, y \in Of(d) : g[d][x] = g[d][y] => x = y
             /\ \A i \in 1..m : \E x \in Of(d) : g[d][x] = i
  BY <1>2 DEF Bijection, Injection, Surjection, IsInjective
<1>4. \A p \in P : p[1] \in D /\ p[2] \in Of(p[1]) /\ p = <<p[1], p[2]>>
  OBVIOUS
<1>5. h \in [P -> D \X (1..m)]
  BY <1>3, <1>4
<1>6. ASSUME NEW p \in P, NEW q \in P, h[p] = h[q] PROVE p = q
  <2>1. p[1] = q[1] /\ g[p[1]][p[2]] = g[q[1]][q[2]]
    BY <1>6
  <2> QED
    BY <1>3, <1>4, <2>1
<1>7. ASSUME NEW y \in D \X (1..m) PROVE \E p \in P : h[p] = y
  <2>1. y[1] \in D /\ y[2] \in 1..m /\ y = <<y[1], y[2]>>
    OBVIOUS
  <2>2. PICK x \in Of(y[1]) : g[y[1]][x] = y[2]
    BY <1>3, <2>1
  <2>3. <<y[1], x>> \in P
    OBVIOUS
  <2>4. h[<<y[1], x>>] = <<y[1], g[y[1]][x]>>
    BY <2>3
  <2> QED
    BY <2>1, <2>2, <2>3, <2>4
<1> HIDE DEF h
<1>8. h \in Bijection(P, D \X (1..m))
  BY <1>5, <1>6, <1>7 DEF Bijection, Injection, Surjection, IsInjective
<1>9. IsFiniteSet(D \X X)
  BY FS_Product
<1>10. IsFiniteSet(P)
  BY <1>9, FS_Subset
<1>11. Cardinality(D \X (1..m)) = Cardinality(P)
  BY <1>8, <1>10, FS_Bijection DEF ExistsBijection
<1>12. Cardinality(D \X (1..m)) = Cardinality(D) * m
  BY <1>1, FS_Product
<1> QED
  BY <1>10, <1>11, <1>12

\* The subsets of a size are finitely many.
LEMMA SubsetsFinite ==
    ASSUME NEW S, IsFiniteSet(S), NEW k
    PROVE  /\ IsFiniteSet(kSubset(k, S)) /\ Cardinality(kSubset(k, S)) \in Nat
           /\ \A d \in kSubset(k, S) : IsFiniteSet(d) /\ d \subseteq S /\ Cardinality(d) = k
<1>1. IsFiniteSet(SUBSET S)
  BY FS_SUBSET
<1>2. kSubset(k, S) \in SUBSET SUBSET S
  BY DEF kSubset
<1>3. IsFiniteSet(kSubset(k, S))
  BY <1>1, <1>2, FS_Subset
<1>4. \A d \in kSubset(k, S) : d \subseteq S /\ Cardinality(d) = k
  BY DEF kSubset
<1>5. \A d \in kSubset(k, S) : IsFiniteSet(d)
  BY <1>4, FS_Subset
<1> QED
  BY <1>3, <1>4, <1>5, FS_CardinalityType

\* A subset with one member more is a subset and a member outside it; each such
\* subset arises once for each of its members.
LEMMA OneMore ==
    ASSUME NEW S, IsFiniteSet(S), NEW k \in Nat, k <= Cardinality(S)
    PROVE  Cardinality(kSubset(k + 1, S)) * (k + 1) =
             Cardinality(kSubset(k, S)) * (Cardinality(S) - k)
<1> DEFINE D == kSubset(k, S)
           E == kSubset(k + 1, S)
           P == {p \in D \X S : p[2] \notin p[1]}
           Q == {q \in E \X S : q[2] \in q[1]}
           f == [p \in P |-> <<p[1] \cup {p[2]}, p[2]>>]
<1>1. /\ IsFiniteSet(D) /\ \A d \in D : IsFiniteSet(d) /\ d \subseteq S /\ Cardinality(d) = k
      /\ IsFiniteSet(E) /\ \A e \in E : IsFiniteSet(e) /\ e \subseteq S /\ Cardinality(e) = k + 1
  BY SubsetsFinite
<1>2. Cardinality(S) \in Nat /\ Cardinality(S) - k \in Nat
  BY FS_CardinalityType
<1>3. ASSUME NEW d \in D PROVE Cardinality({x \in S : <<d, x>> \in P}) = Cardinality(S) - k
  <2>1. {x \in S : <<d, x>> \in P} = S \ d
    OBVIOUS
  <2>2. S \cap d = d
    BY <1>1
  <2>3. Cardinality(S \ d) = Cardinality(S) - Cardinality(S \cap d)
    BY FS_Difference
  <2> QED
    BY <1>1, <2>1, <2>2, <2>3
<1>4. ASSUME NEW e \in E PROVE Cardinality({x \in S : <<e, x>> \in Q}) = k + 1
  <2>1. {x \in S : <<e, x>> \in Q} = e
    BY <1>1
  <2> QED
    BY <1>1, <2>1
<1>5. ASSUME NEW d \in D, NEW x \in S \ d PROVE d \cup {x} \in E
  <2>1. IsFiniteSet(d \cup {x}) /\ Cardinality(d \cup {x}) = k + 1
    BY <1>1, FS_AddElement
  <2> QED
    BY <1>1, <2>1 DEF kSubset
<1>6. ASSUME NEW e \in E, NEW x \in e PROVE e \ {x} \in D
  <2>1. IsFiniteSet(e \ {x}) /\ Cardinality(e \ {x}) = (k + 1) - 1
    BY <1>1, FS_RemoveElement
  <2> QED
    BY <1>1, <2>1 DEF kSubset
<1>p. P \in SUBSET (D \X S) /\ Q \in SUBSET (E \X S) /\ k + 1 \in Nat
  OBVIOUS
<1>pp. \A p \in P : p[1] \in D /\ p[2] \in S \ p[1] /\ p = <<p[1], p[2]>>
  OBVIOUS
<1>pm. ASSUME NEW d \in D, NEW x \in S \ d PROVE <<d, x>> \in P
  <2> DEFINE p == <<d, x>>
  <2>1. p \in D \X S /\ p[1] = d /\ p[2] = x
    BY Zenon
  <2> QED
    BY <2>1, Zenon
<1>qq. \A q \in Q : q[1] \in E /\ q[2] \in q[1] /\ q = <<q[1], q[2]>>
  OBVIOUS
<1>qm. ASSUME NEW e \in E, NEW x \in e PROVE <<e, x>> \in Q
  <2> DEFINE q == <<e, x>>
  <2>1. x \in S
    BY <1>1
  <2>2. q \in E \X S /\ q[1] = e /\ q[2] = x
    BY <2>1, Zenon
  <2> QED
    BY <2>2, Zenon
<1> HIDE DEF D, E, P, Q
<1>7. IsFiniteSet(P) /\ Cardinality(P) = Cardinality(D) * (Cardinality(S) - k)
  <2>1. Evenly(P, D, S, Cardinality(S) - k)
    BY <1>3 DEF Evenly
  <2> QED
    BY <1>1, <1>2, <1>p, <2>1, PairsCount
<1>8. IsFiniteSet(Q) /\ Cardinality(Q) = Cardinality(E) * (k + 1)
  <2>1. Evenly(Q, E, S, k + 1)
    BY <1>4 DEF Evenly
  <2> DEFINE n == k + 1
  <2>2. n \in Nat /\ Evenly(Q, E, S, n)
    BY <1>p, <2>1
  <2> HIDE DEF n
  <2>3. IsFiniteSet(Q) /\ Cardinality(Q) = Cardinality(E) * n
    BY <1>1, <1>p, <2>2, PairsCount
  <2> QED
    BY <2>3 DEF n
<1>9. f \in [P -> Q]
  BY <1>5, <1>pp, <1>qm
<1>10. ASSUME NEW p \in P, NEW r \in P, f[p] = f[r] PROVE p = r
  <2>1. p[1] \cup {p[2]} = r[1] \cup {r[2]} /\ p[2] = r[2]
    BY <1>10
  <2>2. p[1] = r[1]
    BY <2>1, <1>pp
  <2> QED
    BY <2>1, <2>2, <1>pp
<1>11. ASSUME NEW q \in Q PROVE \E p \in P : f[p] = q
  <2> DEFINE p == <<q[1] \ {q[2]}, q[2]>>
  <2>1. p \in P
    <3>1. q[1] \ {q[2]} \in D /\ q[2] \in S \ (q[1] \ {q[2]})
      BY <1>1, <1>6, <1>qq
    <3> QED
      BY <3>1, <1>pm
  <2>2. f[p] = <<(q[1] \ {q[2]}) \cup {q[2]}, q[2]>>
    BY <2>1
  <2>3. (q[1] \ {q[2]}) \cup {q[2]} = q[1]
    BY <1>qq
  <2> QED
    BY <2>1, <2>2, <2>3, <1>qq
<1> HIDE DEF f
<1>12. f \in Bijection(P, Q)
  BY <1>9, <1>10, <1>11 DEF Bijection, Injection, Surjection, IsInjective
<1>13. Cardinality(Q) = Cardinality(P)
  BY <1>7, <1>12, FS_Bijection DEF ExistsBijection
<1> QED
  BY <1>7, <1>8, <1>13 DEF D, E

\* after i draws, f[i]: a factor for each draw
Product(f, n, c, k) ==
    /\ f[0] = Over(1, 1)
    /\ \A i \in 0..(k - 1) : f[i + 1] = Over(f[i].num * (n - c - i), f[i].den * (n - i))

\* the same as the equation of a function
Multiplies(f, n, c, k) ==
    f = [i \in 0..k |->
            IF i = 0 THEN Over(1, 1)
            ELSE Over(f[i - 1].num * (n - c - (i - 1)), f[i - 1].den * (n - (i - 1)))]

\* There is such a sequence of products for any number of draws.
LEMMA ProductsExist ==
    ASSUME NEW n \in Nat, NEW c \in Nat
    PROVE  \A k \in Nat : \E f : Multiplies(f, n, c, k)
<1> DEFINE Bad == {k \in Nat : ~ \E f : Multiplies(f, n, c, k)}
<1> SUFFICES ASSUME Bad # {} PROVE FALSE
  OBVIOUS
<1>1. PICK k \in Bad : \A j \in Bad : k <= j
  BY Least
<1>2. CASE k = 0
  <2> DEFINE f == [i \in 0..0 |-> Over(1, 1)]
  <2>1. Multiplies(f, n, c, 0)
    BY DEF Multiplies
  <2> QED
    BY <1>1, <1>2, <2>1
<1>3. CASE k # 0
  <2>1. k - 1 \in Nat /\ k - 1 \notin Bad
    BY <1>1, <1>3
  <2>2. PICK g : Multiplies(g, n, c, k - 1)
    BY <2>1
  <2> DEFINE Step(x, i) == Over(x.num * (n - c - (i - 1)), x.den * (n - (i - 1)))
             f == [i \in 0..k |-> IF i = k THEN Step(g[k - 1], k) ELSE g[i]]
  <2>3. \A i \in 0..(k - 1) : g[i] = IF i = 0 THEN Over(1, 1) ELSE Step(g[i - 1], i)
    BY <2>2 DEF Multiplies
  <2>4. \A i \in 0..(k - 1) : f[i] = g[i]
    BY <1>1, <1>3
  <2>5. f[k] = Step(g[k - 1], k)
    BY <1>1
  <2> HIDE DEF Step
  <2>6. \A i \in 0..k : f[i] = IF i = 0 THEN Over(1, 1) ELSE Step(f[i - 1], i)
    <3> SUFFICES ASSUME NEW i \in 0..k PROVE f[i] = IF i = 0 THEN Over(1, 1) ELSE Step(f[i - 1], i)
      OBVIOUS
    <3>1. CASE i = k
      <4>1. f[k - 1] = g[k - 1]
        BY <2>1, <2>4
      <4> QED
        BY <1>3, <2>5, <3>1, <4>1
    <3>2. CASE i # k
      <4>1. i \in 0..(k - 1) /\ (i # 0 => i - 1 \in 0..(k - 1))
        BY <1>1, <3>2
      <4> QED
        BY <2>3, <2>4, <4>1
    <3> QED
      BY <3>1, <3>2
  <2>7. f = [i \in 0..k |-> f[i]]
    OBVIOUS
  <2> HIDE DEF f
  <2>8. f = [i \in 0..k |-> IF i = 0 THEN Over(1, 1) ELSE Step(f[i - 1], i)]
    BY <2>6, <2>7
  <2>9. Multiplies(f, n, c, k)
    BY <2>8 DEF Multiplies, Step
  <2> QED
    BY <1>1, <2>9
<1> QED
  BY <1>2, <1>3

\* FailChance is the last of them.
LEMMA FailChanceIs ==
    ASSUME NEW n \in Nat, NEW c \in Nat, NEW k \in Nat
    PROVE  \E f : FailChance(n, c, k) = f[k] /\ Product(f, n, c, k)
<1> DEFINE f == CHOOSE g : Multiplies(g, n, c, k)
<1>1. Multiplies(f, n, c, k)
  BY ProductsExist
<1>2. FailChance(n, c, k) = f[k]
  BY DEF FailChance, Multiplies
<1> HIDE DEF f
<1>3. f[0] = Over(1, 1)
  BY <1>1 DEF Multiplies
<1>4. ASSUME NEW i \in 0..(k - 1)
      PROVE  f[i + 1] = Over(f[i].num * (n - c - i), f[i].den * (n - i))
  <2>1. i + 1 \in 0..k /\ i + 1 # 0 /\ (i + 1) - 1 = i
    OBVIOUS
  <2>2. \A j \in 0..k : f[j] = IF j = 0 THEN Over(1, 1)
            ELSE Over(f[j - 1].num * (n - c - (j - 1)), f[j - 1].den * (n - (j - 1)))
    BY <1>1 DEF Multiplies
  <2> QED
    BY <2>1, <2>2
<1> QED
  BY <1>2, <1>3, <1>4 DEF Product

\* Equal products remain when a factor is cancelled.
LEMMA Cancel ==
    ASSUME NEW j \in Nat \ {0}, NEW x \in Nat, NEW y \in Nat, x * j = y * j
    PROVE  x = y
  OBVIOUS

\* Products of larger numbers are larger.
LEMMA TimesMonotone ==
    ASSUME NEW x \in Nat, NEW y \in Nat, NEW u \in Nat, NEW v \in Nat, x >= y, u >= v
    PROVE  x * u >= y * v
<1>1. PICK d \in Nat : x = y + d
  <2>1. x - y \in Nat /\ x = y + (x - y)
    OBVIOUS
  <2> QED
    BY <2>1
<1>2. PICK e \in Nat : u = v + e
  <2>1. u - v \in Nat /\ u = v + (u - v)
    OBVIOUS
  <2> QED
    BY <2>1
<1>3. (y + d) * (v + e) = y * v + (y * e + d * v + d * e)
  OBVIOUS
<1>4. y * e + d * v + d * e \in Nat /\ y * v \in Nat
  OBVIOUS
<1> QED
  BY <1>1, <1>2, <1>3, <1>4

\* One more draw: the fraction a / b of the ways t among s, with p of q left.
LEMMA OneMoreDraw ==
    ASSUME NEW a \in Nat, NEW b \in Nat, NEW s \in Nat, NEW t \in Nat,
           NEW x \in Nat, NEW y \in Nat, NEW p \in Nat, NEW q \in Nat, NEW j \in Nat \ {0},
           a * s = b * t, x * j = s * q, y * j = t * p
    PROVE  (a * p) * x = (b * q) * y
<1>1. ((a * p) * x) * j = (a * p) * (x * j)
  OBVIOUS
<1>2. (a * p) * (s * q) = (a * s) * (p * q)
  OBVIOUS
<1>3. (b * t) * (p * q) = (b * q) * (t * p)
  OBVIOUS
<1>4. (b * q) * (y * j) = ((b * q) * y) * j
  OBVIOUS
<1>5. ((a * p) * x) * j = ((b * q) * y) * j
  BY <1>1, <1>2, <1>3, <1>4
<1>6. (a * p) * x \in Nat /\ (b * q) * y \in Nat
  <2>1. a * p \in Nat /\ b * q \in Nat
    OBVIOUS
  <2> QED
    BY <2>1
<1> QED
  BY <1>5, <1>6, Cancel

\* The products are fractions.
LEMMA ProductIsFraction ==
    ASSUME NEW n \in Nat, NEW c \in Nat, NEW k \in Nat, k + c <= n, NEW f, Product(f, n, c, k)
    PROVE  \A i \in 0..k : f[i].num \in Nat /\ f[i].den \in Nat \ {0}
<1> DEFINE Bad == {i \in 0..k : ~(f[i].num \in Nat /\ f[i].den \in Nat \ {0})}
<1> SUFFICES ASSUME Bad # {} PROVE FALSE
  OBVIOUS
<1>0. Bad \in SUBSET Nat
  OBVIOUS
<1>1. PICK i \in Bad : \A j \in Bad : i <= j
  BY <1>0, Least
<1>2. CASE i = 0
  BY <1>1, <1>2 DEF Product, Over
<1>3. CASE i # 0
  <2> DEFINE h == i - 1
  <2>1. h \in 0..(k - 1) /\ h \in 0..k /\ h + 1 = i /\ h < i
    BY <1>3
  <2> HIDE DEF h
  <2>2. f[h].num \in Nat /\ f[h].den \in Nat \ {0}
    BY <1>1, <2>1
  <2>3. f[i] = Over(f[h].num * (n - c - h), f[h].den * (n - h))
    BY <2>1 DEF Product
  <2>4. n - c - h \in Nat /\ n - h \in Nat \ {0}
    BY <2>1
  <2>5. f[h].num * (n - c - h) \in Nat /\ f[h].den * (n - h) \in Nat \ {0}
    BY <2>2, <2>4
  <2>6. f[i].num \in Nat /\ f[i].den \in Nat \ {0}
    BY <2>3, <2>5 DEF Over
  <2> QED
    BY <1>1, <2>6
<1> QED
  BY <1>2, <1>3

\* There is one way to draw nothing.
LEMMA NothingDrawn ==
    ASSUME NEW S, IsFiniteSet(S)
    PROVE  Cardinality(kSubset(0, S)) = 1
<1>1. ASSUME NEW d \in kSubset(0, S) PROVE d = {}
  BY SubsetsFinite, FS_EmptySet
<1>2. {} \in kSubset(0, S)
  BY FS_EmptySet DEF kSubset
<1>3. kSubset(0, S) = {{}}
  BY <1>1, <1>2
<1> QED
  BY <1>3, FS_Singleton

\* A product is the share that the ways to draw from F have among those to draw
\* from S.
LEMMA ProductIsShare ==
    ASSUME NEW S, IsFiniteSet(S), NEW F \in SUBSET S, NEW c \in Nat, NEW k \in Nat,
           Cardinality(F) = Cardinality(S) - c, k + c <= Cardinality(S),
           NEW f, Product(f, Cardinality(S), c, k)
    PROVE  \A i \in 0..k : f[i].num * Cardinality(kSubset(i, S)) = f[i].den * Cardinality(kSubset(i, F))
<1> DEFINE n == Cardinality(S)
           WaysS(i) == Cardinality(kSubset(i, S))
           WaysF(i) == Cardinality(kSubset(i, F))
           Bad == {i \in 0..k : f[i].num * WaysS(i) # f[i].den * WaysF(i)}
<1> SUFFICES ASSUME Bad # {} PROVE FALSE
  OBVIOUS
<1>a. n \in Nat /\ IsFiniteSet(F)
  BY FS_CardinalityType, FS_Subset
<1>b. \A i : WaysS(i) \in Nat /\ WaysF(i) \in Nat
  BY <1>a, SubsetsFinite
<1>c. WaysS(0) = 1 /\ WaysF(0) = 1
  BY <1>a, NothingDrawn
<1>d. ASSUME NEW i \in 0..(k - 1)
      PROVE  /\ WaysS(i + 1) * (i + 1) = WaysS(i) * (n - i)
             /\ WaysF(i + 1) * (i + 1) = WaysF(i) * (n - c - i)
  <2>1. i \in Nat /\ i <= n /\ i <= Cardinality(F)
    BY <1>a
  <2>2. WaysS(i + 1) * (i + 1) = WaysS(i) * (n - i)
    BY <2>1, OneMore
  <2>3. WaysF(i + 1) * (i + 1) = WaysF(i) * (Cardinality(F) - i)
    BY <1>a, <2>1, OneMore
  <2> QED
    BY <2>2, <2>3
<1>e. \A i \in 0..k : f[i].num \in Nat /\ f[i].den \in Nat \ {0}
  BY <1>a, ProductIsFraction
<1>f. n - c \in Nat /\ k <= n - c
  BY <1>a
<1>g. f[0] = Over(1, 1)
      /\ \A i \in 0..(k - 1) : f[i + 1] = Over(f[i].num * (n - c - i), f[i].den * (n - i))
  BY DEF Product
<1>0. Bad \in SUBSET Nat
  OBVIOUS
<1>1. PICK i \in Bad : \A j \in Bad : i <= j
  BY <1>0, Least
<1>i. i \in 0..k /\ f[i].num * WaysS(i) # f[i].den * WaysF(i)
  BY <1>1
<1>2. CASE i = 0
  <2>1. f[i].num = 1 /\ f[i].den = 1
    BY <1>2, <1>g DEF Over
  <2> QED
    BY <1>i, <1>c, <1>2, <2>1
<1>3. CASE i # 0
  <2> DEFINE h == i - 1
  <2>1. h \in 0..(k - 1) /\ h \in 0..k /\ h + 1 = i /\ h < i
    BY <1>i, <1>3
  <2>h. h \notin Bad
    BY <1>1, <2>1
  <2>2. f[h].num * WaysS(h) = f[h].den * WaysF(h)
    BY <2>1, <2>h
  <2> HIDE DEF h, WaysS, WaysF, Bad, n
  <2>3. f[i] = Over(f[h].num * (n - c - h), f[h].den * (n - h))
    BY <1>g, <2>1
  <2>4. n - c - h \in Nat /\ n - h \in Nat
    BY <1>a, <1>f, <2>1
  <2>5. WaysS(i) * i = WaysS(h) * (n - h) /\ WaysF(i) * i = WaysF(h) * (n - c - h)
    BY <1>d, <2>1
  <2> DEFINE a == f[h].num
             b == f[h].den
             s == WaysS(h)
             t == WaysF(h)
             x == WaysS(i)
             y == WaysF(i)
             p == n - c - h
             q == n - h
  <2>6. /\ a \in Nat /\ b \in Nat /\ s \in Nat /\ t \in Nat /\ x \in Nat /\ y \in Nat
        /\ p \in Nat /\ q \in Nat /\ i \in Nat \ {0}
    BY <1>b, <1>e, <1>i, <1>3, <2>1, <2>4
  <2>7. a * s = b * t /\ x * i = s * q /\ y * i = t * p
    BY <2>2, <2>5
  <2>8. f[i].num = a * p /\ f[i].den = b * q
    BY <2>3 DEF Over
  <2>9. f[i].num * x # f[i].den * y
    BY <1>i
  <2> HIDE DEF a, b, s, t, x, y, p, q
  <2>10. (a * p) * x = (b * q) * y
    BY <2>6, <2>7, OneMoreDraw
  <2> QED
    BY <2>8, <2>9, <2>10
<1> QED
  BY <1>2, <1>3

\* With more trials and as many of them passed, a failure is likelier.
LEMMA MoreTrialsFailMore ==
    ASSUME NEW n \in Nat, NEW m \in Nat, m <= n, NEW c \in Nat, NEW k \in Nat, k + c <= m,
           NEW f, Product(f, n, c, k), NEW g, Product(g, m, c, k)
    PROVE  \A i \in 0..k : f[i].num * g[i].den >= g[i].num * f[i].den
<1> DEFINE Bad == {i \in 0..k : ~(f[i].num * g[i].den >= g[i].num * f[i].den)}
<1> SUFFICES ASSUME Bad # {} PROVE FALSE
  OBVIOUS
<1>a. \A i \in 0..k : f[i].num \in Nat /\ f[i].den \in Nat /\ g[i].num \in Nat /\ g[i].den \in Nat
  <2>1. k + c <= n
    OBVIOUS
  <2> QED
    BY <2>1, ProductIsFraction
<1>0. Bad \in SUBSET Nat
  OBVIOUS
<1>1. PICK i \in Bad : \A j \in Bad : i <= j
  BY <1>0, Least
<1>i. i \in 0..k /\ ~(f[i].num * g[i].den >= g[i].num * f[i].den)
  BY <1>1
<1>2. CASE i = 0
  BY <1>i, <1>2 DEF Product, Over
<1>3. CASE i # 0
  <2> DEFINE h == i - 1
  <2>1. h \in 0..(k - 1) /\ h \in 0..k /\ h + 1 = i /\ h < i
    BY <1>i, <1>3
  <2>h. h \notin Bad
    BY <1>1, <2>1
  <2> DEFINE a == f[h].num
             b == f[h].den
             s == g[h].num
             t == g[h].den
             p == n - c - h
             q == n - h
             u == m - c - h
             v == m - h
  <2>2. a * t >= s * b
    BY <2>1, <2>h
  <2> HIDE DEF h
  <2>3. /\ f[i].num = a * p /\ f[i].den = b * q
        /\ g[i].num = s * u /\ g[i].den = t * v
    <3>1. f[i] = Over(f[h].num * (n - c - h), f[h].den * (n - h))
      BY <2>1 DEF Product
    <3>2. g[i] = Over(g[h].num * (m - c - h), g[h].den * (m - h))
      BY <2>1 DEF Product
    <3> QED
      BY <3>1, <3>2 DEF Over
  <2>4. a \in Nat /\ b \in Nat /\ s \in Nat /\ t \in Nat
    BY <1>a, <2>1
  <2>5. p \in Nat /\ q \in Nat /\ u \in Nat /\ v \in Nat
    BY <2>1
  <2>6. p * v >= u * q
    <3>1. PICK d \in Nat : n = m + d
      <4>1. n - m \in Nat /\ n = m + (n - m)
        OBVIOUS
      <4> QED
        BY <4>1
    <3>2. p = u + d /\ q = v + d /\ v = u + c
      BY <2>1, <3>1
    <3>3. (u + d) * (u + c) = u * (u + c + d) + c * d
      BY <2>5
    <3>4. c * d \in Nat /\ u * (u + c + d) \in Nat
      BY <2>5
    <3> HIDE DEF p, q, u, v
    <3> QED
      BY <3>2, <3>3, <3>4
  <2>7. ~((a * p) * (t * v) >= (s * u) * (b * q))
    BY <1>i, <2>3
  <2> HIDE DEF a, b, s, t, p, q, u, v
  <2>8. a * t \in Nat /\ s * b \in Nat /\ p * v \in Nat /\ u * q \in Nat
    BY <2>4, <2>5
  <2>9. (a * t) * (p * v) >= (s * b) * (u * q)
    BY <2>2, <2>6, <2>8, TimesMonotone
  <2>10. (a * t) * (p * v) = (a * p) * (t * v) /\ (s * b) * (u * q) = (s * u) * (b * q)
    BY <2>4, <2>5
  <2> QED
    BY <2>7, <2>9, <2>10
<1> QED
  BY <1>2, <1>3

\* what the property compares
Chance(n, k, S) ==
    Over(Cardinality({d \in kSubset(k, 1..n) : d \cap S # {}}), Cardinality(kSubset(k, 1..n)))

\* Who draws no passed trial draws from the failed ones.
LEMMA ChanceParts ==
    ASSUME NEW n \in Nat, NEW k \in 0..n, NEW S \in SUBSET (1..n)
    PROVE  LET all    == Cardinality(kSubset(k, 1..n))
               failed == Cardinality(kSubset(k, (1..n) \ S))
           IN  /\ all \in Nat /\ failed \in Nat /\ failed <= all
               /\ Chance(n, k, S) = Over(all - failed, all)
               /\ k > Cardinality((1..n) \ S) => failed = 0
<1> DEFINE draws == kSubset(k, 1..n)
           F == (1..n) \ S
           lost == kSubset(k, F)
           won == {d \in draws : d \cap S # {}}
<1>1. IsFiniteSet(1..n) /\ IsFiniteSet(F)
  <2>1. IsFiniteSet(1..n)
    BY FS_Interval
  <2>2. F \in SUBSET (1..n)
    OBVIOUS
  <2> QED
    BY <2>1, <2>2, FS_Subset
<1>2. IsFiniteSet(draws) /\ Cardinality(draws) \in Nat /\ Cardinality(lost) \in Nat
  BY <1>1, SubsetsFinite
<1>3. lost \subseteq draws /\ won = draws \ lost /\ draws \cap lost = lost
  BY DEF kSubset
<1>4. Cardinality(won) = Cardinality(draws) - Cardinality(lost)
  BY <1>2, <1>3, FS_Difference
<1>5. Cardinality(lost) <= Cardinality(draws)
  BY <1>2, <1>3, FS_Subset
<1>6. k > Cardinality(F) => Cardinality(lost) = 0
  <2> SUFFICES ASSUME k > Cardinality(F) PROVE Cardinality(lost) = 0
    OBVIOUS
  <2>1. ASSUME NEW d \in lost PROVE FALSE
    <3>1. d \in SUBSET F /\ Cardinality(d) = k
      BY DEF kSubset
    <3>2. Cardinality(d) <= Cardinality(F) /\ Cardinality(F) \in Nat
      BY <1>1, <3>1, FS_Subset, FS_CardinalityType
    <3> QED
      BY <3>1, <3>2
  <2>2. lost = {}
    BY <2>1
  <2> QED
    BY <2>2, FS_EmptySet
<1> QED
  BY <1>2, <1>4, <1>5, <1>6 DEF Chance

\* How many trials failed.
LEMMA FailedTrials ==
    ASSUME NEW n \in Nat, NEW S \in SUBSET (1..n)
    PROVE  /\ Cardinality(S) \in Nat /\ Cardinality(S) <= n /\ Cardinality(1..n) = n
           /\ IsFiniteSet(1..n) /\ Cardinality((1..n) \ S) = n - Cardinality(S)
<1>1. IsFiniteSet(1..n) /\ Cardinality(1..n) = n
  BY FS_Interval
<1>2. IsFiniteSet(S) /\ Cardinality(S) <= n
  BY <1>1, FS_Subset
<1>3. (1..n) \cap S = S
  OBVIOUS
<1>4. Cardinality((1..n) \ S) = n - Cardinality(S)
  BY <1>1, <1>3, FS_Difference
<1> QED
  BY <1>1, <1>2, <1>4, FS_CardinalityType

\* What PassAtK is made of.
LEMMA PassAtKIs ==
    ASSUME NEW n \in Nat, NEW c \in 0..n, NEW k \in 1..n
    PROVE  /\ c = 0 => PassAtK(n, c, k) = Over(0, 1)
           /\ c # 0 /\ n - c < k => PassAtK(n, c, k) = Over(1, 1)
           /\ c # 0 /\ n - c >= k =>
                 \E f : /\ Product(f, n, c, k)
                        /\ f[k].num \in Nat /\ f[k].den \in Nat \ {0}
                        /\ PassAtK(n, c, k) = Over(f[k].den - f[k].num, f[k].den)
<1>1. n # 0 /\ k # 0 /\ ~(c > n) /\ ~(k > n)
  OBVIOUS
<1>2. ASSUME c = 0 PROVE PassAtK(n, c, k) = Over(0, 1)
  <2>1. ~(n > 0 /\ c = n)
    BY <1>1, <1>2
  <2> QED
    BY <1>2, <2>1 DEF PassAtK
<1>3. ASSUME c # 0, n - c < k PROVE PassAtK(n, c, k) = Over(1, 1)
  BY <1>1, <1>3 DEF PassAtK
<1>4. ASSUME c # 0, n - c >= k
      PROVE  \E f : /\ Product(f, n, c, k)
                    /\ f[k].num \in Nat /\ f[k].den \in Nat \ {0}
                    /\ PassAtK(n, c, k) = Over(f[k].den - f[k].num, f[k].den)
  <2>1. c \in Nat /\ k \in Nat /\ k + c <= n /\ k \in 0..k /\ ~(n - c < k)
    BY <1>4
  <2>2. PICK f : FailChance(n, c, k) = f[k] /\ Product(f, n, c, k)
    BY <2>1, FailChanceIs
  <2>3. f[k].num \in Nat /\ f[k].den \in Nat \ {0}
    BY <2>1, <2>2, ProductIsFraction
  <2>4. PassAtK(n, c, k) = Over(f[k].den - f[k].num, f[k].den)
    BY <1>1, <1>4, <2>1, <2>2 DEF PassAtK
  <2> QED
    BY <2>2, <2>3, <2>4
<1> QED
  BY <1>2, <1>3, <1>4

\* pass@k is the chance that k different trials include one that passed.
LEMMA PassAtKIsExact ==
    ASSUME NEW n \in Nat, NEW S \in SUBSET (1..n), NEW k \in 1..n
    PROVE  Compare(PassAtK(n, Cardinality(S), k), Chance(n, k, S)) = "same"
<1> DEFINE c == Cardinality(S)
           F == (1..n) \ S
           all == Cardinality(kSubset(k, 1..n))
           failed == Cardinality(kSubset(k, F))
<1>1. c \in 0..n /\ Cardinality(1..n) = n /\ IsFiniteSet(1..n) /\ Cardinality(F) = n - c
  BY FailedTrials
<1>2. /\ all \in Nat /\ failed \in Nat /\ failed <= all
      /\ Chance(n, k, S) = Over(all - failed, all)
      /\ k > Cardinality(F) => failed = 0
  <2>1. k \in 0..n
    OBVIOUS
  <2> QED
    BY <2>1, ChanceParts
<1>3. CASE c = 0
  <2>1. PassAtK(n, c, k) = Over(0, 1)
    BY <1>1, <1>3, PassAtKIs
  <2>2. F = 1..n
    <3>1. F \in SUBSET (1..n) /\ Cardinality(F) = Cardinality(1..n)
      BY <1>1, <1>3
    <3> QED
      BY <1>1, <3>1, FS_Subset
  <2>3. all - failed = 0
    <3>1. kSubset(k, F) = kSubset(k, 1..n)
      BY <2>2, Zenon
    <3> QED
      BY <1>2, <3>1
  <2> HIDE DEF all, failed, c
  <2>4. Compare(Over(0, 1), Over(0, all)) = "same"
    BY <1>2 DEF Compare, Over, Sign
  <2> QED
    BY <1>2, <2>1, <2>3, <2>4 DEF c
<1>4. CASE c # 0 /\ n - c < k
  <2>1. PassAtK(n, c, k) = Over(1, 1)
    BY <1>1, <1>4, PassAtKIs
  <2>2. failed = 0
    BY <1>1, <1>2, <1>4
  <2> HIDE DEF all, failed, c
  <2>3. Compare(Over(1, 1), Over(all, all)) = "same"
    BY <1>2 DEF Compare, Over, Sign
  <2>4. all - failed = all
    BY <1>2, <2>2
  <2> QED
    BY <1>2, <2>1, <2>3, <2>4 DEF c
<1>5. CASE c # 0 /\ n - c >= k
  <2>1. PICK f : /\ Product(f, n, c, k)
                 /\ f[k].num \in Nat /\ f[k].den \in Nat \ {0}
                 /\ PassAtK(n, c, k) = Over(f[k].den - f[k].num, f[k].den)
    BY <1>1, <1>5, PassAtKIs
  <2>2. f[k].num * all = f[k].den * failed
    <3>1. c \in Nat /\ k \in Nat /\ k + c <= n /\ k \in 0..k /\ F \in SUBSET (1..n)
      BY <1>1, <1>5
    <3>2. \A i \in 0..k : f[i].num * Cardinality(kSubset(i, 1..n)) = f[i].den * Cardinality(kSubset(i, F))
      BY <1>1, <2>1, <3>1, ProductIsShare
    <3> QED
      BY <3>1, <3>2
  <2> DEFINE a == f[k].num
             b == f[k].den
  <2> HIDE DEF all, failed, c, a, b
  <2>3. a \in Nat /\ b \in Nat /\ a * all = b * failed
    BY <2>1, <2>2 DEF a, b
  <2>4. (b - a) * all = (all - failed) * b
    <3>1. (b - a) * all = b * all - a * all /\ (all - failed) * b = b * all - b * failed
      BY <1>2, <2>3
    <3> QED
      BY <2>3, <3>1
  <2>5. Compare(Over(b - a, b), Over(all - failed, all)) = Sign((b - a) * all, (all - failed) * b)
    BY DEF Compare, Over
  <2>6. (b - a) * all \in Int
    BY <1>2, <2>3
  <2>7. Compare(Over(b - a, b), Over(all - failed, all)) = "same"
    BY <2>4, <2>5, <2>6 DEF Sign
  <2> QED
    BY <1>2, <2>1, <2>7 DEF a, b, c
<1> QED
  BY <1>1, <1>3, <1>4, <1>5

\* A larger fraction of the same number is larger.
LEMMA Scale ==
    ASSUME NEW a \in Nat, NEW b \in Nat, NEW s \in Nat, NEW t \in Nat \ {0},
           NEW x \in Nat, NEW y \in Nat, s * x = t * y, a * t >= s * b
    PROVE  a * x >= y * b
<1>1. a * x \in Nat /\ y * b \in Nat
  OBVIOUS
<1> SUFFICES ASSUME a * x < y * b PROVE FALSE
  BY <1>1
<1>2. t * (a * x) < t * (y * b)
  BY <1>1, TimesGrows
<1>3. t * (y * b) = (s * x) * b
  <2>1. t * (y * b) = (t * y) * b
    OBVIOUS
  <2> QED
    BY <2>1
<1>4. (s * x) * b = x * (s * b) /\ t * (a * x) = x * (a * t)
  OBVIOUS
<1>5. s * b \in Nat /\ a * t \in Nat
  OBVIOUS
<1>6. x * (s * b) <= x * (a * t)
  BY <1>5, TimesGrows
<1>7. x * (s * b) \in Nat /\ x * (a * t) \in Nat
  BY <1>5
<1> QED
  BY <1>2, <1>3, <1>4, <1>6, <1>7

\* A product is at most one.
LEMMA ProductAtMostOne ==
    ASSUME NEW n \in Nat, NEW c \in Nat, NEW k \in Nat, k + c <= n, NEW f, Product(f, n, c, k)
    PROVE  f[k].num <= f[k].den
<1> DEFINE Bad == {i \in 0..k : ~(f[i].num <= f[i].den)}
<1> SUFFICES ASSUME Bad # {} PROVE FALSE
  OBVIOUS
<1>a. \A i \in 0..k : f[i].num \in Nat /\ f[i].den \in Nat
  BY ProductIsFraction
<1>0. Bad \in SUBSET Nat
  OBVIOUS
<1>1. PICK i \in Bad : \A j \in Bad : i <= j
  BY <1>0, Least
<1>i. i \in 0..k /\ ~(f[i].num <= f[i].den)
  BY <1>1
<1>2. CASE i = 0
  BY <1>i, <1>2 DEF Product, Over
<1>3. CASE i # 0
  <2> DEFINE h == i - 1
  <2>1. h \in 0..(k - 1) /\ h \in 0..k /\ h + 1 = i /\ h < i
    BY <1>i, <1>3
  <2>2. f[h].num <= f[h].den
    BY <1>1, <2>1
  <2> HIDE DEF h
  <2>3. f[i] = Over(f[h].num * (n - c - h), f[h].den * (n - h))
    BY <2>1 DEF Product
  <2>4. n - c - h \in Nat /\ n - h \in Nat /\ n - h >= n - c - h
    BY <2>1
  <2>5. f[h].den * (n - h) >= f[h].num * (n - c - h)
    BY <1>a, <2>1, <2>2, <2>4, TimesMonotone
  <2>6. f[i].num <= f[i].den
    BY <2>3, <2>5 DEF Over
  <2> QED
    BY <1>i, <2>6
<1> QED
  BY <1>2, <1>3


\* Trials that never ran can only lower what is reported.
LEMMA PassAtKOfMore ==
    ASSUME NEW n \in Nat, NEW m \in 0..n, NEW S \in SUBSET (1..m), NEW k \in 1..m
    PROVE  Compare(PassAtK(n, Cardinality(S), k), Chance(m, k, S)) # "more"
<1> DEFINE c == Cardinality(S)
           F == (1..m) \ S
           all == Cardinality(kSubset(k, 1..m))
           failed == Cardinality(kSubset(k, F))
<1>0. m \in Nat /\ m <= n /\ k \in 1..n /\ k \in 0..m /\ k \in Nat
  OBVIOUS
<1>1. c \in 0..m /\ c \in 0..n /\ Cardinality(1..m) = m /\ IsFiniteSet(1..m) /\ Cardinality(F) = m - c
  BY <1>0, FailedTrials
<1>2. /\ all \in Nat /\ failed \in Nat /\ failed <= all
      /\ Chance(m, k, S) = Over(all - failed, all)
      /\ k > Cardinality(F) => failed = 0
  BY <1>0, ChanceParts
<1>3. CASE c = 0
  <2>1. PassAtK(n, c, k) = Over(0, 1)
    BY <1>0, <1>1, <1>3, PassAtKIs
  <2> HIDE DEF all, failed, c
  <2>2. Compare(Over(0, 1), Over(all - failed, all)) = Sign(0 * all, (all - failed) * 1)
    BY DEF Compare, Over
  <2>3. ~(0 * all > (all - failed) * 1)
    BY <1>2
  <2>4. Sign(0 * all, (all - failed) * 1) # "more"
    BY <2>3 DEF Sign
  <2> QED
    BY <1>2, <2>1, <2>2, <2>4 DEF c
<1>4. CASE c # 0 /\ m - c < k
  <2>1. failed = 0 /\ all - failed = all
    BY <1>1, <1>2, <1>4
  <2>2. PICK a \in Nat, b \in Nat : a <= b /\ PassAtK(n, c, k) = Over(a, b)
    <3>1. CASE n - c < k
      <4>1. PassAtK(n, c, k) = Over(1, 1)
        BY <1>0, <1>1, <1>4, <3>1, PassAtKIs
      <4> QED
        BY <4>1
    <3>2. CASE n - c >= k
      <4>1. PICK f : /\ Product(f, n, c, k)
                     /\ f[k].num \in Nat /\ f[k].den \in Nat \ {0}
                     /\ PassAtK(n, c, k) = Over(f[k].den - f[k].num, f[k].den)
        BY <1>0, <1>1, <1>4, <3>2, PassAtKIs
      <4>2. f[k].num <= f[k].den
        <5>1. c \in Nat /\ k + c <= n
          BY <1>0, <1>1, <3>2
        <5> QED
          BY <1>0, <4>1, <5>1, ProductAtMostOne
      <4>3. f[k].den - f[k].num \in Nat /\ f[k].den \in Nat /\ f[k].den - f[k].num <= f[k].den
        BY <4>1, <4>2
      <4> QED
        BY <4>1, <4>3
    <3> QED
      BY <1>0, <1>1, <3>1, <3>2
  <2> HIDE DEF all, failed, c
  <2>3. Compare(Over(a, b), Over(all, all)) = Sign(a * all, all * b)
    BY DEF Compare, Over
  <2>4. a * all <= all * b /\ a * all \in Nat /\ all * b \in Nat
    BY <1>2, <2>2, TimesGrows
  <2>5. Sign(a * all, all * b) # "more"
    BY <2>4 DEF Sign
  <2> QED
    BY <1>2, <2>1, <2>2, <2>3, <2>5 DEF c
<1>5. CASE c # 0 /\ m - c >= k
  <2>0. n - c >= k /\ c \in Nat /\ k \in Nat /\ k + c <= m /\ k \in 0..k /\ F \in SUBSET (1..m)
    BY <1>0, <1>1, <1>5
  <2>1. PICK f : /\ Product(f, n, c, k)
                 /\ f[k].num \in Nat /\ f[k].den \in Nat \ {0}
                 /\ PassAtK(n, c, k) = Over(f[k].den - f[k].num, f[k].den)
    BY <1>0, <1>1, <1>5, <2>0, PassAtKIs
  <2>2. PICK g : /\ Product(g, m, c, k)
                 /\ g[k].num \in Nat /\ g[k].den \in Nat \ {0}
    BY <1>0, <1>1, <1>5, PassAtKIs
  <2>3. g[k].num * all = g[k].den * failed
    <3>1. \A i \in 0..k : g[i].num * Cardinality(kSubset(i, 1..m)) = g[i].den * Cardinality(kSubset(i, F))
      BY <1>1, <2>0, <2>2, ProductIsShare
    <3> QED
      BY <2>0, <3>1
  <2>4. f[k].num * g[k].den >= g[k].num * f[k].den
    <3>1. \A i \in 0..k : f[i].num * g[i].den >= g[i].num * f[i].den
      BY <1>0, <2>0, <2>1, <2>2, MoreTrialsFailMore
    <3> QED
      BY <2>0, <3>1
  <2> DEFINE a == f[k].num
             b == f[k].den
             s == g[k].num
             t == g[k].den
  <2> HIDE DEF all, failed, c, a, b, s, t
  <2>5. /\ a \in Nat /\ b \in Nat /\ s \in Nat /\ t \in Nat \ {0}
        /\ s * all = t * failed /\ a * t >= s * b
    BY <2>1, <2>2, <2>3, <2>4 DEF a, b, s, t
  <2>6. a * all >= failed * b
    BY <1>2, <2>5, Scale
  <2>7. ~((b - a) * all > (all - failed) * b)
    <3>1. (b - a) * all = b * all - a * all /\ (all - failed) * b = b * all - failed * b
      BY <1>2, <2>5
    <3>2. a * all \in Nat /\ b * all \in Nat /\ failed * b \in Nat
      BY <1>2, <2>5
    <3> QED
      BY <2>6, <3>1, <3>2
  <2>8. Compare(Over(b - a, b), Over(all - failed, all)) = Sign((b - a) * all, (all - failed) * b)
    BY DEF Compare, Over
  <2>9. Sign((b - a) * all, (all - failed) * b) # "more"
    BY <2>7 DEF Sign
  <2> QED
    BY <1>2, <2>1, <2>8, <2>9 DEF a, b, c
<1> QED
  BY <1>1, <1>0, <1>3, <1>4, <1>5

----------------------------------------------------------------------------
(* What is reported of trials.                                             *)

TrialInv ==
    /\ pc \in [Procs -> Phases] /\ runs \in Nat
    /\ total \in [Procs -> Nat] /\ trial \in [Procs -> Nat] /\ passing \in [Procs -> SUBSET Nat]
    /\ \A p \in Procs : pc[p] # "idle" => trial[p] \in 1..total[p]
    /\ \A p \in Procs : passing[p] \subseteq 1..(trial[p] - 1)

ReportInv ==
    report # None =>
        /\ report.total \in Nat /\ report.ran \in 0..report.total
        /\ report.passing \subseteq 1..report.ran
        /\ ~report.broken => report.ran = report.total

\* What a report says of the trials that ran.
LEMMA ReportKept ==
    ASSUME TrialInv, ReportInv, NEW p \in Procs, NEW ran \in 0..total[p], NEW passed \in SUBSET (1..ran),
           NEW broken, broken \/ ran = total[p], Report(p, passed, ran, broken)
    PROVE  ReportInv'
<1>1. CASE report' = report
  BY <1>1 DEF ReportInv
<1>2. CASE report' = [total |-> total[p], passing |-> passed, ran |-> ran, broken |-> broken]
  <2>1. total[p] \in Nat
    BY DEF TrialInv
  <2> QED
    BY <1>2, <2>1 DEF ReportInv
<1> QED
  BY <1>1, <1>2 DEF Report

\* A process without trials has nothing to report.
LEMMA LeaveKeepsTrials ==
    ASSUME TrialInv, NEW p \in Procs, Leave(p), UNCHANGED runs
    PROVE  TrialInv'
<1>1. /\ pc' = [pc EXCEPT ![p] = "idle"] /\ total' = [total EXCEPT ![p] = 0]
      /\ trial' = [trial EXCEPT ![p] = 0] /\ passing' = [passing EXCEPT ![p] = {}]
  BY DEF Leave, Go
<1> QED
  BY <1>1 DEF TrialInv, Phases

\* After a trial: those that passed are among those that ran.
LEMMA TrialOverKeepsTrials ==
    ASSUME TrialInv, ReportInv, NEW p \in Procs, pc[p] # "idle", NEW passed \in SUBSET (1..trial[p]),
           NEW broken, TrialOver(p, passed, broken), UNCHANGED runs
    PROVE  TrialInv' /\ ReportInv'
<1>1. trial[p] \in 1..total[p] /\ total[p] \in Nat /\ trial[p] \in 0..total[p]
  BY DEF TrialInv
<1>2. CASE broken \/ trial[p] = total[p]
  <2>1. Report(p, passed, trial[p], broken) /\ Leave(p)
    BY <1>2 DEF TrialOver
  <2> QED
    BY <1>1, <1>2, <2>1, ReportKept, LeaveKeepsTrials
<1>3. CASE ~(broken \/ trial[p] = total[p])
  <2>1. /\ trial' = [trial EXCEPT ![p] = @ + 1] /\ passing' = [passing EXCEPT ![p] = passed]
        /\ pc' = [pc EXCEPT ![p] = "trial"] /\ UNCHANGED <<total, report>>
    BY <1>3 DEF TrialOver, Go
  <2>2. passed \in SUBSET Nat /\ trial[p] + 1 \in 1..total[p] /\ (trial[p] + 1) - 1 = trial[p]
    BY <1>1, <1>3
  <2>3. TrialInv'
    <3>1. /\ pc' \in [Procs -> Phases] /\ runs' \in Nat /\ total' \in [Procs -> Nat]
          /\ trial' \in [Procs -> Nat] /\ passing' \in [Procs -> SUBSET Nat]
      BY <1>1, <2>1, <2>2 DEF TrialInv, Phases
    <3>2. \A q \in Procs : pc'[q] # "idle" => trial'[q] \in 1..total'[q]
      BY <2>1, <2>2 DEF TrialInv
    <3>3. passing'[p] \subseteq 1..(trial'[p] - 1)
      <4>1. passing'[p] = passed /\ trial'[p] = trial[p] + 1
        BY <2>1 DEF TrialInv
      <4> QED
        BY <2>2, <4>1
    <3>4. \A q \in Procs \ {p} : passing'[q] \subseteq 1..(trial'[q] - 1)
      BY <2>1 DEF TrialInv
    <3> QED
      BY <3>1, <3>2, <3>3, <3>4 DEF TrialInv
  <2>4. ReportInv'
    BY <2>1 DEF ReportInv
  <2> QED
    BY <2>3, <2>4
<1> QED
  BY <1>2, <1>3

\* No step reports more trials than ran, or one that did not run as passed.
LEMMA TrialInvariant == Spec => [](TrialInv /\ ReportInv)
<1>1. Init => TrialInv /\ ReportInv
  BY DEF Init, TrialInv, ReportInv, Phases
<1>2. TrialInv /\ ReportInv /\ [Next]_vars => TrialInv' /\ ReportInv'
  <2> SUFFICES ASSUME TrialInv, ReportInv, [Next]_vars PROVE TrialInv' /\ ReportInv'
    OBVIOUS
  <2>1. ASSUME UNCHANGED <<trials, runs>> PROVE TrialInv' /\ ReportInv'
    BY <2>1 DEF trials, TrialInv, ReportInv
  <2>2. ASSUME NEW p \in Procs, Begin(p) PROVE TrialInv' /\ ReportInv'
    <3>1. PICK n \in 1..(MaxRuns - runs) : total' = [total EXCEPT ![p] = n] /\ runs' = runs + n
      BY <2>2 DEF Begin
    <3>2. /\ trial' = [trial EXCEPT ![p] = 1] /\ passing' = [passing EXCEPT ![p] = {}]
          /\ report' = None /\ pc' = [pc EXCEPT ![p] = "trial"]
      BY <2>2 DEF Begin, Go
    <3>3. n \in Nat \ {0} /\ runs' \in Nat
      BY <3>1, BoundsAssumption DEF TrialInv
    <3>4. TrialInv'
      BY <3>1, <3>2, <3>3 DEF TrialInv, Phases
    <3> QED
      BY <3>2, <3>4 DEF ReportInv
  <2>3. ASSUME NEW p \in Procs, NEW next \in {"agent", "account"}, pc[p] # "idle", Go(p, next),
               UNCHANGED <<total, trial, passing, report, runs>>
        PROVE  TrialInv' /\ ReportInv'
    BY <2>3 DEF Go, TrialInv, ReportInv, Phases
  <2>4. ASSUME NEW p \in Procs, LookUp(p) PROVE TrialInv' /\ ReportInv'
    BY <2>3, <2>4 DEF LookUp
  <2>5. ASSUME NEW p \in Procs, Charge(p) PROVE TrialInv' /\ ReportInv'
    BY <2>3, <2>5 DEF Charge
  <2>6. ASSUME NEW p \in Procs, Account(p) PROVE TrialInv' /\ ReportInv'
    <3>1. pc[p] # "idle" /\ UNCHANGED runs
      BY <2>6 DEF Account
    <3>2. PICK passed \in {Stages - 1, Stages} :
            TrialOver(p, IF passed = Stages THEN passing[p] \cup {trial[p]} ELSE passing[p], FALSE)
      BY <2>6 DEF Account
    <3>3. trial[p] \in 1..total[p] /\ total[p] \in Nat /\ passing[p] \subseteq 1..(trial[p] - 1)
      BY <3>1 DEF TrialInv
    <3>4. passing[p] \cup {trial[p]} \in SUBSET (1..trial[p]) /\ passing[p] \in SUBSET (1..trial[p])
      BY <3>3
    <3> QED
      BY <3>1, <3>2, <3>4, TrialOverKeepsTrials
  <2>7. ASSUME NEW p \in Procs, Fails(p) PROVE TrialInv' /\ ReportInv'
    <3>1. pc[p] # "idle" /\ UNCHANGED runs /\ TrialOver(p, passing[p], p # Cli)
      BY <2>7 DEF Fails
    <3>2. trial[p] \in Nat /\ passing[p] \subseteq 1..(trial[p] - 1)
      BY DEF TrialInv
    <3>3. passing[p] \in SUBSET (1..trial[p])
      BY <3>2
    <3> QED
      BY <3>1, <3>3, TrialOverKeepsTrials
  <2>8. ASSUME NEW p \in Procs, Stop(p) PROVE TrialInv' /\ ReportInv'
    <3>1. pc[p] # "idle" /\ Leave(p) /\ UNCHANGED runs
      BY <2>8 DEF Stop
    <3>2. TrialInv'
      BY <3>1, LeaveKeepsTrials
    <3>3. ReportInv'
      <4>1. CASE Report(p, passing[p], trial[p] - 1, TRUE)
        <5>1. trial[p] \in 1..total[p] /\ total[p] \in Nat /\ passing[p] \subseteq 1..(trial[p] - 1)
          BY <3>1 DEF TrialInv
        <5>2. trial[p] - 1 \in 0..total[p]
          BY <5>1
        <5> QED
          BY <4>1, <5>1, <5>2, ReportKept
      <4>2. CASE UNCHANGED report
        BY <4>2 DEF ReportInv
      <4> QED
        BY <2>8, <4>1, <4>2 DEF Stop
    <3> QED
      BY <3>2, <3>3
  <2>9. CASE Bill \/ UNCHANGED vars
    BY <2>1, <2>9 DEF Bill, vars
  <2> QED
    BY <2>2, <2>4, <2>5, <2>6, <2>7, <2>8, <2>9 DEF Next
<1> QED
  BY <1>1, <1>2, PTL DEF Spec

(* Whatever trials ran, failed or were stopped: the pass@k reported is the *)
(* share of the choices of k trials that include one that passed, and no   *)
(* more than that share where the server gave up before the last trial.    *)
THEOREM PassAtKTheorem == Spec => []PassAtKIsTheChance
<1>1. ReportInv => PassAtKIsTheChance
  <2> SUFFICES ASSUME ReportInv, report # None,
                      NEW k \in 1..report.ran
               PROVE  LET r == report
                          c == Cardinality(r.passing)
                      IN  IF r.broken
                          THEN Compare(PassAtK(r.total, c, k), Chance(r.ran, k, r.passing)) # "more"
                          ELSE Compare(PassAtK(r.total, c, k), Chance(r.total, k, r.passing)) = "same"
    BY DEF PassAtKIsTheChance, Chance
  <2>1. /\ report.total \in Nat /\ report.ran \in 0..report.total
        /\ report.passing \in SUBSET (1..report.ran)
        /\ ~report.broken => report.ran = report.total
    BY DEF ReportInv
  <2>2. report.broken => Compare(PassAtK(report.total, Cardinality(report.passing), k),
                                 Chance(report.ran, k, report.passing)) # "more"
    BY <2>1, PassAtKOfMore
  <2>3. ~report.broken => Compare(PassAtK(report.total, Cardinality(report.passing), k),
                                  Chance(report.total, k, report.passing)) = "same"
    BY <2>1, PassAtKIsExact
  <2> QED
    BY <2>2, <2>3
<1> QED
  BY <1>1, TrialInvariant, PTL
=============================================================================
