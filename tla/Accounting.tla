----------------------------- MODULE Accounting -----------------------------
(***************************************************************************)
(* What a run is said to have cost and where that puts it: the prices and  *)
(* scores of src/cost/calculator.rs, the accounting in BenchmarkPipeline   *)
(* (src/pipeline.rs), the trials of a process (src/main.rs, start_benchmark *)
(* in src/web/server.rs), pass@k and the orders of the leaderboard and of  *)
(* the summary (src/report/leaderboard.rs, src/report/summary.rs).         *)
(* Money is in units of 10^-7 USD, tokens and requests per second are in   *)
(* thousands, and a score, a rate or a probability is an exact fraction.   *)
(***************************************************************************)
EXTENDS Naturals, Sequences, FiniteSets, FiniteSetsExt, TLC

CONSTANTS
    Procs,      \* processes that execute trials
    Cli,        \* the one that is the command line; the others are web servers
    Models,     \* models benchmarked, see ForModel
    Usages,     \* what an agent may use: [prompt, cached, completion] tokens
    Durations,  \* how long a run may take, in seconds
    Loads,      \* what load tests may measure: [speed, reference], 0 where one failed
    MaxRuns,    \* bound: runs of all processes
    MaxSaved,   \* bound: different results recorded
    None        \* no value

ASSUME BoundsAssumption == Cli \in Procs /\ Durations \subseteq Nat /\ MaxRuns \in Nat /\ MaxSaved \in Nat
ASSUME LoadsAssumption == Loads \subseteq [speed : Nat, reference : Nat]

----------------------------------------------------------------------------
(* Prices                                                                  *)

Rates(prompt, completion, cached) ==
    [prompt |-> prompt, completion |-> completion, cached |-> cached]

\* per thousand tokens; local models of any name are free
ForModel ==
    "local"              :> Rates(0, 0, 0)        @@ "gemini-2.5-flash"   :> Rates(1500, 6000, 375) @@
    "deepseek-chat"      :> Rates(1400, 2800, 140) @@ "qwen-2.5-coder-32b" :> Rates(600, 1500, 150) @@
    "llama-3.3-70b"      :> Rates(1200, 3000, 300) @@ "gpt-4o-mini"        :> Rates(1500, 6000, 750) @@
    "claude-3-haiku"     :> Rates(8000, 40000, 800) @@ "mistral-small"     :> Rates(1000, 3000, 250) @@
    "other"              :> Rates(2000, 6000, 500)

\* the live catalogue gives no price for the cache: a quarter of the prompt's
FromRates(r) == Rates(r.prompt, r.completion, r.prompt \div 4)

\* for_model_async: the catalogue is asked unless the model is local
Pricings(model) ==
    {ForModel[model]} \cup (IF model = "local" THEN {} ELSE {FromRates(ForModel[model])})

\* every model that is benchmarked has a price
ASSUME PricesAssumption ==
    /\ Usages \subseteq [prompt : Nat, cached : Nat, completion : Nat]
    /\ \A m \in Models : ForModel[m] \in [prompt : Nat, completion : Nat, cached : Nat]

TokenCost(r, u) == u.prompt * r.prompt + u.cached * r.cached + u.completion * r.completion

Tokens(u) == u.prompt + u.completion

ComputeCost(seconds, tokens) == 300 * seconds + 500 * tokens

EffectiveCost(cost, seconds, tokens) == cost + ComputeCost(seconds, tokens)

----------------------------------------------------------------------------
(* Scores                                                                  *)

Over(n, d)   == [num |-> n, den |-> d]
Sign(x, y)   == IF x > y THEN "more" ELSE IF x < y THEN "less" ELSE "same"
Compare(p, q) == Sign(p.num * q.den, q.num * p.den)

Stages == 4
Full(r) == r.passed = Stages

\* a hundred points per cent of a dollar, in units of 10^7 points
Efficiency(r) ==
    IF ~Full(r) \/ r.effective = 0 THEN Over(0, 1)
    ELSE Over(1, IF r.effective > 10 THEN r.effective ELSE 10)

\* against the reference measured beside it, or against 33 000
SpeedRatio(r) ==
    IF r.reference > 0 THEN Over(r.speed, r.reference) ELSE Over(r.speed, 33)

ThroughputScore(r) ==
    LET s == SpeedRatio(r)
    IN  Over(Efficiency(r).num * (s.den + 2 * s.num), Efficiency(r).den * s.den)

----------------------------------------------------------------------------
(* Orders: comparisons of which the first that tells two results apart     *)
(* decides.                                                                *)

Precedes(order) ==
    \E i \in DOMAIN order : order[i] = "more" /\ \A j \in 1..(i - 1) : order[j] = "same"

LeaderboardOrder(a, b) ==
    << Sign(IF Full(a) THEN 1 ELSE 0, IF Full(b) THEN 1 ELSE 0),
       Sign(a.passed, b.passed),
       Compare(ThroughputScore(a), ThroughputScore(b)),
       Sign(b.effective, a.effective),
       Sign(a.speed, b.speed) >>

\* Mutant: the throughput is looked at before the cost.
SpeedFirst(a, b) ==
    << Sign(a.passed, b.passed),
       Sign(a.speed, b.speed),
       Compare(Efficiency(a), Efficiency(b)),
       Sign(b.effective, a.effective) >>

SummaryOrder(a, b) ==
    << Sign(a.passed, b.passed),
       Compare(Efficiency(a), Efficiency(b)),
       Sign(b.effective, a.effective),
       Sign(a.speed, b.speed) >>

----------------------------------------------------------------------------
(* pass@k: of n trials c have passed.                                      *)

\* Mutant: a trial may be drawn again.
FailChanceWithReplacement(n, c, k) == Over((n - c) ^ k, n ^ k)

\* that k trials, drawn one by one, are all among those that failed
FailChance(n, c, k) ==
    LET f[i \in 0..k] ==
            IF i = 0 THEN Over(1, 1)
            ELSE Over(f[i - 1].num * (n - c - (i - 1)), f[i - 1].den * (n - (i - 1)))
    IN  f[k]

PassAtK(n, c, k) ==
    IF n = 0 \/ c = 0 \/ k = 0 \/ c > n \/ k > n THEN Over(IF n > 0 /\ c = n THEN 1 ELSE 0, 1)
    ELSE IF n - c < k THEN Over(1, 1)
    ELSE LET f == FailChance(n, c, k) IN Over(f.den - f.num, f.den)

----------------------------------------------------------------------------
VARIABLES
    pc,            \* per process: "idle", "trial", "agent", "account"
    total, trial,  \* per process: trials asked for, the trial at hand
    passing,       \* per process: trials that passed
    first,         \* per process: the key's usage when the run began
    model, spend,  \* per process: what the agent runs on, and has cost
    usage, owed,   \* of the one key: billed, and charged but not yet billed
    results,       \* what has been recorded, with the cost it really had
    report         \* the last line about trials: [total, passing, ran, broken]

VARIABLES alone, runs   \* history: processes whose key no other has used; bound

trials == <<pc, total, trial, passing, report>>
money  == <<first, model, spend, usage, owed, alone>>
vars   == <<trials, money, results, runs>>

Init ==
    /\ pc = [p \in Procs |-> "idle"]
    /\ total = [p \in Procs |-> 0] /\ trial = [p \in Procs |-> 0] /\ passing = [p \in Procs |-> {}]
    /\ first = [p \in Procs |-> None] /\ model = [p \in Procs |-> None] /\ spend = [p \in Procs |-> None]
    /\ usage = 0 /\ owed = 0 /\ results = {}
    /\ report = None
    /\ alone = {} /\ runs = 0

Go(p, next) == pc' = [pc EXCEPT ![p] = next]

\* a command line, or a request to start_benchmark
Begin(p) ==
    /\ pc[p] = "idle" /\ runs < MaxRuns
    /\ \E n \in 1..(MaxRuns - runs) :
        /\ total' = [total EXCEPT ![p] = n]
        /\ runs' = runs + n
    /\ trial' = [trial EXCEPT ![p] = 1]
    /\ passing' = [passing EXCEPT ![p] = {}]
    /\ report' = None
    /\ Go(p, "trial")
    /\ UNCHANGED <<money, results>>

\* the key's usage before the run; without it there is no difference to take
LookUp(p) ==
    /\ pc[p] = "trial"
    /\ \E known \in BOOLEAN : first' = [first EXCEPT ![p] = IF known THEN usage ELSE None]
    /\ \E m \in Models : model' = [model EXCEPT ![p] = m]
    /\ alone' = IF owed = 0 /\ \A q \in Procs \ {p} : pc[q] # "agent" THEN {p} ELSE {}
    /\ Go(p, "agent")
    /\ UNCHANGED <<total, trial, passing, report, spend, usage, owed, results, runs>>

\* the agent's calls, charged at the model's rates (the provider is external)
Charge(p) ==
    /\ pc[p] = "agent"
    /\ \E u \in Usages :
        LET c == TokenCost(ForModel[model[p]], u)
        IN  spend' = [spend EXCEPT ![p] = [usage |-> u, cost |-> c]] /\ owed' = owed + c
    /\ Go(p, "account")
    /\ UNCHANGED <<total, trial, passing, report, first, model, usage, alone, results, runs>>

Bill ==
    /\ owed > 0
    /\ usage' = usage + owed /\ owed' = 0
    /\ UNCHANGED <<trials, first, model, spend, alone, results, runs>>

\* Mutant: a usage that could not be had before the run counts as nothing.
DeltasFromNothing(p) == {usage - (IF first[p] = None THEN 0 ELSE first[p])}

\* what the key has been charged since, if both usages could be had
SpendDeltas(p) ==
    IF first[p] # None /\ usage >= first[p] THEN {usage - first[p]} ELSE {}

Forget(p) ==
    /\ first' = [first EXCEPT ![p] = None]
    /\ model' = [model EXCEPT ![p] = None]
    /\ spend' = [spend EXCEPT ![p] = None]
    /\ UNCHANGED <<usage, owed, alone>>

Leave(p) ==
    /\ Go(p, "idle")
    /\ total' = [total EXCEPT ![p] = 0] /\ trial' = [trial EXCEPT ![p] = 0]
    /\ passing' = [passing EXCEPT ![p] = {}]

\* a single run is not reported
Report(p, passed, ran, broken) ==
    report' = IF total[p] > 1
              THEN [total |-> total[p], passing |-> passed, ran |-> ran, broken |-> broken]
              ELSE report

\* after a trial the next one begins, or what came of them all is reported
TrialOver(p, passed, broken) ==
    /\ Forget(p)
    /\ IF broken \/ trial[p] = total[p]
       THEN /\ Report(p, passed, trial[p], broken)
            /\ Leave(p)
       ELSE /\ trial' = [trial EXCEPT ![p] = @ + 1]
            /\ passing' = [passing EXCEPT ![p] = passed]
            /\ Go(p, "trial")
            /\ UNCHANGED <<total, report>>

\* costs that may be charged to the run: the key's difference, or the tokens' price
Costs(p, live) ==
    IF live THEN SpendDeltas(p) ELSE {TokenCost(r, spend[p].usage) : r \in Pricings(model[p])}

Entry(p, passed, seconds, load, live, cost) ==
    [passed |-> passed, speed |-> load.speed, reference |-> load.reference,
     effective |-> EffectiveCost(cost, seconds, Tokens(spend[p].usage)),
     cost |-> cost, live |-> live, spend |-> spend[p].cost, own |-> p \in alone /\ owed = 0]

\* what is saved, if anything is
Recorded(p, passed, seconds, load) ==
    \E live \in BOOLEAN : \E cost \in Costs(p, live) :
    \E save_results \in IF Cardinality(results) < MaxSaved THEN BOOLEAN ELSE {FALSE} :
        results' = results \cup (IF save_results
                                THEN {Entry(p, passed, seconds, load, live, cost)} ELSE {})

\* a load test follows only if every stage passed, and either of its halves may fail
Account(p) ==
    /\ pc[p] = "account"
    /\ \E passed \in {Stages - 1, Stages}, seconds \in Durations :
       \E load \in IF passed = Stages THEN Loads ELSE {[speed |-> 0, reference |-> 0]} :
        /\ Recorded(p, passed, seconds, load)
        /\ TrialOver(p, IF passed = Stages THEN passing[p] \cup {trial[p]} ELSE passing[p], FALSE)
    /\ UNCHANGED runs

\* execute returns an error: the command line goes on, the server does not
Fails(p) ==
    /\ pc[p] \in {"trial", "agent", "account"}
    /\ TrialOver(p, passing[p], p # Cli)
    /\ UNCHANGED <<results, runs>>

\* a stop, seen before the next trial or ending the task where it waits
Stop(p) ==
    /\ p # Cli /\ pc[p] # "idle"
    /\ Leave(p) /\ Forget(p)
    /\ \/ pc[p] = "trial" /\ Report(p, passing[p], trial[p] - 1, TRUE)
       \/ UNCHANGED report
    /\ UNCHANGED <<results, runs>>

----------------------------------------------------------------------------
Next ==
    \/ Bill
    \/ \E p \in Procs : Begin(p) \/ LookUp(p) \/ Charge(p) \/ Account(p) \/ Fails(p) \/ Stop(p)

Spec == Init /\ [][Next]_vars

----------------------------------------------------------------------------
(* A cost taken from the key's usage is what this run's agent has spent,   *)
(* unless another run used the key in between or a charge was billed late  *)
(* (initial_spend and live_spend_delta in BenchmarkPipeline::execute).     *)
CostIsOwn == \A r \in results : r.live /\ r.own => r.cost = r.spend

(* The pass@k reported of trials is the chance that k of them, drawn at    *)
(* random, include one that passed.  The server counts the trials it never *)
(* ran as failed, so it then reports no more than this.                    *)
PassAtKIsTheChance ==
    report # None =>
        LET r    == report
            c    == Cardinality(r.passing)
            Chance(n, k) ==
                LET draws == kSubset(k, 1..n)
                IN  Over(Cardinality({d \in draws : d \cap r.passing # {}}), Cardinality(draws))
        IN  \A k \in 1..r.ran :
                IF r.broken THEN Compare(PassAtK(r.total, c, k), Chance(r.ran, k)) # "more"
                ELSE Compare(PassAtK(r.total, c, k), Chance(r.total, k)) = "same"

(* The leaderboard and the summary may place two results in opposite       *)
(* orders only where both pass everything and the one that the leaderboard *)
(* prefers was faster against its reference, but dearer or, at the same    *)
(* cost, slower in requests per second.                                    *)
RanksAgree ==
    \A a, b \in results :
        Precedes(LeaderboardOrder(a, b)) /\ Precedes(SummaryOrder(b, a)) =>
            /\ Full(a) /\ Full(b)
            /\ Compare(SpeedRatio(a), SpeedRatio(b)) = "more"
            /\ a.effective > b.effective \/ (a.effective = b.effective /\ a.speed < b.speed)
=============================================================================
