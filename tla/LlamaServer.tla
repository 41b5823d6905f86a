----------------------------- MODULE LlamaServer -----------------------------
(***************************************************************************)
(* The local model server: LlamaServerManager                              *)
(* (src/sandbox/llama_server.rs) and its callers in src/web/server.rs.     *)
(*                                                                         *)
(* There is one llama.cpp container.  A start with a local model first     *)
(* makes sure that the server runs a matching model, and trial 1 waits for *)
(* it to be healthy.  The page's buttons start and stop the container at   *)
(* any time.  Model names are known by the words the code looks for in     *)
(* them; a repository is named after the preset that resolves to it.       *)
(*                                                                         *)
(* Who holds is_running and what a stop does to a run is RunController's   *)
(* subject; here a stop frees busy, aborts a spawned task, and leaves a    *)
(* start that still waits for its status answer to go on.                  *)
(***************************************************************************)
EXTENDS Naturals, Sequences, FiniteSetsExt

CONSTANTS
    Runs,         \* the starts
    Asked,        \* the models they may ask for
    Buttons,      \* the presets that the page may start
    MaxPolls,     \* polls of the readiness wait (120 in the code)
    MaxClicks,    \* bound: clicks on the page's buttons
    MaxStops      \* bound: stop requests

ASSUME BoundAssumption == MaxPolls \in Nat \ {0} /\ MaxClicks \in Nat /\ MaxStops \in Nat

\* the words the code looks for that occur in a preset's name and repository
Words(name) ==
    CASE name = "qwen2.5-coder-1.5b"  -> {"1.5b", "coder"}
      [] name = "qwen2.5-coder-7b"    -> {"7b", "coder"}
      [] name = "qwen2.5-coder-14b"   -> {"14b", "coder"}
      [] name = "llama-3.2-3b"        -> {"3.2", "3b", "llama"}
      [] name = "llama-3.1-8b"        -> {"3.1", "8b", "llama"}
      [] name = "deepseek-coder-6.7b" -> {"6.7b", "7b", "coder", "deepseek"}
      [] name = "glm-4-9b"            -> {"glm"}
      [] name = "gemma-2-9b"          -> {"gemma"}
      [] name = "phi-3.5-mini"        -> {"phi"}
      [] name = "starcoder2-7b"       -> {"7b", "coder", "starcoder"}
      [] name = "local-llama"         -> {"llama"}

\* "local-llama" is nobody's repository
Repos == {"qwen2.5-coder-1.5b", "qwen2.5-coder-7b", "qwen2.5-coder-14b", "llama-3.2-3b",
          "llama-3.1-8b", "deepseek-coder-6.7b", "glm-4-9b", "gemma-2-9b", "phi-3.5-mini",
          "starcoder2-7b"}

ASSUME NameAssumption == Asked \subseteq Repos \cup {"local-llama"} /\ Buttons \subseteq Repos

\* the first rule whose words all occur in the name gives the target preset
Rules == <<
    <<{"14b"}, "qwen2.5-coder-14b">>,
    <<{"7b", "coder"}, "qwen2.5-coder-7b">>,
    <<{"6.7b"}, "deepseek-coder-6.7b">>,
    <<{"deepseek"}, "deepseek-coder-6.7b">>,
    <<{"glm"}, "glm-4-9b">>,
    <<{"gemma"}, "gemma-2-9b">>,
    <<{"phi"}, "phi-3.5-mini">>,
    <<{"starcoder"}, "starcoder2-7b">>,
    <<{"3.1"}, "llama-3.1-8b">>,
    <<{"8b", "llama"}, "llama-3.1-8b">>,
    <<{"3.2"}, "llama-3.2-3b">>,
    <<{"3b"}, "llama-3.2-3b">>,
    <<{"1.5b"}, "qwen2.5-coder-1.5b">>,
    <<{}, "qwen2.5-coder-7b">> >>

Target(name) == Rules[Min({i \in DOMAIN Rules : Rules[i][1] \subseteq Words(name)})][2]

\* words that make a running model good enough for a target
Hint(target) ==
    CASE target = "qwen2.5-coder-14b"   -> {"14b"}
      [] target = "qwen2.5-coder-7b"    -> {"7b"}
      [] target = "qwen2.5-coder-1.5b"  -> {"1.5b"}
      [] target = "deepseek-coder-6.7b" -> {"6.7b"}
      [] target = "glm-4-9b"            -> {"glm"}
      [] target = "gemma-2-9b"          -> {"gemma"}
      [] target = "phi-3.5-mini"        -> {"phi"}
      [] target = "llama-3.1-8b"        -> {"3.1"}
      [] target = "llama-3.2-3b"        -> {"3.2"}
      [] target = "starcoder2-7b"       -> {"no hint"}

\* Mutant: any running model will do.
MatchesAny(curr, target) == curr \in Repos

Matches(curr, target) ==
    curr \in Repos /\ (curr = target \/ Hint(target) \subseteq Words(curr))

VARIABLES
    server,       \* the repository the container serves, or "none"
    healthy,      \* is the model loaded?
    busy,         \* is_running
    model,        \* what each run asked for
    pc,           \* where each run is
    seen,         \* the last status answer: the model, "unknown", or "down"
    polls,        \* polls of the readiness wait
    \* bounds and history
    clicks, stops,
    disturbed,    \* runs whose container was changed by a button
    evicted       \* runs whose container was changed by another run

serverVars  == <<server, healthy>>
runVars     == <<busy, model, pc, seen, polls>>
historyVars == <<clicks, stops, disturbed, evicted>>
vars == <<serverVars, runVars, historyVars>>

Init ==
    /\ server = "none" /\ healthy = FALSE
    /\ busy = FALSE
    /\ model \in [Runs -> Asked]
    /\ pc = [r \in Runs |-> "new"]
    /\ seen = [r \in Runs |-> "down"]
    /\ polls = [r \in Runs |-> 0]
    /\ clicks = 0 /\ stops = 0
    /\ disturbed = {} /\ evicted = {}

Over   == {"ended", "failed", "dropped"}
Active == {r \in Runs : pc[r] \notin Over \cup {"new"}}

-----------------------------------------------------------------------------
(* The container *)

\* docker rm -f, then docker run, which may fail
Restarted(repo) ==
    /\ server' \in {repo, "none"}
    /\ healthy' = FALSE

\* weights are fetched and loaded, if the repository exists
Loads ==
    /\ server \in Repos /\ ~healthy
    /\ healthy' = TRUE
    /\ UNCHANGED <<server, runVars, historyVars>>

\* status: /health, then /v1/models, whose answer may be missing
Answer == IF healthy THEN {server, "unknown"} ELSE {"down"}

-----------------------------------------------------------------------------
(* A start and its task *)

Goes(r, from, to) == pc[r] = from /\ pc' = [pc EXCEPT ![r] = to]

\* Mutant: a plain store instead of the compare-and-exchange.
AcceptAlways(r) ==
    /\ busy' = TRUE
    /\ Goes(r, "new", "ask")
    /\ UNCHANGED <<serverVars, model, seen, polls, historyVars>>

Accept(r) ==
    /\ ~busy
    /\ busy' = TRUE
    /\ Goes(r, "new", "ask")
    /\ UNCHANGED <<serverVars, model, seen, polls, historyVars>>

\* the status request of ensure_running_for_model is answered
Ask(r) ==
    /\ Goes(r, "ask", "ensure")
    /\ \E answer \in Answer : seen' = [seen EXCEPT ![r] = answer]
    /\ UNCHANGED <<serverVars, busy, model, polls, historyVars>>

Keep(r) ==
    /\ Matches(seen[r], Target(model[r]))
    /\ Goes(r, "ensure", "look")
    /\ UNCHANGED <<serverVars, busy, model, seen, polls, historyVars>>

\* a failed docker run gives up the start
Replace(r) ==
    /\ ~Matches(seen[r], Target(model[r]))
    /\ Restarted(Target(model[r]))
    /\ Goes(r, "ensure", IF server' = "none" THEN "failed" ELSE "look")
    /\ busy' = IF server' = "none" THEN FALSE ELSE busy
    /\ evicted' = evicted \cup (Active \ {r})
    /\ UNCHANGED <<model, seen, polls, clicks, stops, disturbed>>

\* trial 1 asks again ..
Look(r) ==
    /\ Goes(r, "look", "decide")
    /\ \E answer \in Answer : seen' = [seen EXCEPT ![r] = answer]
    /\ UNCHANGED <<serverVars, busy, model, polls, historyVars>>

Ready(r) ==
    /\ seen[r] # "down"
    /\ Goes(r, "decide", "poll")
    /\ UNCHANGED <<serverVars, busy, model, seen, polls, historyVars>>

\* .. and starts the server anew, for the name as it was asked for, while it loads
StartAgain(r) ==
    /\ seen[r] = "down"
    /\ Restarted(model[r])
    /\ Goes(r, "decide", "poll")
    /\ evicted' = evicted \cup (Active \ {r})
    /\ UNCHANGED <<busy, model, seen, polls, clicks, stops, disturbed>>

\* Mutant: the wait has no end.
PollForEver(r) ==
    /\ Goes(r, "poll", IF healthy THEN "agent" ELSE "poll")
    /\ UNCHANGED <<serverVars, busy, model, seen, polls, historyVars>>

\* the run proceeds when the server is healthy, and after the last poll anyway
Poll(r) ==
    /\ polls[r] < MaxPolls
    /\ polls' = [polls EXCEPT ![r] = @ + 1]
    /\ Goes(r, "poll", IF healthy \/ polls'[r] = MaxPolls THEN "agent" ELSE "poll")
    /\ UNCHANGED <<serverVars, busy, model, seen, historyVars>>

Finish(r) ==
    /\ Goes(r, "agent", "ended")
    /\ busy' = FALSE
    /\ UNCHANGED <<serverVars, model, seen, polls, historyVars>>

-----------------------------------------------------------------------------
(* The page's buttons, and stop *)

Click ==
    /\ clicks < MaxClicks
    /\ clicks' = clicks + 1
    /\ disturbed' = disturbed \cup Active

ButtonStart ==
    /\ Click
    /\ \E preset \in Buttons : Restarted(preset)
    /\ UNCHANGED <<runVars, stops, evicted>>

ButtonStop ==
    /\ Click
    /\ server' = "none" /\ healthy' = FALSE
    /\ UNCHANGED <<runVars, stops, evicted>>

\* the task is aborted, a start that waits for its status answer is not
StopRun ==
    /\ busy /\ stops < MaxStops
    /\ stops' = stops + 1
    /\ busy' = FALSE
    /\ pc' = [r \in Runs |->
                IF pc[r] \in {"look", "decide", "poll", "agent"} THEN "dropped" ELSE pc[r]]
    /\ UNCHANGED <<serverVars, model, seen, polls, clicks, disturbed, evicted>>

-----------------------------------------------------------------------------

RunStep(r) ==
    \/ Ask(r) \/ Keep(r) \/ Replace(r) \/ Look(r) \/ Ready(r) \/ StartAgain(r)
    \/ Poll(r) \/ Finish(r)

Next ==
    \/ \E r \in Runs : Accept(r) \/ RunStep(r)
    \/ Loads \/ ButtonStart \/ ButtonStop \/ StopRun

Spec == Init /\ [][Next]_vars

\* a run goes on; the server may load for ever
FairSpec == Spec /\ \A r \in Runs : WF_vars(RunStep(r))

-----------------------------------------------------------------------------
(* Properties *)

\* A run is measured with the model it asked for: when its agent works, nobody
\* having touched the container, the server has that model ("local-llama" asks
\* for any), or docker could not start it.
RightModel ==
    \A r \in Runs : pc[r] = "agent" /\ r \notin disturbed \cup evicted =>
        \/ server = "none"
        \/ server = model[r] /\ server \in Repos
        \/ model[r] = "local-llama" /\ server \in Repos

\* The shared container is never taken from a run by another one, unless a
\* stop let two of them be active together.
EvictionNeedsStop == evicted # {} => stops > 0

\* A server that never loads does not hold a run for ever.
RunsProceed == \A r \in Runs : pc[r] = "ask" ~> pc[r] \in Over
=============================================================================
