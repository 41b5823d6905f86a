------------------------------ MODULE Verifier ------------------------------
(***************************************************************************)
(* What the harness concludes from talking to a candidate: the stages of   *)
(* src/verifier/redis.rs, http.rs and dns.rs, and the part of              *)
(* BenchmarkPipeline::execute (src/pipeline.rs) that leads to them and     *)
(* away from them.  The candidate is the environment: it answers each      *)
(* request rightly or wrongly, in pieces, late, never, or hangs up.        *)
(* Time is in units of 50 ms.                                              *)
(***************************************************************************)
EXTENDS RespFrame, FiniteSets

CONSTANTS
    Tasks,      \* the tasks whose verifiers are run
    Lags,       \* how long a server may take over a step, below the time-outs
    MaxPieces,  \* how many pieces the answer to an exchange may come in
    PipeQuiet,  \* the pipelined answers: one read waits 200 ms (4 in the code)
    PipeTotal   \* and none is begun after 600 ms (12 in the code)

ASSUME TasksAssumption == Tasks \subseteq {"redis", "http", "dns"}

ASSUME TimesAssumption ==
    /\ Lags \subseteq Nat /\ MaxPieces \in Nat
    /\ PipeQuiet \in Nat /\ PipeTotal \in Nat
    /\ 1 < PipeQuiet /\ PipeQuiet <= PipeTotal

Ttl         == 3    \* the key of stage 3 lives 150 ms
TtlPause    == 5    \* and is looked at again after 250 ms
ReadTimeout == 60   \* 3 s for a command's whole answer

----------------------------------------------------------------------------
(* Redis: the stages as scripts of commands.                               *)

Do(cmd, key, arg, judge, want) ==
    [cmd |-> cmd, key |-> key, arg |-> arg, judge |-> judge, want |-> want, pause |-> 0]

Say(cmd, key, arg, want) == Do(cmd, key, arg, "equal", want)

Ok      == Line("+", "OK")
Number(d)  == Line(":", d)
Failure == Line("-", "ERR")

RedisHandshake ==
    << Say("PING", "", "", Line("+", "PONG")),
       Say("ECHO", "", "e", Bulk(<<"e">>)) >>

RedisKeyValue ==
    << Say("SET", "k", "v", Ok),      Say("GET", "k", "", Bulk(<<"v">>)),
       Say("EXISTS", "k", "", Number("1")), Say("DEL", "k", "", Number("1")),
       Say("GET", "k", "", Nil),      Say("EXISTS", "k", "", Number("0")) >>

\* four commands in one write, judged together
RedisPipelined ==
    << Do("SET", "p1", "v1", "pipe", Ok), Do("SET", "p2", "v2", "pipe", Ok),
       Do("GET", "p1", "", "pipe", Bulk(<<"v1">>)), Do("GET", "p2", "", "pipe", Bulk(<<"v2">>)) >>

\* Mutant: the pause comes before the first look at the key.
RedisExpirationPauseFirst ==
    << Say("SETPX", "ttl", "v", Ok),
       [Say("GET", "ttl", "", Bulk(<<"v">>)) EXCEPT !.pause = TtlPause],
       Say("GET", "ttl", "", Nil) >>

RedisExpiration ==
    << Say("SETPX", "ttl", "v", Ok), Say("GET", "ttl", "", Bulk(<<"v">>)),
       [Say("GET", "ttl", "", Nil) EXCEPT !.pause = TtlPause] >>

RedisCounters ==
    << Say("INCR", "cnt", "", Number("1")), Say("INCR", "cnt", "", Number("2")),
       Say("DECR", "cnt", "", Number("1")),
       Do("SET", "str", "word", "ignore", Ok), Do("INCR", "str", "", "error", Failure) >>

----------------------------------------------------------------------------
(* HTTP: requests, and which fields of the response are looked at.         *)

Fields     == {"status", "type", "length", "body"}
StatusOnly == {"status"}
ButType    == Fields \ {"type"}

Response(status, body) == [status |-> status, type |-> "text/plain", length |-> body, body |-> body]

Fetch(path, judge, want) == [path |-> path, judge |-> judge, want |-> want]

HttpRoot      == << Fetch("/", StatusOnly, Response("200", "")) >>
HttpNotFound  == << Fetch("/nonexistent", StatusOnly, Response("404", "")) >>
HttpEcho      == << Fetch("/echo/word", Fields, Response("200", "word")) >>
HttpUserAgent == << Fetch("/user-agent", Fields, Response("200", "agent")) >>

HttpFiles ==
    << Fetch("POST /files/f", StatusOnly, Response("201", "")),
       Fetch("/files/f", ButType, Response("200", "content")),
       Fetch("/files/missing", StatusOnly, Response("404", "")) >>

\* three such requests in the code
HttpOutside == << Fetch("/files/outside", {}, Response("404", "")) >>

HttpStages == <<HttpRoot, HttpNotFound, HttpEcho, HttpUserAgent, HttpFiles \o HttpOutside>>

\* the last request may fail or miss, but must not return what lies outside
HttpAccepts(x, r) ==
    /\ \A f \in x.judge : r[f] = x.want[f]
    /\ ~(x.path = "/files/outside" /\ r.status = "200" /\ r.body = "foreign")

\* what a candidate may answer instead, wrong in one field
HttpWrong(right) ==
    {[right EXCEPT ![f] = "other"] : f \in Fields} \cup {Response("200", "foreign")}

----------------------------------------------------------------------------
(* DNS: one datagram each way; a packet is reduced to what is read of it.  *)

DnsQueries == <<"handshake", "example.com", "localhost", "TXT", "unknown", "burst">>
Burst == 10     \* queries of the last stage
Enough == 8     \* of which so many have to be answered

DnsRight(q) ==
    [whole  |-> TRUE, id |-> "asked", qr |-> 1,
     answers |-> IF q = "unknown" THEN 0 ELSE 1,
     data   |-> IF q = "unknown" THEN "none" ELSE q,
     rcode  |-> IF q = "unknown" THEN 3 ELSE 0]

DnsWrong(right) ==
    { [right EXCEPT !.whole = FALSE], [right EXCEPT !.id = "other"], [right EXCEPT !.qr = 0],
      [right EXCEPT !.answers = 1 - @], [right EXCEPT !.data = "other"],
      [right EXCEPT !.rcode = 3 - @] }

DnsAspects == {"whole", "id", "qr", "answers", "data", "rcode"}

DnsIsResponse(r)   == r.id = "asked" /\ r.qr = 1
DnsIsAddress(q, r) == r.answers >= 1 /\ r.data = q
DnsIsText(r)       == r.data = "TXT"
DnsIsUnknown(r)    == r.rcode = 3 \/ r.answers = 0

DnsAccepts(q, r) ==
    /\ r.whole
    /\ q = "handshake" => DnsIsResponse(r)
    /\ q \in {"example.com", "localhost"} => DnsIsAddress(q, r)
    /\ q = "TXT"     => DnsIsText(r)
    /\ q = "unknown" => DnsIsUnknown(r)

\* the number a failed stage reports: two arms carry each other's
DnsStageNumber(n, r) == IF ~r.whole /\ n \in {2, 3} THEN 5 - n ELSE n

----------------------------------------------------------------------------
VARIABLES
    task,                     \* fixed when the pipeline gets here
    phase,                    \* where execute and the verifier are
    disqualified,             \* the compliance check found something
    throughput,               \* the candidate's throughput was measured
    stage, step,              \* the exchange of the verifier's script
    asked,                    \* steps whose request the server has not served yet
    wire,                     \* what it has written and the client has not read
    buf,                      \* what the client has read in this exchange
    open,                     \* the server has not closed the connection
    waited, quiet, pieces,    \* time and reads of this exchange, time since a read
    store, life,              \* the server's data, what is left of the ttl key's life
    results                   \* the StageResults, as [stage, passed]

VARIABLES   \* history
    proven,    \* what of this stage has been answered rightly, as <<step, aspect>>
    unearned,  \* stages that passed although something they promise was not
    late,      \* a read of this connection was given up
    honest,    \* no wrong answer and no hang-up so far
    prompt     \* every exchange so far was over within 50 ms

serverVars == <<asked, wire, open, store, life>>
clock == <<waited, quiet, pieces>>
pipelineVars == <<task, disqualified, throughput>>
history == <<proven, unearned, late, honest, prompt>>
vars == <<pipelineVars, phase, stage, step, serverVars, buf, clock, results, history>>

RedisStages == <<RedisHandshake, RedisKeyValue \o RedisPipelined, RedisExpiration, RedisCounters>>

\* one value for each task
ByTask(redis, http, dns) == IF task = "redis" THEN redis ELSE IF task = "http" THEN http ELSE dns

Stages == ByTask(RedisStages, HttpStages, [i \in 1..6 |-> <<DnsQueries[i]>>])

X == Stages[stage][step]

----------------------------------------------------------------------------
(* A Redis server, external: what it answers and what that changes.        *)

Keys == {"k", "p1", "p2", "ttl", "cnt", "str"}

Value(key) == IF key = "ttl" /\ life = 0 THEN "none" ELSE store[key]

Count(key) == IF Value(key) = "none" THEN 0 ELSE Size[Value(key)]

Answer(x) ==
    IF x.cmd = "PING" THEN Line("+", "PONG")
    ELSE IF x.cmd = "ECHO" THEN Bulk(<<x.arg>>)
    ELSE IF x.cmd \in {"SET", "SETPX"} THEN Ok
    ELSE IF x.cmd = "GET" THEN (IF Value(x.key) = "none" THEN Nil ELSE Bulk(<<Value(x.key)>>))
    ELSE IF x.cmd \in {"EXISTS", "DEL"} THEN Number(IF Value(x.key) = "none" THEN "0" ELSE "1")
    ELSE IF Value(x.key) = "word" THEN Failure
    ELSE Number(Digits(IF x.cmd = "INCR" THEN Count(x.key) + 1 ELSE Count(x.key) - 1))

Stored(x) ==
    IF x.cmd \in {"SET", "SETPX"} THEN [store EXCEPT ![x.key] = x.arg]
    ELSE IF x.cmd = "DEL" THEN [store EXCEPT ![x.key] = "none"]
    ELSE IF x.cmd = "INCR" /\ Value(x.key) # "word" THEN [store EXCEPT ![x.key] = Digits(Count(x.key) + 1)]
    ELSE IF x.cmd = "DECR" THEN [store EXCEPT ![x.key] = Digits(Count(x.key) - 1)]
    ELSE store

WrongAnswers(x) ==
    IF x.judge = "pipe" THEN {Ok, Failure}
    ELSE {Ok, Number("0"), Failure, Nil, Array(0, <<>>), Bulk(<<"cr", "lf">>), Array(2, Nil \o Array(1, Ok))}

Older(d) == IF life > d THEN life - d ELSE 0

----------------------------------------------------------------------------
(* execute, up to the verifier and after it.                               *)

Init ==
    /\ task \in Tasks
    /\ phase = "comply" /\ disqualified = FALSE /\ throughput = FALSE
    /\ stage = 1 /\ step = 0 /\ results = <<>>
    /\ asked = <<>> /\ wire = <<>> /\ buf = <<>> /\ open = FALSE
    /\ waited = 0 /\ quiet = 0 /\ pieces = 0
    /\ store = [k \in Keys |-> "none"] /\ life = 0
    /\ proven = {} /\ unearned = {} /\ late = FALSE /\ honest = TRUE /\ prompt = TRUE

\* check_no_frameworks; a disqualified candidate is not started
Comply ==
    /\ phase = "comply"
    /\ \/ /\ disqualified' = TRUE
          /\ results' = <<[stage |-> 0, passed |-> FALSE]>>
          /\ phase' = "done"
       \/ /\ phase' = "start"
          /\ UNCHANGED <<disqualified, results>>
    /\ UNCHANGED <<task, throughput, stage, step, serverVars, buf, clock, history>>

\* ensure_runnable_candidate finds nothing to run, or it is started
Start ==
    /\ phase = "start"
    /\ phase' \in {"done", "wait"}
    /\ UNCHANGED <<pipelineVars, stage, step, serverVars, buf, clock, results, history>>

\* the port answers, or 25 s are over: the verifier runs in both cases
WaitReady ==
    /\ phase = "wait"
    /\ phase' = "connect"
    /\ UNCHANGED <<pipelineVars, stage, step, serverVars, buf, clock, results, history>>

\* load test of a candidate that passed everything; DNS has none
Bench ==
    /\ phase = "verified"
    /\ phase' = "done"
    /\ IF task # "dns" /\ \A i \in DOMAIN results : results[i].passed
       THEN throughput' \in BOOLEAN
       ELSE UNCHANGED throughput
    /\ UNCHANGED <<task, disqualified, stage, step, serverVars, buf, clock, results, history>>

PassedStages == Cardinality({i \in DOMAIN results : results[i].passed})
\* Mutant: the stages counted before the burst was added.
TotalStagesBefore == ByTask(4, 5, 5)

TotalStages == ByTask(4, 5, 6)

Status(agentFailed) ==
    IF disqualified THEN "disqualified_cheat"
    ELSE IF PassedStages = TotalStages THEN (IF agentFailed THEN "agent_killed" ELSE "completed")
    ELSE IF agentFailed THEN "agent_failed" ELSE "failed_tests"

----------------------------------------------------------------------------
(* Ends of an exchange and of a stage.                                     *)

Aspects(s) ==
    ByTask({"value"},
           IF Stages[stage][s].path = "/files/outside" THEN {"inside"} ELSE Fields,
           DnsAspects)

\* what the verifiers knowingly leave unjudged: of the pipelined answers all but
\* the first value, and that too if the write failed because the server had hung
\* up; the SET of stage 4, and the INCR after it if the SET's answer may only
\* come after its time-out
RedisLenient ==
    (   (IF stage = 2 THEN {7, 8, 10} ELSE {})
     \cup (IF stage = 2 /\ ~open THEN {9} ELSE {})
     \cup (IF stage = 4 THEN {4} ELSE {})
     \cup (IF stage = 4 /\ late THEN {5} ELSE {}) ) \X {"value"}

HttpLenient ==
    IF stage \in {1, 2} THEN {1} \X (Fields \ {"status"})
    ELSE IF stage = 5 THEN {1, 3} \X (Fields \ {"status"}) \cup {<<2, "type">>}
    ELSE {}

\* what each stage looks at
DnsJudged ==
    << {"whole", "id", "qr"}, {"whole", "answers", "data"}, {"whole", "answers", "data"},
       {"whole", "data"}, {"whole"}, {} >>

DnsLenient == {1} \X (DnsAspects \ DnsJudged[stage])

Lenient == ByTask(RedisLenient, HttpLenient, DnsLenient)

Earned(proof) ==
    \A s \in DOMAIN Stages[stage] : \A a \in Aspects(s) : <<s, a>> \in proof \cup Lenient

NewConnection ==
    /\ asked' = <<>> /\ wire' = <<>> /\ buf' = <<>>
    /\ waited' = 0 /\ quiet' = 0 /\ pieces' = 0

Conclude(passed, number, proof) ==
    /\ results' = Append(results, [stage |-> number, passed |-> passed])
    /\ unearned' = IF passed /\ ~Earned(proof) THEN unearned \cup {stage} ELSE unearned
    /\ stage' = stage + 1
    /\ phase' = IF stage = Len(Stages) THEN "verified" ELSE "connect"
    /\ step' = 0 /\ proven' = {}
    /\ NewConnection /\ open' = FALSE

Fail == Conclude(FALSE, stage, proven)

\* the next command of the script; the connection is kept as it is
Continue(next, proof) ==
    IF next > Len(Stages[stage])
    THEN Conclude(TRUE, stage, proof)
    ELSE /\ step' = next /\ phase' = "send" /\ proven' = proof
         /\ buf' = <<>> /\ waited' = 0 /\ quiet' = 0 /\ pieces' = 0
         /\ UNCHANGED <<stage, results, unearned, asked, wire, open>>

Connect ==
    /\ phase = "connect"
    /\ phase' = "send" /\ step' = 1 /\ late' = FALSE /\ open' = TRUE
    /\ NewConnection
    /\ store' = [k \in Keys |-> "none"] /\ life' = 0   \* each stage has keys of its own
    /\ UNCHANGED <<pipelineVars, stage, results, proven, unearned, honest, prompt>>

\* refused, or not accepted within 3 s; HTTP and DNS learn of it in the exchange
Refused ==
    /\ phase = "connect" /\ task = "redis"
    /\ Fail /\ honest' = FALSE
    /\ UNCHANGED <<pipelineVars, store, life, late, prompt>>

----------------------------------------------------------------------------
(* Redis: send_resp_cmd, the pipelined check, and the server beside them.  *)

Pipelined == X.judge = "pipe"
PipeSize  == Len(Ok \o Ok \o Bulk(<<"v1">>) \o Bulk(<<"v2">>)) - 2   \* 24 of 26 bytes
Batch     == IF Pipelined THEN 4 ELSE 1

Reading == task = "redis" /\ phase = "read"

\* the loop of an exchange has got what it waits for
Satisfied ==
    IF Pipelined THEN Len(buf) >= PipeSize \/ waited >= PipeTotal ELSE IsComplete(buf)

InTime(d) == IF Pipelined THEN quiet + d < PipeQuiet ELSE waited + d < ReadTimeout

Send ==
    /\ task = "redis" /\ phase = "send"
    /\ asked' = IF open THEN asked \o [i \in 1..Batch |-> step + i - 1] ELSE asked
    /\ life' = Older(X.pause)
    /\ phase' = "read"
    /\ UNCHANGED <<pipelineVars, stage, step, wire, buf, open, clock, store, results, history>>

\* the peer is known to be gone: pipelined commands are then not judged at all
SendFails ==
    /\ task = "redis" /\ phase = "send" /\ ~open
    /\ life' = Older(X.pause)
    /\ IF X.judge \in {"pipe", "ignore"} THEN Continue(step + Batch, proven) ELSE Fail
    /\ UNCHANGED <<pipelineVars, store, late, honest, prompt>>

Serve ==
    /\ Reading /\ ~Satisfied /\ asked # <<>>
    /\ \E d \in Lags :
        /\ InTime(d)
        /\ waited' = waited + d
        /\ quiet' = IF Pipelined THEN quiet + d ELSE 0
        /\ LET x == Stages[stage][Head(asked)] IN
           /\ \/ /\ wire' = wire \o Answer(x)
                 /\ proven' = proven \cup {<<Head(asked), "value">>}
                 /\ UNCHANGED honest
              \/ /\ \E r \in WrongAnswers(x) \ {Answer(x)} : wire' = wire \o r
                 /\ honest' = FALSE
                 /\ UNCHANGED proven
           /\ store' = Stored(x)
           /\ life' = IF x.cmd = "SETPX" THEN Ttl ELSE Older(d)
    /\ asked' = Tail(asked)
    /\ UNCHANGED <<pipelineVars, phase, stage, step, buf, open, pieces, results, unearned, late, prompt>>

Deliver ==
    /\ Reading /\ ~Satisfied /\ pieces < MaxPieces
    /\ \E d \in Lags, n \in 1..Len(wire) :
        /\ InTime(d)
        /\ waited' = waited + d /\ quiet' = 0 /\ life' = Older(d)
        /\ buf' = buf \o SubSeq(wire, 1, n)
        /\ wire' = SubSeq(wire, n + 1, Len(wire))
    /\ pieces' = pieces + 1
    /\ UNCHANGED <<pipelineVars, phase, stage, step, asked, open, store, results, history>>

HangUp ==
    /\ Reading /\ open
    /\ open' = FALSE /\ asked' = <<>> /\ honest' = FALSE
    /\ UNCHANGED <<pipelineVars, phase, stage, step, wire, buf, clock, store, life, results,
                   proven, unearned, late, prompt>>

\* the words are only ever sent behind their type byte or length
PipeAccepted == Contains(buf, "OK") /\ Contains(buf, "v1")

\* Mutant: only the type of a reply is compared.
AcceptsType(x, answer) ==
    /\ x.judge = "equal" => answer[1] = x.want[1]
    /\ x.judge = "error" => answer[1] = "-"

\* the answer to one command; "ignore" takes any
Accepts(x, answer) ==
    /\ x.judge = "equal" => answer = x.want
    /\ x.judge = "error" => answer[1] = "-"

Accepted == IF Pipelined THEN PipeAccepted ELSE Accepts(X, buf)

JudgeAnswer ==
    /\ Reading /\ Satisfied
    /\ IF Accepted THEN Continue(step + Batch, proven) ELSE Fail
    /\ prompt' = (prompt /\ waited <= 1)
    /\ UNCHANGED <<pipelineVars, store, life, late, honest>>

\* Mutant: a read ends only when the server hangs up.
GiveUpOnHangUp ==
    /\ Reading /\ ~Satisfied /\ ~open /\ wire = <<>>
    /\ IF X.judge = "ignore" \/ (Pipelined /\ PipeAccepted)
       THEN Continue(step + Batch, proven)
       ELSE Fail
    /\ late' = TRUE
    /\ UNCHANGED <<pipelineVars, store, life, prompt, honest>>

\* the read times out, or ends because the server has hung up
GiveUp ==
    /\ Reading /\ ~Satisfied
    /\ IF X.judge = "ignore" \/ (Pipelined /\ PipeAccepted)
       THEN Continue(step + Batch, proven)
       ELSE Fail
    /\ \/ /\ life' = Older(IF Pipelined THEN PipeQuiet - quiet ELSE ReadTimeout - waited)
          /\ prompt' = FALSE
          /\ open \/ wire # <<>>
       \/ /\ ~open /\ wire = <<>>
          /\ UNCHANGED <<life, prompt>>
    /\ late' = TRUE
    /\ UNCHANGED <<pipelineVars, store, honest>>

----------------------------------------------------------------------------
(* HTTP and DNS: one step per request, its answer and what is made of it.  *)

HttpExchange ==
    /\ task = "http" /\ phase = "send"
    /\ \E r \in {X.want} \cup HttpWrong(X.want) :
        LET proof == proven \cup {<<step, f>> : f \in {g \in Fields : r[g] = X.want[g]}}
                            \cup (IF r.body = "foreign" THEN {} ELSE {<<step, "inside">>})
        IN  /\ IF HttpAccepts(X, r) THEN Continue(step + 1, proof) ELSE Fail
            /\ honest' = (honest /\ r = X.want)
    /\ UNCHANGED <<pipelineVars, store, life, late, prompt>>

\* refused, broken off, or not over within 3 s
HttpSilence ==
    /\ task = "http" /\ phase = "send"
    /\ IF X.path = "/files/outside"
       THEN Continue(step + 1, proven \cup {<<step, "inside">>})
       ELSE Fail
    /\ honest' = FALSE
    /\ UNCHANGED <<pipelineVars, store, life, late, prompt>>

DnsExchange ==
    /\ task = "dns" /\ phase = "send" /\ X # "burst"
    /\ \E r \in {DnsRight(X)} \cup DnsWrong(DnsRight(X)) :
        LET proof == {<<1, f>> : f \in {g \in DOMAIN r : r[g] = DnsRight(X)[g]}}
        IN  /\ Conclude(DnsAccepts(X, r), DnsStageNumber(stage, r), proof)
            /\ honest' = (honest /\ r = DnsRight(X))
    /\ UNCHANGED <<pipelineVars, store, life, late, prompt>>

\* no datagram within 1.5 s
DnsSilence ==
    /\ task = "dns" /\ phase = "send" /\ X # "burst"
    /\ Fail
    /\ honest' = FALSE
    /\ UNCHANGED <<pipelineVars, store, life, late, prompt>>

DnsBurst ==
    /\ task = "dns" /\ phase = "send" /\ X = "burst"
    /\ \E answered \in 0..Burst :
        /\ Conclude(answered >= Enough, stage, proven)
        /\ honest' = (honest /\ answered = Burst)
    /\ UNCHANGED <<pipelineVars, store, life, late, prompt>>

----------------------------------------------------------------------------
Server   == Serve \/ Deliver \/ HangUp
Harness  == Comply \/ Start \/ WaitReady \/ Connect \/ Refused \/ Send \/ SendFails \/ JudgeAnswer \/ GiveUp
            \/ HttpExchange \/ HttpSilence \/ DnsExchange \/ DnsSilence \/ DnsBurst \/ Bench

Next == Harness \/ Server

Spec == Init /\ [][Next]_vars

\* the harness is scheduled and its time-outs expire; the candidate is free
FairSpec == Spec /\ WF_vars(Harness)

----------------------------------------------------------------------------
(* A command's answer is taken for whole exactly when it has arrived       *)
(* whole, wherever it was cut and whatever value it carries (parse_resp_   *)
(* frame under send_resp_cmd).                                             *)
FrameWhenWhole ==
    (Reading /\ ~Pipelined /\ ~late) =>
        (IsComplete(buf) <=> buf # <<>> /\ wire = <<>> /\ asked = <<>>)

(* A stage that passes has had everything it asks answered rightly, except *)
(* for what Lenient names.                                                 *)
PassIsEarned == unearned = {}

(* A candidate that answers everything rightly, each exchange within       *)
(* 50 ms, passes every stage it is put to, the expiry included.            *)
ConformingPasses ==
    honest /\ prompt /\ ~disqualified => \A i \in DOMAIN results : results[i].passed

(* A run that ends with a full score has been put to every stage of its    *)
(* task once, and the results carry the stages' numbers in order; only a   *)
(* truncated DNS answer puts a failed stage under another number.          *)
StagesInOrder ==
    phase = "done" =>
        /\ Status(FALSE) = "completed" => Len(results) = TotalStages
        /\ \A i \in DOMAIN results :
              \/ results[i].stage = i
              \/ disqualified /\ results[i].stage = 0
              \/ task = "dns" /\ i \in {2, 3} /\ ~results[i].passed /\ results[i].stage = 5 - i

(* Whatever the candidate does, the verification comes to its end.         *)
VerificationEnds == <>(phase = "done")
=============================================================================
