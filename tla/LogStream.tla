----------------------------- MODULE LogStream -----------------------------
(***************************************************************************)
(* Log lines on their way to the browsers (src/web/server.rs).             *)
(*                                                                         *)
(* A run's WebLogger pushes each line to log_buffer and then sends it on a *)
(* tokio broadcast channel; some messages of the controller are only sent. *)
(* GET /api/stream subscribes to the channel, then copies the buffer, and  *)
(* answers with the copy followed by what the subscription receives.  A    *)
(* subscriber that falls more than Capacity messages behind is moved       *)
(* forward and told so by a notice.                                        *)
(*                                                                         *)
(* A message is its writer, a number and how it was written, so that no    *)
(* two are equal.                                                          *)
(***************************************************************************)
EXTENDS Naturals, Sequences, SequencesExt

CONSTANTS
    Writers,      \* the runs, each logging from one thread at a time, and stop requests
    Clients,      \* the subscribers of /api/stream
    MaxLines,     \* bound: lines written by each writer
    Capacity      \* messages the broadcast channel retains (4096 in the code)

ASSUME CapacityAssumption == Capacity \in Nat \ {0}
ASSUME BoundAssumption == MaxLines \in Nat

VARIABLES
    log_buffer,   \* AppState.log_buffer
    sent,         \* everything sent on AppState.log_sender, in order
    wpc,          \* "fresh" until the buffer is cleared, "pushed" between push and send
    count,        \* lines written by each writer
    cpc,          \* "away", "subscribed", "streaming"
    next,         \* the position in sent each subscription reads next
    shown,        \* what each client has been sent
    \* history variables, read by no guard
    missed,       \* the lines each subscription was moved past
    cleared       \* the lines that a new run removed from the buffer

logVars == <<log_buffer, sent, wpc, count, cpc, next, shown, missed, cleared>>

Lines  == Writers \X (1..MaxLines) \X {"logged"}
Notice == <<"stream", "notice">>
Oldest == IF Len(sent) > Capacity THEN Len(sent) - Capacity + 1 ELSE 1

LogInit ==
    /\ log_buffer = <<>> /\ sent = <<>>
    /\ wpc = [w \in Writers |-> "fresh"]
    /\ count = [w \in Writers |-> 0]
    /\ cpc = [c \in Clients |-> "away"]
    /\ next = [c \in Clients |-> 1]
    /\ shown = [c \in Clients |-> <<>>]
    /\ missed = [c \in Clients |-> {}]
    /\ cleared = {}

-----------------------------------------------------------------------------
(* Writers *)

\* trial 1 of a run empties the buffer
Clear(w) ==
    /\ wpc[w] = "fresh"
    /\ wpc' = [wpc EXCEPT ![w] = "ready"]
    /\ cleared' = cleared \cup ToSet(log_buffer)
    /\ log_buffer' = <<>>
    /\ UNCHANGED <<sent, count, cpc, next, shown, missed>>

\* Mutant: the line does not enter the buffer.
PushNothing(w) ==
    /\ wpc[w] = "ready"
    /\ count[w] < MaxLines
    /\ count' = [count EXCEPT ![w] = @ + 1]
    /\ wpc' = [wpc EXCEPT ![w] = "pushed"]
    /\ UNCHANGED <<log_buffer, sent, cpc, next, shown, missed, cleared>>

\* WebLogger.log, first half of a line
Push(w) ==
    /\ wpc[w] = "ready"
    /\ count[w] < MaxLines
    /\ count' = [count EXCEPT ![w] = @ + 1]
    /\ log_buffer' = Append(log_buffer, <<w, count'[w], "logged">>)
    /\ wpc' = [wpc EXCEPT ![w] = "pushed"]
    /\ UNCHANGED <<sent, cpc, next, shown, missed, cleared>>

\* WebLogger.log, second half
Send(w) ==
    /\ wpc[w] = "pushed"
    /\ sent' = Append(sent, <<w, count[w], "logged">>)
    /\ wpc' = [wpc EXCEPT ![w] = "ready"]
    /\ UNCHANGED <<log_buffer, count, cpc, next, shown, missed, cleared>>

\* tx.send without the logger: [STOP], [USER ACTION], [MULTI-TRIAL], [STATUS], [DONE]
SendDirect(w) ==
    /\ wpc[w] # "pushed"
    /\ count[w] < MaxLines
    /\ count' = [count EXCEPT ![w] = @ + 1]
    /\ sent' = Append(sent, <<w, count'[w], "direct">>)
    /\ UNCHANGED <<log_buffer, wpc, cpc, next, shown, missed, cleared>>

-----------------------------------------------------------------------------
(* Clients: stream_logs *)

Subscribe(c) ==
    /\ cpc[c] = "away"
    /\ cpc' = [cpc EXCEPT ![c] = "subscribed"]
    /\ next' = [next EXCEPT ![c] = Len(sent) + 1]
    /\ UNCHANGED <<log_buffer, sent, wpc, count, shown, missed, cleared>>

Snapshot(c) ==
    /\ cpc[c] = "subscribed"
    /\ cpc' = [cpc EXCEPT ![c] = "streaming"]
    /\ shown' = [shown EXCEPT ![c] = log_buffer]
    /\ UNCHANGED <<log_buffer, sent, wpc, count, next, missed, cleared>>

\* the live half of the chained stream: a message ..
Receive(c) ==
    /\ cpc[c] = "streaming"
    /\ next[c] \in Oldest..Len(sent)
    /\ shown' = [shown EXCEPT ![c] = Append(@, sent[next[c]])]
    /\ next' = [next EXCEPT ![c] = @ + 1]
    /\ UNCHANGED <<log_buffer, sent, wpc, count, cpc, missed, cleared>>

\* Mutant: the error of a lagging receiver is swallowed.
LaggedSilently(c) ==
    /\ cpc[c] = "streaming"
    /\ next[c] < Oldest
    /\ next' = [next EXCEPT ![c] = Oldest]
    /\ missed' = [missed EXCEPT ![c] = @ \cup {sent[i] : i \in next[c]..Oldest - 1}]
    /\ UNCHANGED <<log_buffer, sent, wpc, count, cpc, shown, cleared>>

\* .. or the notice that some were dropped
Lagged(c) ==
    /\ cpc[c] = "streaming"
    /\ next[c] < Oldest
    /\ shown' = [shown EXCEPT ![c] = Append(@, Notice)]
    /\ next' = [next EXCEPT ![c] = Oldest]
    /\ missed' = [missed EXCEPT ![c] = @ \cup {sent[i] : i \in next[c]..Oldest - 1}]
    /\ UNCHANGED <<log_buffer, sent, wpc, count, cpc, cleared>>

-----------------------------------------------------------------------------

WriterStep(w) == Clear(w) \/ Push(w) \/ Send(w) \/ SendDirect(w)

\* Mutant: the buffer is copied before the subscription exists.
CopyFirst(c) ==
    \/ /\ cpc[c] = "away"
       /\ cpc' = [cpc EXCEPT ![c] = "subscribed"]
       /\ shown' = [shown EXCEPT ![c] = log_buffer]
       /\ UNCHANGED <<log_buffer, sent, wpc, count, next, missed, cleared>>
    \/ /\ cpc[c] = "subscribed"
       /\ cpc' = [cpc EXCEPT ![c] = "streaming"]
       /\ next' = [next EXCEPT ![c] = Len(sent) + 1]
       /\ UNCHANGED <<log_buffer, sent, wpc, count, shown, missed, cleared>>
    \/ Receive(c) \/ Lagged(c)

ClientStep(c) == Subscribe(c) \/ Snapshot(c) \/ Receive(c) \/ Lagged(c)

LogNext == (\E w \in Writers : WriterStep(w)) \/ (\E c \in Clients : ClientStep(c))

LogSpec == LogInit /\ [][LogNext]_logVars

\* a connection that stays open is polled, and a pushed line is sent
LogFairSpec ==
    /\ LogSpec
    /\ \A w \in Writers : WF_logVars(Send(w))
    /\ \A c \in Clients : WF_logVars(Snapshot(c) \/ Receive(c) \/ Lagged(c))

-----------------------------------------------------------------------------
(* Properties *)

InFlight(x) == \E w \in Writers : wpc[w] = "pushed" /\ x = <<w, count[w], "logged">>

CaughtUp(c) == cpc[c] = "streaming" /\ next[c] = Len(sent) + 1

\* A client that has received everything has been shown every line of the
\* buffer that was sent, or has been told that it fell behind: a line that
\* slips between the copy and the subscription would break it.
NoSilentLoss ==
    \A c \in Clients : CaughtUp(c) =>
        \A x \in ToSet(log_buffer) :
            x \in ToSet(shown[c]) \/ InFlight(x) \/ Notice \in ToSet(shown[c])

\* Whatever a logger wrote and a lagging client was moved past is in the
\* buffer that GET /api/console returns, until a new run clears it.
MissedLinesInConsole ==
    \A c \in Clients :
        (missed[c] \cap Lines) \ cleared \subseteq ToSet(log_buffer)

\* A subscriber that stays connected gets to see each logged line, from the
\* copy or live, or learns that it missed some.
LinesArrive ==
    \A c \in Clients, x \in Lines :
        cpc[c] = "streaming" /\ x \in ToSet(log_buffer)
            ~> x \in ToSet(shown[c]) \/ Notice \in ToSet(shown[c])
=============================================================================
