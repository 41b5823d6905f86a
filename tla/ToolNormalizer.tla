--------------------------- MODULE ToolNormalizer ---------------------------
(***************************************************************************)
(* The proxy in front of the local model server,                           *)
(* src/sandbox/tool_normalizer.rs: a request goes to llama-server without  *)
(* streaming, tool calls are found in the answer's text, and the agent     *)
(* gets the answer whole or as a stream of chunks.                         *)
(* The text of an answer is a sequence of segments; of a file's content    *)
(* only its body and the write commands wrapped around it are kept.        *)
(***************************************************************************)
EXTENDS Naturals, Sequences, FiniteSets, Functions

CONSTANTS
    Texts,      \* texts an answer may have: sequences of segments
    Given,      \* lists of tool calls llama-server may have found itself
    Statuses,   \* its statuses other than success
    Paths,      \* spellings of a file's path
    Tools,      \* names of tools
    Bodies,     \* what a file may hold
    None        \* no value

----------------------------------------------------------------------------
(* Contents, calls, segments                                               *)

\* a body inside nested commands write(path=..., content=...), outermost first
Wrapped(paths, body) == [paths |-> paths, body |-> body]
Plain(body) == Wrapped(<<>>, body)

\* arguments that are not JSON are not readable
ToolCall(name, path, content, readable) ==
    [name |-> name, path |-> path, content |-> content, readable |-> readable]

Write(path, content) == ToolCall("write", path, content, TRUE)

\* prose that mentions a file in back ticks ("tick") or after a word ("word"),
\* before which a character of several bytes may stand across the 300th byte
Prose(path, style, astride) == [kind |-> "prose", path |-> path, style |-> style, astride |-> astride]

\* <tool_call>, ```json, <function=>, or a bare object: valid if it has what is looked for
Envelope(kind, call, valid) == [kind |-> kind, call |-> call, valid |-> valid]

\* a fenced block: file named in its first two lines, content, the name its
\* language suggests, and whether it is a mere curl, docker or wrk command
Fence(comment, content, guess, command) ==
    [kind |-> "fence", comment |-> comment, content |-> content, guess |-> guess, command |-> command]

\* the whole text is one write command
Command(content) == [kind |-> "command", content |-> content]

Contents  == [paths : Seq(Paths \cup {None}), body : Bodies]
ToolCalls == [name : Tools, path : Paths \cup {None}, content : Contents, readable : BOOLEAN]
Segments  ==
    [kind : {"prose"}, path : Paths \cup {None}, style : {"tick", "word"}, astride : BOOLEAN]
    \cup [kind : {"xml", "json", "function", "bare"}, call : ToolCalls, valid : BOOLEAN]
    \cup [kind : {"fence"}, comment : Paths \cup {None}, content : Contents,
          guess : Paths \cup {None}, command : BOOLEAN]
    \cup [kind : {"command"}, content : {c \in Contents : c.paths # <<>>}]

\* None is none of the values; clean paths are paths
ASSUME ValuesAssumption ==
    /\ Texts \subseteq Seq(Segments) /\ Given \subseteq Seq(ToolCalls)
    /\ {"a.py", "start.sh"} \subseteq Paths /\ "write" \in Tools
    /\ None \notin Paths /\ None \notin [path : Paths \cup {None}, content : Contents]
    /\ None \notin Seq(ToolCalls) /\ None \notin Seq(Segments)
    /\ "200" \notin Statuses \cup {None}

----------------------------------------------------------------------------
(* Helpers of the extraction                                               *)

\* the first of two, if there is one
FirstOf(a, b) == IF a # None THEN a ELSE b

\* the members of a set of positions in order
InOrder(positions) ==
    CHOOSE q \in [1..Cardinality(positions) -> positions] :
        \A i, j \in DOMAIN q : i < j => q[i] < q[j]

Clean(path) ==
    IF path \in {"./a.py", "/workspace/a.py"} THEN "a.py"
    ELSE IF path = "/workspace/start.sh" THEN "start.sh"
    ELSE path

\* paths that clean to something that is not inside the workspace
Skipped(path) == path \in {"../a.py", "/a.py", "http.py"}

ParsePseudoWrite(c) ==
    IF c.paths = <<>> THEN None ELSE [path |-> Head(c.paths), content |-> Wrapped(Tail(c.paths), c.body)]

\* Mutant: only a call without a path is looked into.
SanitizeIfPathless(call) ==
    LET w == ParsePseudoWrite(call.content)
    IN  IF call.name # "write" \/ ~call.readable \/ w = None \/ call.path # None THEN call
        ELSE [call EXCEPT !.content = w.content, !.path = IF w.path = None THEN @ ELSE Clean(w.path)]

SanitizeToolCall(call) ==
    LET w == ParsePseudoWrite(call.content)
    IN  IF call.name # "write" \/ ~call.readable \/ w = None THEN call
        ELSE [call EXCEPT !.content = w.content, !.path = IF w.path = None THEN @ ELSE Clean(w.path)]

\* the last mention before a block, one in back ticks before any other
Mention(text, i) ==
    LET Said(style) == {j \in 1..(i - 1) : text[j].kind = "prose" /\ text[j].path # None /\ text[j].style = style}
        Latest(S)    == IF S = {} THEN None ELSE text[CHOOSE j \in S : \A k \in S : k <= j].path
    IN  FirstOf(Latest(Said("tick")), Latest(Said("word")))

\* what names a block before the text around it is looked at
OwnName(f) == FirstOf(f.comment, IF f.content.paths # <<>> THEN Head(f.content.paths) ELSE None)

FenceName(text, i) == FirstOf(FirstOf(OwnName(text[i]), Mention(text, i)), text[i].guess)

FenceContent(f) == IF f.content.paths = <<>> THEN f.content ELSE ParsePseudoWrite(f.content).content

Fences(text) == {i \in DOMAIN text : text[i].kind = "fence"}

\* a block makes a file if it has a usable name
Usable(text, i) ==
    /\ FenceName(text, i) # None
    /\ ~Skipped(Clean(FenceName(text, i)))
    /\ ~(Clean(FenceName(text, i)) = "start.sh" /\ text[i].command)

\* Mutant: paths are compared as they are written.
TakenAsWritten(text, i) ==
    /\ Usable(text, i)
    /\ \A j \in Fences(text) : j < i /\ Usable(text, j) => FenceName(text, j) # FenceName(text, i)

\* of the blocks for one path the first is taken
Taken(text, i) ==
    /\ Usable(text, i)
    /\ \A j \in Fences(text) :
          j < i /\ Usable(text, j) => Clean(FenceName(text, j)) # Clean(FenceName(text, i))

CodeBlocksAsWrites(text) ==
    LET taken == InOrder({i \in Fences(text) : Taken(text, i)})
    IN  [k \in DOMAIN taken |->
            Write(Clean(FenceName(text, taken[k])), FenceContent(text[taken[k]]))]

----------------------------------------------------------------------------
(* extract_tool_calls: the first of the forms that yields a call; <<>> for *)
(* None.                                                                   *)

Calls(text, kind) ==
    LET found == InOrder({i \in DOMAIN text : text[i].kind = kind /\ text[i].valid})
    IN  [k \in DOMAIN found |-> text[found[k]].call]

\* forms that are tried before the blocks
Enveloped(text) == \E s \in Range(text) : s.kind \in {"xml", "json", "function"} /\ s.valid

\* the slice of the 300 bytes before a block panics inside a character
Panics(text) ==
    /\ ~Enveloped(text)
    /\ \E i \in Fences(text) :
          OwnName(text[i]) = None /\ i > 1 /\ text[i - 1].kind = "prose" /\ text[i - 1].astride

SanitizeAll(calls) == [k \in DOMAIN calls |-> SanitizeToolCall(calls[k])]

Sole(text, kind) == Len(text) = 1 /\ text[1].kind = kind

BareCall(text) ==
    IF Sole(text, "bare") /\ text[1].valid THEN <<SanitizeToolCall(text[1].call)>> ELSE <<>>

WriteCommand(text) ==
    IF Sole(text, "command") /\ Head(text[1].content.paths) # None
    THEN LET w == ParsePseudoWrite(text[1].content) IN <<Write(Clean(w.path), w.content)>>
    ELSE <<>>

\* the calls of one form, or else those of another
OrElse(calls, others) == IF calls # <<>> THEN calls ELSE others

ExtractToolCalls(text) ==
    OrElse(Calls(text, "xml"),
    OrElse(Calls(text, "json"),
    OrElse(Calls(text, "function"),
    OrElse(BareCall(text),
    OrElse(WriteCommand(text), SanitizeAll(CodeBlocksAsWrites(text)))))))

----------------------------------------------------------------------------
(* The answer.  llama-server's message is [text, calls, finish]; calls is  *)
(* None where the field is missing, text is None where it is null.         *)

Message(text, calls, finish) == [text |-> text, calls |-> calls, finish |-> finish]

\* Mutant: a text is looked into even if there are calls.
HasCallsAlone(m) == m.calls # None /\ m.calls # <<>> /\ m.text = None

HasCalls(m) == m.calls # None /\ m.calls # <<>>

\* what becomes of the message before the two forms part
Normalized(m) == IF HasCalls(m) THEN [m EXCEPT !.calls = SanitizeAll(@)] ELSE m

Extracted(m) == IF HasCalls(m) \/ m.text = None THEN <<>> ELSE ExtractToolCalls(m.text)

Whole(m) ==
    IF Extracted(m) # <<>> THEN Message(None, Extracted(m), "tool_calls") ELSE Normalized(m)

\* chunks: the beginning of a call, its arguments, both at once, text, the end
Chunk(kind, index, value) == [kind |-> kind, index |-> index, value |-> value]

NameOf(call) == [call EXCEPT !.path = None, !.content = Plain("")]

\* Mutant: every call is streamed under the first index.
CallChunksAtFirst(calls) ==
    [i \in 1..(2 * Len(calls)) |->
        LET call == calls[(i + 1) \div 2]
        IN  IF i % 2 = 1 THEN Chunk("head", 1, NameOf(call)) ELSE Chunk("args", 1, call)]

\* two chunks for each call
CallChunks(calls) ==
    [i \in 1..(2 * Len(calls)) |->
        LET k == (i + 1) \div 2
        IN  IF i % 2 = 1 THEN Chunk("head", k, NameOf(calls[k])) ELSE Chunk("args", k, calls[k])]

Stream(m) ==
    LET found == Extracted(m)
        n     == Normalized(m)
        given == SanitizeAll(n.calls)    \* sanitized a second time
    IN  IF found # <<>> THEN CallChunks(found) \o << Chunk("end", 0, "tool_calls") >>
        ELSE IF n.calls # None
             THEN [k \in DOMAIN given |-> Chunk("call", k, given[k])] \o << Chunk("end", 0, "tool_calls") >>
             ELSE << Chunk("text", 0, IF n.text = None THEN <<>> ELSE n.text), Chunk("end", 0, "stop") >>

\* what a client puts together from the chunks (external: the agent's parser)
Assembled(chunks) ==
    LET Of(kinds) == {c \in Range(chunks) : c.kind \in kinds}
        indices   == {c.index : c \in Of({"head", "call"})}
        Final(k)  == chunks[CHOOSE i \in DOMAIN chunks :
                        /\ chunks[i].index = k /\ chunks[i].kind \in {"args", "call"}
                        /\ \A j \in DOMAIN chunks : j > i => chunks[j].index # k]
    IN  Message(IF Of({"text"}) = {} THEN None ELSE (CHOOSE c \in Of({"text"}) : TRUE).value,
                IF indices = {} THEN None ELSE [k \in 1..Cardinality(indices) |-> Final(k).value],
                (CHOOSE c \in Of({"end"}) : TRUE).value)

----------------------------------------------------------------------------
VARIABLES
    phase,      \* of the request: "asked", "sent", "done"
    stream,     \* the agent asked for a stream
    upstream,   \* what llama-server answered
    status,     \* of the reply; "broken" if the connection ends without one
    reply       \* the message or the chunks

proxyVars == <<phase, stream, upstream, status, reply>>

ProxyInit ==
    /\ phase = "asked" /\ stream \in BOOLEAN
    /\ upstream = None /\ status = None /\ reply = None

\* stream is set to false, and a repeat penalty added, on the way
Forward ==
    /\ phase = "asked"
    /\ phase' = "sent"
    /\ UNCHANGED <<stream, upstream, status, reply>>

\* not reached, or no answer within 300 s; refused; not JSON
NoAnswer ==
    /\ phase = "sent"
    /\ \/ upstream' = "unreachable" /\ status' = "502"
       \/ \E code \in Statuses : upstream' = code /\ status' = code
       \/ upstream' = "garbage" /\ status' = "500"
    /\ phase' = "done"
    /\ UNCHANGED <<stream, reply>>

Relay ==
    /\ phase = "sent"
    /\ \E text \in Texts \cup {None}, calls \in Given \cup {None}, finish \in {"stop", "length", "tool_calls"} :
        LET m == Message(text, calls, finish)
        IN  /\ (calls # None /\ calls # <<>>) <=> finish = "tool_calls"
            /\ upstream' = m
            /\ IF text # None /\ ~HasCalls(m) /\ Panics(text)
               THEN status' = "broken" /\ UNCHANGED reply
               ELSE status' = "200" /\ reply' = IF stream THEN Stream(m) ELSE Whole(m)
    /\ phase' = "done"
    /\ UNCHANGED stream

ProxyNext == Forward \/ NoAnswer \/ Relay

ProxySpec == ProxyInit /\ [][ProxyNext]_proxyVars

----------------------------------------------------------------------------
Answered == status = "200"

\* a write command wrapped in another, which one sanitizing does not undo
Deep(m) ==
    \/ m.calls # None /\ \E c \in Range(m.calls) : Len(c.content.paths) > 1
    \/ m.text # None /\ \E s \in Range(m.text) :
          \/ s.kind \in {"fence", "command"} /\ Len(s.content.paths) > 1
          \/ s.kind \in {"xml", "json", "function", "bare"} /\ Len(s.call.content.paths) > 1

(* A client that asks for a stream learns what one that does not learns:   *)
(* the same calls with the same arguments in the same order, the text, and *)
(* why the answer ended.  Not so: a text beside a list of calls, even an   *)
(* empty list, is not streamed and the answer then ends with "tool_calls"; *)
(* an answer cut off by its length ends with "stop"; and arguments are     *)
(* sanitized once more.                                                    *)
StreamSaysTheSame ==
    Answered /\ ~Deep(upstream) =>
        LET m == upstream
            w == Whole(m)
            s == Assembled(Stream(m))
        IN  /\ s.calls = w.calls \/ (w.calls = <<>> /\ s.calls = None)
            /\ w.calls = None => s.text = (IF w.text = None THEN <<>> ELSE w.text)
            /\ w.calls # <<>> => s.finish = w.finish \/ <<w.finish, s.finish>> = <<"length", "stop">>

\* llama-server's own list of calls is not empty
FoundItself == upstream.calls # None /\ upstream.calls # <<>>

\* the calls that the agent is told to make
Told == IF stream THEN Assembled(reply).calls ELSE reply.calls

(* No write that the agent is told to make has the text of a write command *)
(* for its content, unless that was wrapped twice, or the call was found   *)
(* in tags or in a json block, which are not sanitized.                    *)
NoWriteOfAWrite ==
    Answered /\ ~Deep(upstream) /\ Told # None
    /\ (FoundItself \/ (upstream.text # None /\ ~Enveloped(upstream.text))) =>
        \A c \in Range(Told) : c.name = "write" /\ c.readable => c.content.paths = <<>>

(* Files found in the blocks of a text are written once each, however      *)
(* their paths are spelt, with what the first block for the path holds.    *)
OneWritePerPath ==
    Answered /\ ~Deep(upstream) /\ ~FoundItself /\ upstream.text # None /\ Told # None =>
        LET text  == upstream.text
            paths == [k \in DOMAIN Told |-> Told[k].path]
        IN  Fences(text) # {} /\ ~Enveloped(text) =>
                /\ IsInjective(paths)
                /\ Range(paths) = {Clean(FenceName(text, i)) : i \in {j \in Fences(text) : Usable(text, j)}}
                /\ \A k \in DOMAIN Told : \E i \in Fences(text) :
                      /\ Clean(FenceName(text, i)) = Told[k].path /\ text[i].content.body = Told[k].content.body
                      /\ \A j \in Fences(text) :
                            Usable(text, j) /\ Clean(FenceName(text, j)) = Told[k].path => i <= j

(* Calls that llama-server found itself reach the agent, all of them and   *)
(* in order, whatever the text beside them looks like.                     *)
GivenCallsKept ==
    Answered /\ FoundItself =>
        /\ Told # None /\ Len(Told) = Len(upstream.calls)
        /\ \A k \in DOMAIN Told :
              /\ Told[k].name = upstream.calls[k].name
              /\ Told[k].content.body = upstream.calls[k].content.body
              /\ upstream.calls[k].content.paths = <<>> => Told[k].path = upstream.calls[k].path
=============================================================================
