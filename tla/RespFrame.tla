----------------------------- MODULE RespFrame -----------------------------
(***************************************************************************)
(* Replies of a Redis server as they travel, and parse_resp_frame, by      *)
(* which the verifier in src/verifier/redis.rs decides whether what it has *)
(* read so far holds a whole frame.  A frame is a sequence of tokens: a    *)
(* type byte, a length, a word, or one half of a line end.                 *)
(***************************************************************************)
EXTENDS Naturals, Sequences, SequencesExt

Tokens ==
    {"+", "-", ":", "$", "*"} \cup {"0", "1", "2", "-1"} \cup {"cr", "lf"}
    \cup {"PONG", "OK", "ERR", "e", "v", "v1", "v2"}

Eol == <<"cr", "lf">>

\* the lengths and counts that str::parse::<usize> accepts
Size == [d \in {"0", "1", "2"} |-> IF d = "0" THEN 0 ELSE IF d = "1" THEN 1 ELSE 2]
Digits(n) == CHOOSE d \in DOMAIN Size : Size[d] = n

----------------------------------------------------------------------------
(* How a server lays out a line, a string, nil and an array of n frames.   *)

Line(type, word) == <<type, word>> \o Eol
Bulk(words)      == <<"$", Digits(Len(words))>> \o Eol \o words \o Eol
Nil              == <<"$", "-1">> \o Eol
Array(n, frames) == <<"*", Digits(n)>> \o Eol \o frames

----------------------------------------------------------------------------
(* The parser.  Its None is 0: a frame has at least the two halves of a    *)
(* line end.                                                               *)

\* position of the first line end, 0 if there is none
LineEnd(b) ==
    LET ends == {i \in 1..(Len(b) - 1) : b[i] = "cr" /\ b[i + 1] = "lf"}
    IN  IF ends = {} THEN 0 ELSE CHOOSE i \in ends : \A j \in ends : i <= j

\* the end of the element that begins after a position, 0 if it is not whole;
\* parsed is the parser itself
After(parsed, b, start) ==
    IF start = 0 \/ start >= Len(b) THEN 0
    ELSE LET element == parsed[SubSeq(b, start + 1, Len(b))]
         IN  IF element = 0 THEN 0 ELSE start + element

\* how many tokens the frame at the beginning of a buffer takes
Frame(parsed, b) ==
    LET eol    == LineEnd(b)
        header == SubSeq(b, 2, eol - 1)
        size   == Size[header[1]]
        string == eol + 1 + size + 2
        first  == After(parsed, b, eol + 1)
    IN  IF eol = 0 THEN 0
        ELSE IF b[1] \notin {"$", "*"} \/ header = <<"-1">> THEN eol + 1
        ELSE IF header \notin {<<d>> : d \in DOMAIN Size} THEN 0
        ELSE IF b[1] = "$" THEN (IF Len(b) >= string THEN string ELSE 0)
        ELSE IF size = 0 THEN eol + 1
        ELSE IF size = 1 THEN first
        ELSE After(parsed, b, first)

FrameLength[b \in Seq(Tokens)] == Frame(FrameLength, b)

\* Mutant: a line end is the end of the frame.
IsCompleteAtLineEnd(b) == LineEnd(b) # 0

IsComplete(b) == FrameLength[b] # 0
=============================================================================
